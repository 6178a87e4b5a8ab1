---------------------------- MODULE SessionSetup ----------------------------
(***************************************************************************)
(* Key setup between the demo host (notary/src/bin/notary_demo.rs) and a   *)
(* connection handler of notary/src/bin/notary_proxy.rs, from the setup    *)
(* mode byte to the start of the record bridge, for the three modes.       *)
(*                                                                         *)
(* Each party is a script: the list of what it sends, what it reads and    *)
(* what it does locally, in the order of the code.  The handler's script   *)
(* unfolds as it reads the mode and the ECDH flag.  Steps of a two-party   *)
(* computation ("boot", the WRK17 bootstrap, and "hkdf") are joint.        *)
(***************************************************************************)
EXTENDS Naturals, Sequences

CONSTANTS
  Modes,      \* setup modes the host may be started in
  Crashes     \* whether parties may die during setup

ASSUME SetupAssumption == Modes \subseteq 0..2 /\ Crashes \in BOOLEAN

Flags == {"skip", "leaky", "ot"}

Send(x)  == [do |-> "send",  what |-> x]
Recv(x)  == [do |-> "recv",  what |-> x]
Local(x) == [do |-> "local", what |-> x]
Joint(x) == [do |-> "joint", what |-> x]

VARIABLES
  plan,      \* what the host was started with: mode, ECDH flag, hkdf announced
  capture,   \* whether the notary can verify the handshake capture
  hops,      \* what is left of the host's script
  nops,      \* what is left of the handler's script
  toN, toC,  \* channel contents, oldest first
  hmask,     \* the notary's key share as the host knows it
  nmask,     \* the key share the notary will garble with
  split,     \* the mask the host's key share was split with
  hstate, nstate  \* running, ready for records, gone

vars == <<plan, capture, hops, nops, toN, toC, hmask, nmask, split, hstate, nstate>>

-----------------------------------------------------------------------------
(* The host.  "draw" fills the masks, "split" xors them into rustls's keys.*)

HostEcdh(flag) ==
  CASE flag = "skip"  -> << Send("skip") >>
    [] flag = "leaky" -> << Send("leaky"), Send("epk"), Send("share"),
                            Send("partial"), Recv("partial"), Recv("ikm mask") >>
    [] flag = "ot"    -> << Send("ot"), Send("epk"), Send("share"),
                            Recv("R"), Send("Q"), Recv("ikm share") >>

\* Mutant: rustls's keys are split before the notary's masks have arrived.
HostScriptSplitFirst(p) ==
  CASE p.mode = 0 -> << Local("split"), Local("draw"), Send("mode 0"), Send("frame"),
                        Joint("boot") >>
    [] p.mode = 1 -> << Send("mode 1"), Local("split"), Recv("masks"), Recv("scalar"),
                        Send("ivs") >> \o HostEcdh(p.flag) \o << Joint("boot") >>
    [] p.mode = 2 -> << Send("mode 2"), Recv("scalar"), Send("capture") >> \o HostEcdh("ot") \o
                     << Joint("boot"), Joint("hkdf") >>

HostScript(p) ==
  CASE p.mode = 0 -> << Local("split"), Local("draw"), Send("mode 0"), Send("frame"),
                        Joint("boot") >>
    [] p.mode = 1 -> << Send("mode 1"), Recv("masks"), Recv("scalar"),
                        Local("split"), Send("ivs") >> \o HostEcdh(p.flag) \o
                     << Joint("boot") >>
    [] p.mode = 2 -> << Send("mode 2"), Recv("scalar"), Send("capture") >> \o HostEcdh("ot") \o
                     << Joint("boot") >> \o
                     (IF p.announce THEN << Send("hkdf header") >> ELSE <<>>) \o
                     << Joint("hkdf") >>

-----------------------------------------------------------------------------
(* The handler: read_setup_frame, then the attested worker up to its loop. *)

\* Mutant: the scalar share goes out before the masks.
NotaryScriptShareFirst(mode) ==
  CASE mode = "mode 0" -> << Recv("frame"), Joint("boot") >>
    [] mode = "mode 1" -> << Local("draw"), Send("scalar"), Send("masks"),
                             Recv("ivs"), Recv("flag"), Joint("boot") >>
    [] mode = "mode 2" -> << Send("scalar"), Recv("capture"), Recv("flag"), Local("verify"),
                             Recv("hkdf header"), Joint("boot"), Joint("hkdf") >>

\* What reading the mode byte commits the handler to.
NotaryScript(mode) ==
  CASE mode = "mode 0" -> << Recv("frame"), Joint("boot") >>
    [] mode = "mode 1" -> << Local("draw"), Send("masks"), Send("scalar"),
                             Recv("ivs"), Recv("flag"), Joint("boot") >>
    [] mode = "mode 2" -> << Send("scalar"), Recv("capture"), Recv("flag"), Local("verify"),
                             Recv("hkdf header"), Joint("boot"), Joint("hkdf") >>

\* Mutant: after an OT multiplication nothing is sent back.
NotaryEcdhSilent(flag) ==
  CASE flag = "skip"  -> <<>>
    [] flag = "leaky" -> << Recv("epk"), Recv("share"), Recv("partial"),
                            Send("partial"), Send("ikm mask") >>
    [] flag = "ot"    -> << Recv("epk"), Recv("share"), Send("R"), Recv("Q") >>

\* notary_recv_ecdh_setup after its flag.
NotaryEcdh(flag) ==
  CASE flag = "skip"  -> <<>>
    [] flag = "leaky" -> << Recv("epk"), Recv("share"), Recv("partial"),
                            Send("partial"), Send("ikm mask") >>
    [] flag = "ot"    -> << Recv("epk"), Recv("share"),
                            Send("R"), Recv("Q"), Send("ikm share") >>

-----------------------------------------------------------------------------

Plan == [mode : Modes, flag : Flags, announce : BOOLEAN]

Init ==
  /\ plan \in Plan /\ capture \in BOOLEAN
  /\ hops = HostScript(plan) /\ nops = << Recv("mode") >>
  /\ toN = <<>> /\ toC = <<>>
  /\ hmask = "zero" /\ nmask = "zero" /\ split = "zero"
  /\ hstate = "running" /\ nstate = "running"

HostNext(d)   == hstate = "running" /\ hops # <<>> /\ Head(hops).do = d
NotaryNext(d) == nstate = "running" /\ nops # <<>> /\ Head(nops).do = d

\* A script that has run out leaves its party ready for records.
HostAdvances   == hops' = Tail(hops) /\ hstate' = IF Tail(hops) = <<>> THEN "ready" ELSE hstate
NotaryAdvances(rest) == nops' = rest /\ nstate' = IF rest = <<>> THEN "ready" ELSE nstate

HostSends ==
  /\ HostNext("send") /\ HostAdvances
  /\ toN' = Append(toN, Head(hops).what)
  /\ UNCHANGED <<plan, capture, nops, toC, hmask, nmask, split, nstate>>

HostReads ==
  /\ HostNext("recv") /\ HostAdvances
  /\ toC # <<>> /\ toC' = Tail(toC)
  /\ hmask' = IF Head(toC) = "masks" THEN "drawn" ELSE hmask
  /\ UNCHANGED <<plan, capture, nops, toN, nmask, split, nstate>>

HostLocal ==
  /\ HostNext("local") /\ HostAdvances
  /\ \/ Head(hops).what = "draw" /\ hmask' = "drawn" /\ UNCHANGED split
     \/ Head(hops).what = "split" /\ split' = hmask /\ UNCHANGED hmask
  /\ UNCHANGED <<plan, capture, nops, toN, toC, nmask, nstate>>

NotarySends ==
  /\ NotaryNext("send") /\ NotaryAdvances(Tail(nops))
  /\ toC' = Append(toC, Head(nops).what)
  /\ UNCHANGED <<plan, capture, hops, toN, hmask, nmask, split, hstate>>

\* Reading: the mode and the flag decide what follows.
NotaryReads ==
  /\ NotaryNext("recv") /\ toN # <<>> /\ toN' = Tail(toN)
  /\ LET m == Head(toN)
         wanted == Head(nops).what
     IN /\ \/ wanted = "mode" /\ NotaryAdvances(NotaryScript(m))
           \/ wanted = "flag" /\ NotaryAdvances(NotaryEcdh(m) \o Tail(nops))
           \/ wanted \notin {"mode", "flag"} /\ NotaryAdvances(Tail(nops))
        /\ nmask' = IF m = "frame" THEN hmask ELSE nmask
  /\ UNCHANGED <<plan, capture, hops, toC, hmask, split, hstate>>

NotaryDraws ==
  /\ NotaryNext("local") /\ Head(nops).what = "draw"
  /\ NotaryAdvances(Tail(nops))
  /\ nmask' = "drawn"
  /\ UNCHANGED <<plan, capture, hops, toN, toC, hmask, split, hstate>>

\* Mutant: the outcome of the verification is not looked at.
NotaryVerifiesAll ==
  /\ NotaryNext("local") /\ Head(nops).what = "verify"
  /\ NotaryAdvances(Tail(nops))
  /\ UNCHANGED <<plan, capture, hops, toN, toC, hmask, nmask, split, hstate>>

\* verify_handshake_capture: epk, certificate chain and transcript recomputed.
NotaryVerifies ==
  /\ NotaryNext("local") /\ Head(nops).what = "verify"
  /\ \/ capture /\ NotaryAdvances(Tail(nops))
     \/ ~capture /\ nstate' = "gone" /\ UNCHANGED nops
  /\ UNCHANGED <<plan, capture, hops, toN, toC, hmask, nmask, split, hstate>>

\* Both sides inside the same two-party computation.
Together ==
  /\ HostNext("joint") /\ NotaryNext("joint") /\ Head(hops) = Head(nops)
  /\ HostAdvances /\ NotaryAdvances(Tail(nops))
  /\ UNCHANGED <<plan, capture, toN, toC, hmask, nmask, split>>

\* A host already in the bootstrap may write first: its bytes are no header.
MisreadBootstrap ==
  /\ HostNext("joint") /\ NotaryNext("recv") /\ toN = <<>>
  /\ nstate' = "gone"
  /\ UNCHANGED <<plan, capture, hops, nops, toN, toC, hmask, nmask, split, hstate>>

\* Mutant: a handler inside a read does not notice that its host is gone.
NotaryFailsInBoot ==
  /\ NotaryNext("joint") /\ hstate = "gone"
  /\ nstate' = "gone"
  /\ UNCHANGED <<plan, capture, hops, nops, toN, toC, hmask, nmask, split, hstate>>

\* A read, or a joint step, whose peer has gone.
NotaryFails ==
  /\ hstate = "gone"
  /\ \/ NotaryNext("recv") /\ toN = <<>>
     \/ NotaryNext("joint")
  /\ nstate' = "gone"
  /\ UNCHANGED <<plan, capture, hops, nops, toN, toC, hmask, nmask, split, hstate>>

HostFails ==
  /\ nstate = "gone"
  /\ \/ HostNext("recv") /\ toC = <<>>
     \/ HostNext("joint")
  /\ hstate' = "gone"
  /\ UNCHANGED <<plan, capture, hops, nops, toN, toC, hmask, nmask, split, nstate>>

\* A crash, a failed TLS handshake, a server without an X25519 key share.
HostQuits ==
  /\ Crashes /\ hstate = "running"
  /\ hstate' = "gone"
  /\ UNCHANGED <<plan, capture, hops, nops, toN, toC, hmask, nmask, split, nstate>>

NotaryQuits ==
  /\ Crashes /\ nstate = "running"
  /\ nstate' = "gone"
  /\ UNCHANGED <<plan, capture, hops, nops, toN, toC, hmask, nmask, split, hstate>>

HostStep == HostSends \/ HostReads \/ HostLocal \/ HostFails
NotaryStep == NotarySends \/ NotaryReads \/ NotaryDraws \/ NotaryVerifies \/ NotaryFails

HostSettled   == hstate # "running"
NotarySettled == nstate # "running"
Settled == HostSettled /\ NotarySettled /\ UNCHANGED vars

Next ==
  \/ HostStep \/ NotaryStep \/ Together
  \/ MisreadBootstrap \/ HostQuits \/ NotaryQuits \/ Settled

\* Both processes run; which side of a bootstrap writes first is not known.
Fairness == WF_vars(HostStep) /\ WF_vars(NotaryStep) /\ WF_vars(Together)

Spec == Init /\ [][Next]_vars
FairSpec == Spec /\ Fairness

-----------------------------------------------------------------------------
\* No party takes one item for another: the two sides read what was written
\* in the order of read_setup_frame and of the demo's two setup paths.
NoMisread ==
  /\ (HostNext("recv") /\ toC # <<>>) => Head(toC) = Head(hops).what
  /\ (NotaryNext("recv") /\ toN # <<>>) =>
       CASE Head(nops).what = "mode" -> Head(toN) \in {"mode 0", "mode 1", "mode 2"}
         [] Head(nops).what = "flag" -> Head(toN) \in Flags
         [] OTHER                    -> Head(toN) = Head(nops).what

\* The host splits rustls's keys with the share the notary garbles with, so
\* that the two halves xor to the traffic key (K_C = K_full XOR K_N).
SharesRecombine ==
  plan.mode \in {0, 1} /\ hstate = "ready" /\ nstate = "ready" => split = nmask

\* They do when the notary chooses the masks: the host has read them before it
\* splits, and nothing on the way changes either copy.
NotaryMasksRecombine == plan.mode = 1 => SharesRecombine

PastVerification ==
  nops = <<>> \/ Head(nops) \in {Recv("hkdf header"), Joint("boot"), Joint("hkdf")}

\* In mode 2 the notary goes on to key derivation only with a transcript it
\* has recomputed itself from the capture.
VerifiedBeforeKeys ==
  plan.mode = 2 /\ nstate # "gone" /\ PastVerification => capture

\* With keys split by the host, setup comes to an end on both sides, ready or
\* not, whoever dies (read_setup_frame against the demo's two legacy paths).
SplitSetupEnds == plan.mode \in {0, 1} => <>(HostSettled /\ NotarySettled)

\* A handler thread is not left behind by a host that gave up.
HandlerReleased == hstate = "gone" ~> NotarySettled

\* Mode 2 gets to its records when nobody fails and the capture is good.
TwoPcCompletes == plan.mode = 2 /\ capture ~> hstate = "ready" /\ nstate = "ready"

=============================================================================
