----------------------------- MODULE HkdfShares -----------------------------
(***************************************************************************)
(* The TLS 1.3 key schedule of notary/src/hkdf.rs, run by two parties of   *)
(* whom neither holds a secret: ten HMACs, each four runs of the SHA-256   *)
(* compression circuit, every input and every output XOR-shared.           *)
(*                                                                         *)
(* A 32-byte word is the set of atoms whose XOR it is, so XOR is symmetric *)
(* difference and a mask that is not taken off stays visible.  A 64-byte   *)
(* block is a pair of words.  The compression function is a free symbol.   *)
(* The truncation of keys and IVs commutes with XOR and is left out.       *)
(***************************************************************************)
EXTENDS Naturals, Sequences

VARIABLES
  nops, cops,    \* HMACs each party has left to compute
  nreg, creg,    \* results of the runs of the current HMAC
  nsh, csh,      \* shares of the secrets derived so far
  nstate, cstate \* local | run | done | failed | stopped

vars == <<nops, cops, nreg, creg, nsh, csh, nstate, cstate>>

Xor(a, b) == (a \ b) \cup (b \ a)
XorBlock(a, b) == << Xor(a[1], b[1]), Xor(a[2], b[2]) >>
Compress(iv, block) == { <<"compress", iv, block>> }

Zero == {}
IV == { <<"sha256 iv">> }
Ipad == { <<"ipad">> }
Opad == { <<"opad">> }
Pad(len) == { <<"pad", len>> }

-----------------------------------------------------------------------------
(* The single-party HMAC and the messages of HKDF-Expand-Label.            *)

Hmac(key, msg, len) ==
  LET inner == Compress(Compress(IV, << Xor(key, Ipad), Ipad >>), XorBlock(msg, << Zero, Pad(len) >>))
  IN Compress(Compress(IV, << Xor(key, Opad), Opad >>), << inner, Pad(32) >>)

LabelLen(label) ==
  CASE label = "derived" -> 7
    [] label = "key" -> 3
    [] label = "iv" -> 2
    [] OTHER -> 12             \* c hs traffic, c ap traffic, s ap traffic

ContextLen(ctx) == IF ctx = "none" THEN 0 ELSE 32

\* length (2), "tls13 " and the label (1 + 6 + n), the context (1 + m), 0x01.
InfoLen(label, ctx) == 2 + 1 + 6 + LabelLen(label) + 1 + ContextLen(ctx) + 1
Info(label, ctx) == << { <<"info", 1, label, ctx>> }, { <<"info", 2, label, ctx>> } >>

ExpandLabel(secret, label, ctx) == Hmac(secret, Info(label, ctx), InfoLen(label, ctx))

\* HKDF-Expand-Label of the early secret: both parties compute it alone.
Derived1 == ExpandLabel(Hmac(Zero, << Zero, Zero >>, 32), "derived", "empty")

\* reference_tls13_client_traffic: the schedule with the whole secret in hand.
Reference ==
  LET hs == Hmac(Derived1, << { <<"ikm_n">>, <<"ikm_c">> }, Zero >>, 32)
      master == Hmac(ExpandLabel(hs, "derived", "empty"), << Zero, Zero >>, 32)
      c_ap == ExpandLabel(master, "c ap traffic", "after_sf")
      s_ap == ExpandLabel(master, "s ap traffic", "after_sf")
  IN [hs |-> hs, c_hs |-> ExpandLabel(hs, "c hs traffic", "after_sh"),
      derived2 |-> ExpandLabel(hs, "derived", "empty"), master |-> master,
      c_ap |-> c_ap, s_ap |-> s_ap,
      tx_key |-> ExpandLabel(c_ap, "key", "none"), rx_key |-> ExpandLabel(s_ap, "key", "none"),
      iv_tx |-> ExpandLabel(c_ap, "iv", "none"), iv_rx |-> ExpandLabel(s_ap, "iv", "none")]

Secrets == DOMAIN Reference

-----------------------------------------------------------------------------
(* The two schedules: each HMAC names its result, its key and its message. *)

Extract(out, key, msg) == [out |-> out, key |-> key, msg |-> <<msg>>, len |-> 32]
Expand(out, key, label, ctx) ==
  [out |-> out, key |-> key, msg |-> <<label, ctx>>, len |-> InfoLen(label, ctx)]

NotarySchedule ==
  << Extract("hs", "derived1", "ikm"),
     Expand("c_hs", "hs", "c hs traffic", "after_sh"),
     Expand("derived2", "hs", "derived", "empty"),
     Extract("master", "derived2", "zeros"),
     Expand("c_ap", "master", "c ap traffic", "after_sf"),
     Expand("s_ap", "master", "s ap traffic", "after_sf"),
     Expand("tx_key", "c_ap", "key", "none"),
     Expand("rx_key", "s_ap", "key", "none"),
     Expand("iv_tx", "c_ap", "iv", "none"),
     Expand("iv_rx", "s_ap", "iv", "none") >>

\* Mutant: the unused client handshake secret is dropped on one side.
ClientScheduleNoHs == SelectSeq(NotarySchedule, LAMBDA op : op.out # "c_hs")

\* Mutant: the last two secrets are asked for in the other order.
ClientScheduleIvsSwapped ==
  SubSeq(NotarySchedule, 1, 8) \o << NotarySchedule[10], NotarySchedule[9] >>

ClientSchedule ==
  << Extract("hs", "derived1", "ikm"),
     Expand("c_hs", "hs", "c hs traffic", "after_sh"),
     Expand("derived2", "hs", "derived", "empty"),
     Extract("master", "derived2", "zeros"),
     Expand("c_ap", "master", "c ap traffic", "after_sf"),
     Expand("s_ap", "master", "s ap traffic", "after_sf"),
     Expand("tx_key", "c_ap", "key", "none"),
     Expand("rx_key", "s_ap", "key", "none"),
     Expand("iv_tx", "c_ap", "iv", "none"),
     Expand("iv_rx", "s_ap", "iv", "none") >>

\* Mutant: a message may not fill the block.
FitsBelow(op) == op.len < 55

\* The assertions of notary_inner_padding and client_inner_msg.
Fits(op) == op.len <= 55

-----------------------------------------------------------------------------
(* What each party puts into the run it enters: chaining value and block.  *)

\* The notary brings the constants, the padding and its shares.
NotaryInput(op, reg) ==
  CASE Len(reg) = 0 -> [iv |-> IV, block |-> << Xor(nsh[op.key], Ipad), Ipad >>]
    [] Len(reg) = 1 -> [iv |-> reg[1],
                        block |-> << IF op.msg = <<"ikm">> THEN nsh["ikm"] ELSE Zero, Pad(op.len) >>]
    [] Len(reg) = 2 -> [iv |-> IV, block |-> << Xor(nsh[op.key], Opad), Opad >>]
    [] Len(reg) = 3 -> [iv |-> reg[3], block |-> << reg[2], Pad(32) >>]

\* The client brings the message and its shares.
ClientMessage(op) ==
  CASE op.msg = <<"ikm">> -> << csh["ikm"], Zero >>
    [] op.msg = <<"zeros">> -> << Zero, Zero >>
    [] OTHER -> Info(op.msg[1], op.msg[2])

ClientInput(op, reg) ==
  CASE Len(reg) \in {0, 2} -> [iv |-> Zero, block |-> << csh[op.key], Zero >>]
    [] Len(reg) = 1 -> [iv |-> reg[1], block |-> ClientMessage(op)]
    [] Len(reg) = 3 -> [iv |-> reg[3], block |-> << reg[2], Zero >>]

\* Mutant: the garbler's mask does not change from run to run.
MaskFixed(ops, reg) == { <<"mask", 0, 0>> }

\* The garbler's fresh mask, its share of the output.
Mask(ops, reg) == { <<"mask", Len(ops), Len(reg)>> }

-----------------------------------------------------------------------------
Init ==
  /\ nops = NotarySchedule /\ cops = ClientSchedule
  /\ nreg = <<>> /\ creg = <<>>
  /\ nsh = [ikm |-> { <<"ikm_n">> }, derived1 |-> Derived1]
  /\ csh = [ikm |-> { <<"ikm_c">> }, derived1 |-> Zero]
  /\ nstate = "local" /\ cstate = "local"

\* The second run carries the message: it must fit one block.
NotaryEnters ==
  /\ nstate = "local" /\ nops # <<>>
  /\ nstate' = IF Len(nreg) = 1 /\ ~Fits(Head(nops)) THEN "failed" ELSE "run"
  /\ UNCHANGED <<nops, cops, nreg, creg, nsh, csh, cstate>>

ClientEnters ==
  /\ cstate = "local" /\ cops # <<>>
  /\ cstate' = IF Len(creg) = 1 /\ ~Fits(Head(cops)) THEN "failed" ELSE "run"
  /\ UNCHANGED <<nops, cops, nreg, creg, nsh, csh, nstate>>

With(shares, name, share) ==
  [x \in DOMAIN shares \cup {name} |-> IF x = name THEN share ELSE shares[x]]

\* After its fourth run an HMAC is done and its result has a name.
NotaryTakes(out) ==
  IF Len(nreg) < 3
  THEN nreg' = Append(nreg, out) /\ UNCHANGED <<nops, nsh>>
  ELSE nreg' = <<>> /\ nops' = Tail(nops) /\ nsh' = With(nsh, Head(nops).out, out)

ClientTakes(out) ==
  IF Len(creg) < 3
  THEN creg' = Append(creg, out) /\ UNCHANGED <<cops, csh>>
  ELSE creg' = <<>> /\ cops' = Tail(cops) /\ csh' = With(csh, Head(cops).out, out)

\* One circuit: inputs are added inside it, the notary keeps its mask and the
\* client gets the masked result.
CompressRun ==
  /\ nstate = "run" /\ cstate = "run"
  /\ LET n == NotaryInput(Head(nops), nreg)
         c == ClientInput(Head(cops), creg)
         m == Mask(nops, nreg)
         out == Compress(Xor(n.iv, c.iv), XorBlock(n.block, c.block))
     IN NotaryTakes(m) /\ ClientTakes(Xor(out, m))
  /\ nstate' = "local" /\ cstate' = "local"

NotaryReturns ==
  /\ nstate = "local" /\ nops = <<>> /\ nstate' = "done"
  /\ UNCHANGED <<nops, cops, nreg, creg, nsh, csh, cstate>>

ClientReturns ==
  /\ cstate = "local" /\ cops = <<>> /\ cstate' = "done"
  /\ UNCHANGED <<nops, cops, nreg, creg, nsh, csh, nstate>>

\* A run whose peer has left the channel fails.
NotaryFails ==
  /\ nstate = "run" /\ cstate \in {"failed", "stopped"} /\ nstate' = "failed"
  /\ UNCHANGED <<nops, cops, nreg, creg, nsh, csh, cstate>>

ClientFails ==
  /\ cstate = "run" /\ nstate \in {"failed", "stopped"} /\ cstate' = "failed"
  /\ UNCHANGED <<nops, cops, nreg, creg, nsh, csh, nstate>>

\* Either process is stopped between or inside runs.
NotaryStops ==
  /\ nstate \in {"local", "run"} /\ nstate' = "stopped"
  /\ UNCHANGED <<nops, cops, nreg, creg, nsh, csh, cstate>>

ClientStops ==
  /\ cstate \in {"local", "run"} /\ cstate' = "stopped"
  /\ UNCHANGED <<nops, cops, nreg, creg, nsh, csh, nstate>>

Ended == {"done", "failed", "stopped"}

Terminated ==
  /\ nstate \in Ended /\ cstate \in Ended
  /\ UNCHANGED vars

Progress ==
  \/ NotaryEnters \/ ClientEnters \/ CompressRun
  \/ NotaryReturns \/ ClientReturns \/ NotaryFails \/ ClientFails

Next == Progress \/ NotaryStops \/ ClientStops \/ Terminated

Spec == Init /\ [][Next]_vars
FairSpec == Spec /\ WF_vars(Progress)

-----------------------------------------------------------------------------
(* Properties.                                                             *)

\* The sharing invariant of hkdf.rs: the shares of every derived secret add up
\* to what one party alone would derive, the half-finished HMAC included.
SharesRecombine ==
  \A x \in Secrets \cap DOMAIN nsh \cap DOMAIN csh : Xor(nsh[x], csh[x]) = Reference[x]

\* hkdf.rs line 12, "No party ever holds the full secret in the clear": neither
\* one share nor the XOR of two gives a party a secret or a relation of two.
NeitherHoldsSecret ==
  \A x, y \in Secrets \cap DOMAIN nsh \cap DOMAIN csh :
    /\ Reference[x] \notin {nsh[x], csh[x]}
    /\ x # y => /\ Xor(csh[x], csh[y]) # Xor(Reference[x], Reference[y])
                /\ Xor(nsh[x], nsh[y]) # Xor(Reference[x], Reference[y])

\* No assertion about a message's length fires: the schedule fails only when a
\* party was stopped, though its longest message fills the block to the byte.
FailsOnlyIfStopped ==
  "failed" \in {nstate, cstate} => "stopped" \in {nstate, cstate}

\* The two schedules ask for the same runs: both parties come to an end.
ScheduleEnds == <>(nstate \in Ended /\ cstate \in Ended)

\* hkdf.rs line 646, "XOR shares of client write/read traffic keys + public
\* IVs": the IV a party returns is the IV of the connection.
PublicIvs ==
  nstate = "done" /\ cstate = "done" =>
    \A iv \in {"iv_tx", "iv_rx"} : nsh[iv] = csh[iv] /\ nsh[iv] = Reference[iv]
=============================================================================
