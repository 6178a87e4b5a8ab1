--------------------------- MODULE BundleReaders ---------------------------
(***************************************************************************)
(* The binding the notary signs over a captured handshake, and the two     *)
(* programs that check a bundle against a capture, each with a parser of   *)
(* its own: notary_verify, which shares the notary's (ecdh.rs), and the    *)
(* zkVM guest.                                                             *)
(*                                                                         *)
(* A capture is the records of both directions and what follows the last   *)
(* whole one; handshake_transcript_hash stands for the capture it was      *)
(* taken of.  A reader is a function of what it is given, so that what the *)
(* readers say is asked of every state and every bundle.                   *)
(***************************************************************************)
EXTENDS HandshakeFlight

VARIABLE signed  \* the SessionBinding the notary signed, or Unsigned

rvars == <<vars, signed>>

LEGACY == 0
BINDING == 1
Unsigned == [epk |-> "none"]

Capture(more) == [outbound |-> outbound, inbound |-> inbound, tail |-> more]

-----------------------------------------------------------------------------
(* parse_server_hello_key_share, twice.                                    *)

\* The notary and its command line tool: whole records one after the other, until one
\* is a ServerHello with a key; what is left over ends the search.
ToolEpk(capture) ==
  IF \E i \in DOMAIN capture.inbound : capture.inbound[i] = Plain(22, "SH") THEN "sh" ELSE "none"

\* Mutant: bytes behind the last whole record are an error.
GuestEpkWhole(capture) ==
  IF capture.tail = "none" /\ FirstHello(capture.inbound) = "SH" THEN "sh" ELSE "none"

\* The guest: every record is parsed first, and only the first of the handshake
\* counts; a HelloRetryRequest has no key.
GuestEpk(capture) ==
  IF capture.tail # "body" /\ FirstHello(capture.inbound) = "SH" THEN "sh" ELSE "none"

-----------------------------------------------------------------------------
(* The notary.                                                             *)

RInit == Init /\ signed = Unsigned

\* verify_handshake_capture: the binding is made of the capture that was read, and of
\* the key the host found in it, if the notary finds the same.
NotarySigns ==
  /\ NotaryReads
  /\ LET capture == Capture(notary'.tail)
     IN signed' = IF notary'.hash # Fail /\ ToolEpk(capture) = "sh"
                  THEN [over |-> capture, epk |-> "sh"] ELSE Unsigned

RNext ==
  \/ NotarySigns
  \/ (HelloAgain \/ SendCcs \/ SendFlight \/ SendApp \/ Close \/ GuestReads \/ Terminated) /\ UNCHANGED signed

RSpec == RInit /\ [][RNext]_rvars

-----------------------------------------------------------------------------
(* The readers.                                                            *)

\* notary_verify: signature, then the files if the bundle has a binding and both were
\* given.
ToolAccepts(shown) ==
  /\ shown.verifies
  /\ shown.version >= BINDING /\ shown.given =>
       shown.capture = shown.over /\ ToolEpk(shown.capture) = shown.epk

\* run_notary_path up to the keys: the capture is part of the witness.
GuestAcceptsBundle(shown) ==
  /\ shown.verifies
  /\ shown.version >= BINDING =>
       shown.capture = shown.over /\ GuestEpk(shown.capture) = shown.epk
  /\ shown.named

\* The capture as the notary read it, and as it is by now.
Captures == IF signed = Unsigned THEN { Capture(tail) } ELSE { Capture(tail), signed.over }

\* A bundle, the capture it is shown with, whether the tool gets both files, and whether
\* the bundle's server name is the witness's.  The notary's bundle.
Notarized ==
  IF signed = Unsigned THEN {}
  ELSE [verifies : {TRUE}, version : {BINDING}, over : {signed.over}, epk : {signed.epk},
        capture : Captures, given : BOOLEAN, named : BOOLEAN]

\* Any other, signed by whom it may be: there is no key it is compared with.
Foreign == [verifies : BOOLEAN, version : {LEGACY, BINDING}, over : Captures, epk : {"sh", "other"},
            capture : Captures, given : BOOLEAN, named : BOOLEAN]

-----------------------------------------------------------------------------
(* Properties.                                                             *)

\* What the guest proves from, notary_verify accepts, given the files or not, whoever
\* signed it and wherever the capture ends; and of the notary's own bundle, for its
\* own host, both accept the capture the notary read and no other, though each has a
\* parser of its own.
ReadersAgree ==
  /\ \A shown \in Notarized \cup Foreign : GuestAcceptsBundle(shown) => ToolAccepts(shown)
  /\ \A shown \in Notarized : shown.given /\ shown.named =>
       /\ ToolAccepts(shown) <=> shown.capture = signed.over
       /\ GuestAcceptsBundle(shown) <=> shown.capture = signed.over

-----------------------------------------------------------------------------
(* What the theorem rests on.                                              *)

\* What the notary signed is a capture both parsers find the server's key in.
SignedReadable == signed # Unsigned =>
  /\ signed.epk = "sh" /\ signed.over.tail # "body"
  /\ FirstHello(signed.over.inbound) = "SH"
  /\ 1 \in DOMAIN signed.over.inbound /\ signed.over.inbound[1] = Plain(22, "SH")

=============================================================================
