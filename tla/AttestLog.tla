------------------------------ MODULE AttestLog ------------------------------
(***************************************************************************)
(* What a notarised session promises, with no channel and no notary state: *)
(* the host completes records one at a time, and at most once the whole    *)
(* list completed so far is attested, after which nothing is added.        *)
(*                                                                         *)
(* RecordBridge is shown to implement this specification.                  *)
(***************************************************************************)
EXTENDS Naturals, Sequences

CONSTANTS
  Record,   \* the records a host may encrypt or decrypt
  None      \* no attestation yet

VARIABLES
  log,      \* the records completed by the host, in order
  attested  \* None, or the list of records the notary has signed

vars == <<log, attested>>

Init == log = <<>> /\ attested = None

\* One more record; stated on log' so that Record may be infinite.
Complete ==
  /\ attested = None
  /\ log' \in Seq(Record)
  /\ Len(log') = Len(log) + 1
  /\ SubSeq(log', 1, Len(log)) = log
  /\ UNCHANGED attested

Attest ==
  /\ attested = None
  /\ attested' = log
  /\ UNCHANGED log

Next == Complete \/ Attest

Spec == Init /\ [][Next]_vars

=============================================================================
