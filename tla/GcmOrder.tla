------------------------------ MODULE GcmOrder ------------------------------
(***************************************************************************)
(* The order in which the two halves of a GCM record in notary/src/aes.rs  *)
(* use their one channel: two-party AES and GHASH runs, and the blocks     *)
(* that are written and read between them.  What the values are is the     *)
(* subject of GcmRecord.                                                   *)
(*                                                                         *)
(* A run is an exchange of messages, entered by both parties at the same   *)
(* point; a party that reads while the other has entered a run takes the   *)
(* run's bytes for what it waits for, or waits for ever.                   *)
(***************************************************************************)
EXTENDS Naturals, Sequences, SequencesExt

CONSTANT MaxBlocks  \* bound: payload blocks of a record

VARIABLES
  record,        \* direction and number of payload blocks
  notary, client,\* what is left of each half
  toN, toC       \* blocks written and not yet read

vars == <<record, notary, client, toN, toC>>

Run(x) == <<"run", x>>
Put(x) == <<"put", x>>
Take(x) == <<"take", x>>

Repeat(steps, k) == FlattenSeq([i \in 1..k |-> steps])

\* notary_encrypt_gcm and notary_decrypt_gcm.
NotaryHalf(op, k) ==
  << Run("H"), Run("J0") >>
  \o Repeat(IF op = "enc" THEN << Run("ks"), Put("ks_n") >>
                          ELSE << Run("ks"), Take("ct"), Put("pt_n") >>, k)
  \o << Run("ghash"), Put("tag_n") >>

\* client_encrypt_gcm and client_decrypt_gcm_2pc.
ClientHalf(op, k) ==
  << Run("H"), Run("J0") >>
  \o Repeat(IF op = "enc" THEN << Take("ks_n"), Run("ks") >>
                          ELSE << Put("ct"), Run("ks"), Take("pt_n") >>, k)
  \o << Run("ghash"), Take("tag_n") >>

Init ==
  /\ record \in [op : {"enc", "dec"}, blocks : 0..MaxBlocks]
  /\ notary = NotaryHalf(record.op, record.blocks)
  /\ client = ClientHalf(record.op, record.blocks)
  /\ toN = <<>> /\ toC = <<>>

At(script, step) == script # <<>> /\ Head(script)[1] = step

NotaryPuts ==
  /\ At(notary, "put") /\ notary' = Tail(notary)
  /\ toC' = Append(toC, Head(notary)[2])
  /\ UNCHANGED <<record, client, toN>>

NotaryTakes ==
  /\ At(notary, "take") /\ notary' = Tail(notary)
  /\ toN # <<>> /\ toN' = Tail(toN)
  /\ UNCHANGED <<record, client, toC>>

ClientPuts ==
  /\ At(client, "put") /\ client' = Tail(client)
  /\ toN' = Append(toN, Head(client)[2])
  /\ UNCHANGED <<record, notary, toC>>

ClientTakes ==
  /\ At(client, "take") /\ client' = Tail(client)
  /\ toC # <<>> /\ toC' = Tail(toC)
  /\ UNCHANGED <<record, notary, toN>>

\* A run goes through when both have entered it on a channel with nothing
\* else in it.
RunTogether ==
  /\ At(notary, "run") /\ At(client, "run") /\ Head(notary) = Head(client)
  /\ toN = <<>> /\ toC = <<>>
  /\ notary' = Tail(notary) /\ client' = Tail(client)
  /\ UNCHANGED <<record, toN, toC>>

Done == notary = <<>> /\ client = <<>>

Step == NotaryPuts \/ NotaryTakes \/ ClientPuts \/ ClientTakes \/ RunTogether
Next == Step \/ (Done /\ UNCHANGED vars)

\* Both threads run for as long as they can.
Spec == Init /\ [][Next]_vars /\ WF_vars(Step)

-----------------------------------------------------------------------------
\* The two halves of a record, run in lockstep on the channel, both finish.
RecordCompletes == <>Done

=============================================================================
