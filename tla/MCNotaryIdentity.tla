-------------------------- MODULE MCNotaryIdentity -------------------------
(* Names of at most one byte, and one that is too long for the width its   *)
(* length is written with; logs of at most one record, over bytes that are *)
(* also lengths and counts.                                                *)
EXTENDS NotaryIdentity, TLC

MCNames == { <<>>, <<1>>, <<1, 0, 0>> }
MCLogs == { <<>>, << [op |-> 1, seq |-> 0, aad |-> <<1>>, commit_hash |-> 1] >> }
MCSymmetry == Permutations(Proc)

\* For the lengths alone: one byte more.
MCWideNames == { <<>>, <<1>>, <<1, 1>>, <<1, 0, 0>> }
MCWideLogs == { <<>>, << [op |-> 1, seq |-> 0, aad |-> <<>>, commit_hash |-> 0] >> }

=============================================================================
