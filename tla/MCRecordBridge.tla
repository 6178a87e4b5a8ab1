--------------------------- MODULE MCRecordBridge ---------------------------
(* A session of at most three records over one good and one forged body.   *)
EXTENDS RecordBridge

CONSTANTS good, forged

MCBody == {good, forged}
MCForged == {forged}

=============================================================================
