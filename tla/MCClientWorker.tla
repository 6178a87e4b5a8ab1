--------------------------- MODULE MCClientWorker ---------------------------
(* Up to four calls of two directions on the one-slot job channel.         *)
EXTENDS ClientWorker

CONSTANTS good, forged

MCGood == {good}
MCBoth == {good, forged}
MCForged == {forged}
MCNone == {}

=============================================================================
