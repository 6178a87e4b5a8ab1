-------------------------- MODULE MCGuestResponse --------------------------
(* An object with a character of two bytes, one with a line break behind   *)
(* it, and one with a blank line inside.                                   *)
EXTENDS GuestResponse

MCBodies == { <<"{", "1", "u1", "u2", "}">>, <<"{", "k", "}", "CR", "LF">>,
              <<"{", "CR", "LF", "CR", "LF", "k", "}">> }

=============================================================================
