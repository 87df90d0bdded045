---------------------------- MODULE MCCommandLog ----------------------------
(* Instances of CommandLog for TLC. *)
EXTENDS CommandLog

CONSTANTS alice, bob

MCCallers == {alice, bob}
=============================================================================
