---------------------------- MODULE MCGoogleSync ----------------------------
(* Small instances of GoogleSync. *)
EXTENDS GoogleSync

MCMessages == 1..3
MCTwo      == 1..2
=============================================================================
