----------------------------- MODULE MCCalendar -----------------------------
(* Small instances of Calendar. *)
EXTENDS Calendar

MCTwo   == 1..2
MCThree == 1..3
MCDays  == 0..1
=============================================================================
