------------------------------ MODULE MCUnwind ------------------------------
(* Unwind for TLC: functions in which the only jump is continue. *)
EXTENDS Unwind

Exceptions == {"e"}
OnlyContinue == {"continue"}

=============================================================================
