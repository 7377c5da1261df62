------------------------------ MODULE MCSpeech ------------------------------
(* Speech for TLC: a sprite and a clone, and two threads. *)
EXTENDS Speech

CONSTANTS hello, nan

Texts == {hello}
Durations == {-1, 3}

=============================================================================
