---------------------------- MODULE MCQuestions ----------------------------
(* Questions for TLC: few questions, two different answers. *)
EXTENDS Questions

CONSTANTS yes, no

AnswerValues == {yes, no}

=============================================================================
