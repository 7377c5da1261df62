---------------------------- MODULE MCInstances ----------------------------
(* Instances for TLC: a stage and two sprites, and two or three clones. *)
EXTENDS Instances

Offsets == -2..2

=============================================================================
