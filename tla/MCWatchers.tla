----------------------------- MODULE MCWatchers -----------------------------
(* Watchers for TLC: a stage and two sprites, clones, and attributes.      *)
EXTENDS Watchers

CONSTANTS score, health

BothAttributes == {score, health}
OneAttribute == {score}
Offsets == -2..2
None == {}

=============================================================================
