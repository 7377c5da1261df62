------------------------------ MODULE MCBuild -------------------------------
(* Build for TLC: a program with two sprites around a stage, and one which *)
(* has a sprite under two names.                                           *)
EXTENDS Build

Programs == {"game", "twice"}

Sprite(name) == [class |-> name, kind |-> "Sprite"]
Stage(name)  == [class |-> name, kind |-> "Stage"]

ActorsFound == [p \in Programs |->
  IF p = "game" THEN <<Sprite("Cat"), Stage("Sky"), Sprite("Dog")>>
                ELSE <<Sprite("Bat"), Sprite("Bat")>>]

=============================================================================
