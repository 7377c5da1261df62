----------------------------- MODULE MCProject -----------------------------
(* Project for TLC.  Actor 1 is the stage, the others are sprites; each    *)
(* run gives them handlers and says which system calls threads make.       *)
EXTENDS Project

CONSTANTS m, n,     \* messages
          space,    \* a key
          yes       \* an answer

(* Runs choose among these for the constants of Project. *)
None == {}
Answers == {yes}
Forward == {1}
OneMessage == {m}
TwoMessages == {m, n}
OneKey == {space}

TwoHandlers == 1..2
ThreeHandlers == 1..3
AllOf(S) == [h \in 1..S |-> 2]
Sprite2 == AllOf(2)
Sprite3 == AllOf(3)
StageSprite3 == [h \in 1..3 |-> IF h = 1 THEN 1 ELSE 2]

FlagFlag == <<GreenFlag, GreenFlag>>
FlagFlagClone == <<GreenFlag, GreenFlag, Clone>>
FlagMessages == <<GreenFlag, m, n>>
FlagMessageClone == <<GreenFlag, m, Clone>>

CloneCalls == {"next-frame", "broadcast-and-wait", "broadcast", "register-instance",
               "unregister-running-instance", "stop-all-threads"}
WaitCalls  == {"broadcast-and-wait", "wait-seconds", "play-sound-and-wait",
               "play-sound", "stop-all-sounds"}
AskCalls   == {"ask-and-wait-for-answer", "register-instance", "unregister-running-instance",
               "stop-all-threads", "raise", "move-layer"}
RaiseCalls == {"next-frame", "register-instance", "stop-all-threads", "raise"}

=============================================================================
