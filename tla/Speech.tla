------------------------------- MODULE Speech -------------------------------
(***************************************************************************)
(* Speech bubbles: say(), say_for_seconds() and ask_and_wait() of one      *)
(* sprite and its clones (src/lib/pytch/actor.py), called by several       *)
(* threads, with the waits and stops of src/lib/pytch/project.js.          *)
(*                                                                         *)
(* A bubble is a pair of an id and a text; the id tells say_for_seconds(), *)
(* when it has waited, whether the bubble is still its own.  A turn of a   *)
(* thread starts with BeginTurn, which is whatever the call it waits in    *)
(* has left to do, goes on with any number of Says, and ends in a call     *)
(* which waits, or otherwise.  The order of turns is left open.            *)
(***************************************************************************)
EXTENDS Integers, FiniteSets

CONSTANTS MaxInstances,  \* bound: the sprite and its clones, at one time
          MaxThreads,    \* bound: threads at one time
          Text,          \* what may be said, besides nothing
          HalfFrames,    \* durations, in half frames: a number may be negative
          Unending       \* a duration which is not finite: nan or infinity

ASSUME SpeechAssumption == /\ MaxInstances \in Nat \ {0}
                           /\ MaxThreads \in Nat
                           /\ HalfFrames \subseteq Int
                           /\ Unending \notin Int

Instance == 1..MaxInstances
Original == 1
Thread == 1..MaxThreads
NoThread == 0
Silence == "silence"

VARIABLES
  exists,    \* instances of the sprite which the project has
  doomed,    \* those which are no longer registered
  speech,    \* _speech of each
  threads,   \* the threads, each with the call it is in
  running,   \* the thread whose turn it is
  todo,      \* threads still to run in this frame
  inFrame,
  (* History.                                                              *)
  origin,    \* what put each bubble there
  latest,    \* is the bubble of a thread's instance the thread's own?
  rendered   \* frames for which a thread's call has waited

codeVars == <<exists, doomed, speech, threads, running, todo, inFrame>>
vars == <<exists, doomed, speech, threads, running, todo, inFrame,
          origin, latest, rendered>>

(* id is the local speech_id, 0 for a question of a hidden sprite; left is *)
(* Thread.sleeping_on in a wait for time.                                  *)
Call(doing, i, id, time, left) ==
  [doing |-> doing, on |-> i, id |-> id, time |-> time, left |-> left]
Gone     == Call("none", Original, 0, 0, 0)
Ready(i) == Call("ready", i, 0, 0, 0)

IsDoing(d) == {t \in Thread : threads[t].doing = d}
Self == threads[running].on

Init == /\ exists = {Original}
        /\ doomed = {}
        /\ speech = [i \in Instance |-> [id |-> 0, text |-> Silence]]
        /\ threads = [t \in Thread |-> Gone]
        /\ running = NoThread
        /\ todo = {}
        /\ inFrame = FALSE
        /\ origin = [i \in Instance |-> "said"]
        /\ latest = [t \in Thread |-> FALSE]
        /\ rendered = [t \in Thread |-> 0]

-----------------------------------------------------------------------------
(* _new_speech_id: an id which no bubble has, and which no call remembers. *)
(* Ids are only compared; one which nothing holds may be used again.       *)
UsedIds == {speech[i].id : i \in exists} \cup {threads[t].id : t \in Thread}
NewSpeechId == CHOOSE n \in 1..(MaxInstances + MaxThreads + 1) :
                 n \notin UsedIds /\ \A k \in 1..(n - 1) : k \in UsedIds

(* The assignment self._speech = (_new_speech_id(), "say", text), by the   *)
(* thread whose turn it is; own says whether its call will look for it.    *)
Utter(text, why, own) ==
  /\ speech' = [speech EXCEPT ![Self] = [id |-> NewSpeechId, text |-> text]]
  /\ origin' = [origin EXCEPT ![Self] = why]
  /\ latest' = [t \in Thread |-> IF t = running THEN own
                                 ELSE latest[t] /\ threads[t].on # Self]

(* Actor._clear_speech *)
ClearSpeech(t) ==
  /\ speech' = [speech EXCEPT
       ![threads[t].on] = [id |-> NewSpeechId, text |-> Silence]]
  /\ origin' = [origin EXCEPT ![threads[t].on] = "said"]
  /\ latest' = [u \in Thread |-> latest[u] /\ threads[u].on # threads[t].on]

(* A bug: say_for_seconds() clears whatever is said after its wait. *)
AlwaysClear(t) == ClearSpeech(t)

(* The rest of say_for_seconds(), after its wait: "Only erase utterance if *)
(* it's ours".                                                             *)
EndOfSayForSeconds(t) ==
  IF speech[threads[t].on].id = threads[t].id
  THEN ClearSpeech(t)
  ELSE /\ latest' = [latest EXCEPT ![t] = FALSE]
       /\ UNCHANGED <<speech, origin>>

(* The rest of ask_and_wait(); a hidden sprite's says nothing. *)
EndOfAskAndWait(t) == IF threads[t].id # 0
                      THEN ClearSpeech(t)
                      ELSE UNCHANGED <<speech, origin, latest>>

(* Thread.one_frame resumes what the thread suspended in. *)
BeginTurn(t) ==
  /\ inFrame /\ running = NoThread /\ t \in todo
  /\ running' = t
  /\ todo' = todo \ {t}
  /\ threads' = [threads EXCEPT ![t] = Ready(@.on)]
  /\ rendered' = [rendered EXCEPT ![t] = 0]
  /\ CASE threads[t].doing = "saying"   -> EndOfSayForSeconds(t)
       [] threads[t].doing = "answered" -> EndOfAskAndWait(t)
       [] OTHER -> UNCHANGED <<speech, origin, latest>>
  /\ UNCHANGED <<exists, doomed, inFrame>>

-----------------------------------------------------------------------------
(* What a thread may do in its turn.                                       *)

(* Sprite.say *)
Say(text) ==
  /\ Utter(text, "said", FALSE)
  /\ UNCHANGED <<exists, doomed, threads, running, todo, inFrame, rendered>>

EndTurn(call) == /\ running' = NoThread
                 /\ threads' = [threads EXCEPT ![running] = call]

(* Bugs: a wait of nothing, or of less, is not made one frame long; a wait *)
(* is rounded down.                                                        *)
FramesRoundedDown(h) == IF h = Unending THEN Unending
                        ELSE IF h \div 2 < 1 THEN 1 ELSE h \div 2

FramesRoundedOnly(h) == IF h = Unending THEN Unending ELSE (h + 1) \div 2

(* The system call "wait-seconds".  Comparing a nan with 1 is false, so    *)
(* that it stays; an infinity stays too.                                   *)
Frames(h) == IF h = Unending THEN Unending
             ELSE IF (h + 1) \div 2 < 1 THEN 1 ELSE (h + 1) \div 2

(* Sprite.say_for_seconds, up to its wait *)
SayForSeconds(text, h) ==
  /\ EndTurn(Call("saying", Self, NewSpeechId, h, Frames(h)))
  /\ Utter(text, "timed", TRUE)
  /\ UNCHANGED <<exists, doomed, todo, inFrame, rendered>>

(* Sprite.ask_and_wait, up to its wait, of a sprite which is shown and of  *)
(* one which is not; the program shows and hides sprites as it likes.      *)
AskAndWaitShown(text) ==
  /\ EndTurn(Call("asking", Self, NewSpeechId, 0, 0))
  /\ Utter(text, "prompt", TRUE)
  /\ UNCHANGED <<exists, doomed, todo, inFrame, rendered>>

AskAndWaitHidden ==
  /\ EndTurn(Call("asking", Self, 0, 0, 0))
  /\ UNCHANGED <<exists, doomed, speech, todo, inFrame, origin, latest, rendered>>

(* create_clone_of: deepcopy() takes the bubble along, with its id. *)
CreateClone ==
  \E c \in Instance \ exists :
    /\ \A t \in Thread : threads[t] # Gone => threads[t].on # c
    /\ exists' = exists \cup {c}
    /\ speech' = [speech EXCEPT ![c] = speech[Self]]
    /\ origin' = [origin EXCEPT ![c] = "copied"]
    /\ EndTurn(Ready(Self))
    /\ UNCHANGED <<doomed, todo, inFrame, latest, rendered>>

(* Sprite.delete_this_clone, of a clone. *)
DeleteThisClone ==
  /\ EndTurn(Gone)
  /\ Self # Original
  /\ doomed' = doomed \cup {Self}
  /\ latest' = [latest EXCEPT ![running] = FALSE]
  /\ UNCHANGED <<exists, speech, todo, inFrame, origin, rendered>>

(* Yielding; returning, raising an exception or asking for a stop. *)
EndTurnAs(call) ==
  /\ EndTurn(call)
  /\ UNCHANGED <<exists, doomed, speech, todo, inFrame, origin, latest, rendered>>

TurnGoesOn == /\ running # NoThread
              /\ \E text \in Text \cup {Silence} : Say(text)

TurnEnds == /\ running # NoThread
            /\ \/ \E text \in Text \cup {Silence}, h \in HalfFrames \cup {Unending} :
                    SayForSeconds(text, h)
               \/ \E text \in Text : AskAndWaitShown(text)
               \/ AskAndWaitHidden
               \/ CreateClone \/ DeleteThisClone
               \/ EndTurnAs(Ready(Self)) \/ EndTurnAs(Gone)

-----------------------------------------------------------------------------
(* Frames, and what happens between them.                                  *)

(* Thread.maybe_cull; Thread.should_wake counts a wait down.  Once it is   *)
(* below zero it will not become zero, however far below.                  *)
Waited(c) == IF c.on \notin exists THEN Gone
             ELSE IF c.doing = "saying" /\ c.left # Unending
                  THEN [c EXCEPT !.left = IF @ < 0 THEN @ ELSE @ - 1] ELSE c

StartFrame ==
  /\ ~inFrame
  /\ inFrame' = TRUE
  /\ threads' = [t \in Thread |-> Waited(threads[t])]
  /\ todo' = {t \in Thread : \/ threads'[t].doing \in {"ready", "answered"}
                             \/ threads'[t].doing = "saying" /\ threads'[t].left = 0}
  /\ latest' = [t \in Thread |-> latest[t] /\ threads[t].on \in exists]
  /\ UNCHANGED <<exists, doomed, speech, running, origin, rendered>>

NoThreads == /\ threads' = [t \in Thread |-> Gone]
             /\ latest' = [t \in Thread |-> FALSE]
             /\ rendered' = [t \in Thread |-> 0]

(* Instances which are no more, and the bubble of the original after a     *)
(* stop, when no call remembers an id.                                     *)
Silenced(S) ==
  speech' = [i \in Instance |-> IF i \in S THEN [id |-> 0, text |-> Silence] ELSE speech[i]]

(* A bug: clear_speech() is forgotten. *)
StopButStillSpeaking == /\ NoThreads
                        /\ exists' = {Original}
                        /\ doomed' = {}
                        /\ Silenced(Instance \ {Original})
                        /\ origin' = [origin EXCEPT ![Original] = @]

(* delete_all_clones() and clear_speech() of the instance which is left. *)
StopEverything == /\ NoThreads
                  /\ exists' = {Original}
                  /\ doomed' = {}
                  /\ Silenced(Instance)
                  /\ origin' = [i \in Instance |-> "said"]

(* Deferred removal of clones. *)
CullInstances == /\ exists' = exists \ doomed
                 /\ doomed' = {}
                 /\ Silenced(doomed)

FrameOver == /\ inFrame /\ running = NoThread /\ todo = {}
             /\ inFrame' = FALSE
             /\ UNCHANGED <<running, todo>>

(* The end of Project.one_frame when one of the threads raised an          *)
(* exception; when one asked for a stop; and otherwise.                    *)
EndFrameAfterException ==
  /\ FrameOver
  /\ NoThreads
  /\ CullInstances
  /\ origin' = [i \in Instance |-> IF i \in doomed THEN "said"
                                   ELSE IF origin[i] \in {"timed", "prompt"} THEN "abandoned"
                                   ELSE origin[i]]

EndFrameAfterStop ==
  /\ FrameOver
  /\ StopEverything

(* History: the frames rendered while a call waits, up to one too many. *)
LastsLongEnough(n, h) == n >= 1 /\ 2 * n >= h
Rendered(t) == IF threads[t].doing # "saying" \/ threads[t].left = Unending THEN 0
               ELSE IF LastsLongEnough(rendered[t] - 1, threads[t].time) THEN rendered[t]
               ELSE rendered[t] + 1

EndFrame ==
  /\ FrameOver
  /\ CullInstances
  /\ origin' = [i \in Instance |-> IF i \in doomed THEN "said" ELSE origin[i]]
  /\ rendered' = [t \in Thread |-> Rendered(t)]
  /\ UNCHANGED <<threads, latest>>

(* The red stop. *)
OnRedStopClicked == /\ ~inFrame
                    /\ StopEverything
                    /\ UNCHANGED <<running, todo, inFrame>>

(* A thread for some event, of any instance. *)
StartThread(t, i) ==
  /\ ~inFrame
  /\ threads[t] = Gone
  /\ i \in exists
  /\ threads' = [threads EXCEPT ![t] = Ready(i)]
  /\ UNCHANGED <<exists, doomed, speech, running, todo, inFrame,
                 origin, latest, rendered>>

(* The user answers a question. *)
Answer(t) ==
  /\ ~inFrame
  /\ threads[t].doing = "asking"
  /\ threads' = [threads EXCEPT ![t].doing = "answered"]
  /\ UNCHANGED <<exists, doomed, speech, running, todo, inFrame,
                 origin, latest, rendered>>

FrameGoesOn == \/ StartFrame
               \/ \E t \in Thread : BeginTurn(t)
               \/ TurnEnds
               \/ EndFrame \/ EndFrameAfterException \/ EndFrameAfterStop

Next == \/ FrameGoesOn
        \/ TurnGoesOn
        \/ OnRedStopClicked
        \/ \E t \in Thread : Answer(t) \/ \E i \in Instance : StartThread(t, i)

Spec == Init /\ [][Next]_vars
FairSpec == Spec /\ WF_vars(FrameGoesOn)

-----------------------------------------------------------------------------
(* What could go wrong.                                                    *)

(* "If a second script calls say_for_seconds() while a first script is     *)
(* already in the middle of say_for_seconds(), the second script's speech  *)
(* replaces the first script's speech" (doc/source/user/sprite.rst): the   *)
(* end of the first call's wait does not remove it.                        *)
LaterSpeechStays ==
  [][\A t \in IsDoing("saying") :
       running' = t /\ running = NoThread /\ ~latest[t] => UNCHANGED speech]_vars

(* "say_for_seconds(), with seconds = 0.5, should give exactly 30 frames   *)
(* of speech" (test/pytch/test_speech_bubbles.js): a call returns when the *)
(* fewest whole frames which last as long have been rendered, but one at   *)
(* least.                                                                  *)
SaidForItsTime ==
  [][\A t \in IsDoing("saying") : running' = t /\ running = NoThread =>
       /\ LastsLongEnough(rendered[t], threads[t].time)
       /\ ~LastsLongEnough(rendered[t] - 1, threads[t].time)]_vars

(* Nobody forgets a bubble: what was said for a time, or to ask, has a     *)
(* thread which will remove it, unless an exception took all threads away. *)
TimedBubblesAreAttended ==
  ~inFrame => \A i \in exists : origin[i] \in {"timed", "prompt"} =>
    \E t \in IsDoing("saying") \cup IsDoing("asking") \cup IsDoing("answered") :
      threads[t].on = i /\ latest[t]

(* A call to say_for_seconds() with a finite time, even of less than       *)
(* nothing, returns, or its thread is stopped.                             *)
IsSaying(t) == threads[t].doing = "saying" /\ threads[t].left # Unending
SayingEnds == \A t \in Thread : IsSaying(t) ~> ~IsSaying(t)

=============================================================================
