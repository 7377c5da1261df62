------------------------------ MODULE Project ------------------------------
(***************************************************************************)
(* A running Pytch project: Project, Thread, ThreadGroup and EventHandler  *)
(* in src/lib/pytch/project.js, composed with Instances and Questions.     *)
(*                                                                         *)
(* The VM's client calls one_frame() again and again, and between frames   *)
(* the green flag, the red stop, accept_question_answer() and the rest.  A *)
(* frame launches handlers for the keys and clicks since the last one,     *)
(* culls and wakes threads, and lets every runnable thread run until it    *)
(* makes a system call.  What the Python program does is not fixed: a      *)
(* thread may make any system call, finish, or raise an exception.         *)
(*                                                                         *)
(* Within a frame nothing runs but the frame, so the steps of a frame are  *)
(* separate actions only because each thread's turn is a choice of its own. *)
(***************************************************************************)
EXTENDS Integers, Sequences, FiniteSets, FiniteSetsExt

CONSTANTS
  NumActors, MaxInstances, Offset, CloneDeleted,  \* see Instances
  Answer, MaxQuestions,                           \* see Questions
  Handler,        \* event handlers of all actors, numbered in registration order
  HandlerActor,   \* the actor whose method a handler is
  HandlerEvent,   \* the event which it handles
  Message, Key,   \* events besides GreenFlag, Clone and Click
  MaxGroups,      \* bound: numbers of thread groups, see NewGroup
  MaxPerformances,  \* bound: performances of sounds which exist at one time
  MaxWait,        \* bound: frames in a wait_seconds
  Syscalls        \* what threads do in this instance of the model

GreenFlag == "green-flag"
Clone == "clone"
Click == "click"
Event == {GreenFlag, Clone, Click} \cup Message \cup Key

Group == 1..MaxGroups
Performance == 1..MaxPerformances

Syscall == {"next-frame", "broadcast", "broadcast-and-wait", "play-sound",
            "play-sound-and-wait", "wait-seconds", "register-instance",
            "unregister-running-instance", "ask-and-wait-for-answer",
            "stop-all-threads", "stop-all-sounds", "move-layer", "raise"}

ASSUME ProjectAssumption ==
  /\ NumActors \in Nat \ {0}
  /\ MaxInstances \in Nat /\ NumActors <= MaxInstances
  /\ Offset \subseteq Int
  /\ MaxQuestions \in Nat
  /\ Handler \subseteq Nat
  /\ HandlerActor \in [Handler -> 1..NumActors]
  /\ HandlerEvent \in [Handler -> Event]
  /\ MaxGroups \in Nat \ {0}
  /\ MaxPerformances \in Nat
  /\ MaxWait \in Nat
  /\ Syscalls \subseteq Syscall

ASSUME HandlersInActorOrder ==
  \A h1, h2 \in Handler : h1 < h2 => HandlerActor[h1] <= HandlerActor[h2]

VARIABLES
  objects, instances, drawn,  \* see Instances
  questions, queue,           \* see Questions
  playing,      \* performances which have not ended
  threads,      \* ThreadGroup.threads, of each group
  threadGroups, \* Project.thread_groups, up to where one_frame has come
  phase,        \* where the frame is
  todo,         \* threads of the current group still to run
  spawned,      \* groups made by threads of the current group
  nextGroups    \* groups which the frame has collected so far

instanceVars == <<objects, instances, drawn>>
questionVars == <<questions, queue>>
frameVars == <<phase, todo, spawned, nextGroups>>
threadVars == <<threads, threadGroups>>
vars == <<objects, instances, drawn, questions, queue, playing, threads,
          threadGroups, phase, todo, spawned, nextGroups>>

I == INSTANCE Instances
Q == INSTANCE Questions

-----------------------------------------------------------------------------
(* Threads.                                                                *)

Running   == "running"
OnGroup   == "awaiting-thread-group-completion"
OnTime    == "awaiting-passage-of-time"
OnSound   == "awaiting-sound-completion"
OnAnswer  == "awaiting-answer-to-question"
Zombie    == "zombie"
Raised    == "raised-exception"
StopAsked == "requested-stop"

ThreadState == {Running, OnGroup, OnTime, OnSound, OnAnswer, Zombie, Raised, StopAsked}

(* on is sleeping_on: a group, a number of frames, a performance or a      *)
(* question; 0 stands for null.                                            *)
Thread == [state : ThreadState, on : Nat]
Ready  == [state |-> Running, on |-> 0]
Dead   == [state |-> Zombie, on |-> 0]

(* A slot of a group in which there is no thread. *)
NoThread == [state |-> "none", on |-> 0]

(* A group runs a handler at most once for an instance. *)
Slot == Handler \X (1..MaxInstances)

(* Threads of a group run in this order: create_threads_for_... goes       *)
(* through actors, then handlers, then instances.                          *)
Before(s, t) == s[1] < t[1] \/ (s[1] = t[1] /\ s[2] < t[2])

Live(g) == {s \in Slot : threads[g][s] # NoThread}
InState(g, st) == {s \in Slot : threads[g][s].state = st}

Empty == [s \in Slot |-> NoThread]

(* ThreadGroup.create_thread, for the handlers of an event on some of the  *)
(* instances of each actor.                                                *)
NewThreads(event, some) ==
  [s \in Slot |-> IF HandlerEvent[s[1]] = event /\ s[2] \in some[HandlerActor[s[1]]]
                  THEN Ready ELSE NoThread]

Scheduled == Range(threadGroups) \cup Range(spawned) \cup Range(nextGroups)

(* Groups which some thread waits for. *)
AsleepOn(st) == {threads[p[1]][p[2]].on : p \in
                   {p \in Group \X Slot : threads[p[1]][p[2]].state = st}}
Awaited == AsleepOn(OnGroup)

(* A group is an object: a new one is none of those which are scheduled or *)
(* waited for.  Nothing else refers to a group, and its number is used     *)
(* again when nothing does.                                                *)
IsNewGroup(g) == \A h \in Scheduled \cup Awaited : h < g

NewGroup(g) == /\ g \in Group
               /\ IsNewGroup(g)
               /\ \A h \in Group : IsNewGroup(h) => g <= h

(* The program's sounds are external: the sound manager gives out          *)
(* performances and says when they have ended.                             *)
NewPerformances == Performance \ (playing \cup AsleepOn(OnSound))

Init == /\ I!Init
        /\ Q!Init
        /\ playing = {}
        /\ threads = [g \in Group |-> Empty]
        /\ threadGroups = <<>>
        /\ phase = "idle"
        /\ todo = {}
        /\ spawned = <<>>
        /\ nextGroups = <<>>

-----------------------------------------------------------------------------
(* The start of Project.one_frame.                                         *)

(* launch_keypress_handlers, for one of the keys pressed since last time. *)
LaunchKeypressHandlers(key) ==
  /\ phase \in {"idle", "keys"}
  /\ phase' = "keys"
  /\ \E g \in Group :
       /\ NewGroup(g)
       /\ threads' = [threads EXCEPT ![g] = NewThreads(key, instances)]
       /\ threadGroups' = Append(threadGroups, g)
  /\ UNCHANGED <<instanceVars, questionVars, playing, todo, spawned, nextGroups>>

(* launch_click_handlers, for a click on the instance i: i is the front-   *)
(* most of the shown instances with the pointer inside their bounding box, *)
(* and so any instance which is drawn.                                     *)
LaunchClickHandlers(i) ==
  /\ phase \in {"idle", "keys", "clicks"}
  /\ phase' = "clicks"
  /\ I!IsDrawn(i)
  /\ \E g \in Group :
       /\ NewGroup(g)
       /\ threads' = [threads EXCEPT
            ![g] = NewThreads(Click, [a \in I!Actor |->
                                        {j \in {i} : objects[j].actor = a}])]
       /\ threadGroups' = Append(threadGroups, g)
  /\ UNCHANGED <<instanceVars, questionVars, playing, todo, spawned, nextGroups>>

(* A bug: threads outlive their instances. *)
NeverCulled(t, s) == t

(* Thread.maybe_cull, for a thread in slot s. *)
Culled(t, s) ==
  IF t # NoThread /\ ~objects[s[2]].registered THEN Dead ELSE t

(* A bug: a group is looked for among those scheduled, and not found when  *)
(* it has finished.                                                        *)
ShouldWakeIfScheduled(t) ==
  \/ t.state = OnGroup  /\ t.on \in Range(threadGroups) /\ Live(t.on) = {}
  \/ t.state = OnTime   /\ t.on = 1
  \/ t.state = OnSound  /\ t.on \notin playing
  \/ t.state = OnAnswer /\ Q!IsAnswered(t.on)

(* Thread.should_wake; a group counts as live until it has been cleared of *)
(* zombies.                                                                *)
ShouldWake(t) ==
  \/ t.state = OnGroup  /\ Live(t.on) = {}
  \/ t.state = OnTime   /\ t.on = 1
  \/ t.state = OnSound  /\ t.on \notin playing
  \/ t.state = OnAnswer /\ Q!IsAnswered(t.on)

(* A bug: the count of frames is looked at, but not stored. *)
WokenOrUnchanged(t) == IF ShouldWake(t) THEN Ready ELSE t

(* Thread.maybe_wake: each look at a time sleeper counts a frame. *)
MaybeWoken(t) ==
  IF ShouldWake(t) THEN Ready
  ELSE IF t.state = OnTime THEN [t EXCEPT !.on = @ - 1] ELSE t

(* Culls, then wakes, in all groups; then the first group gets its turn.   *)
WakeThreads ==
  /\ phase # "running"
  /\ phase' = "running"
  /\ threads' = [g \in Group |->
                   IF g \in Range(threadGroups)
                   THEN [s \in Slot |-> MaybeWoken(Culled(threads[g][s], s))]
                   ELSE threads[g]]
  /\ todo' = IF threadGroups = <<>> THEN {}
             ELSE {s \in Slot : threads'[Head(threadGroups)][s].state = Running}
  /\ UNCHANGED <<instanceVars, questionVars, playing, threadGroups, spawned, nextGroups>>

-----------------------------------------------------------------------------
(* Thread.one_frame, for the runnable threads of the current group.        *)

Current == Head(threadGroups)

HasTurn(s) == /\ phase = "running"
              /\ s \in todo
              /\ \A t \in todo \ {s} : Before(s, t)

(* The turn of thread s ends, and leaves it as t. *)
EndTurn(s, t) ==
  /\ HasTurn(s)
  /\ todo' = todo \ {s}
  /\ threads' = [threads EXCEPT ![Current][s] = t]
  /\ UNCHANGED <<threadGroups, phase, spawned, nextGroups>>

(* Likewise, and the thread has made group g. *)
EndTurnWithGroup(s, t, g, new) ==
  /\ HasTurn(s)
  /\ todo' = todo \ {s}
  /\ threads' = [threads EXCEPT ![Current][s] = t, ![g] = new]
  /\ spawned' = Append(spawned, g)
  /\ UNCHANGED <<threadGroups, phase, nextGroups>>

(* The handler returns. *)
Finish(s) ==
  /\ EndTurn(s, Dead)
  /\ UNCHANGED <<instanceVars, questionVars, playing>>

(* The handler raises an exception, or makes a suspension which is not a   *)
(* Pytch system call.                                                      *)
Raise(s) ==
  /\ "raise" \in Syscalls
  /\ EndTurn(s, [state |-> Raised, on |-> 0])
  /\ UNCHANGED <<instanceVars, questionVars, playing>>

(* yield_until_next_frame(); also any system call which fails: the failure *)
(* is kept in the suspension and raised when the thread next runs.         *)
NextFrame(s) ==
  /\ "next-frame" \in Syscalls
  /\ EndTurn(s, Ready)
  /\ UNCHANGED <<instanceVars, questionVars, playing>>

Broadcast(s, message) ==
  /\ "broadcast" \in Syscalls
  /\ \E g \in Group : NewGroup(g) /\ EndTurnWithGroup(s, Ready, g, NewThreads(message, instances))
  /\ UNCHANGED <<instanceVars, questionVars, playing>>

(* A bug: the thread waits for the group which it is in. *)
BroadcastAndWaitForOwn(s, message) ==
  /\ "broadcast-and-wait" \in Syscalls
  /\ \E g \in Group :
       /\ NewGroup(g)
       /\ EndTurnWithGroup(s, [state |-> OnGroup, on |-> Current], g,
                           NewThreads(message, instances))
  /\ UNCHANGED <<instanceVars, questionVars, playing>>

BroadcastAndWait(s, message) ==
  /\ "broadcast-and-wait" \in Syscalls
  /\ \E g \in Group :
       /\ NewGroup(g)
       /\ EndTurnWithGroup(s, [state |-> OnGroup, on |-> g], g, NewThreads(message, instances))
  /\ UNCHANGED <<instanceVars, questionVars, playing>>

PlaySound(s) ==
  /\ "play-sound" \in Syscalls
  /\ \E p \in NewPerformances : playing' = playing \cup {p}
  /\ EndTurn(s, Ready)
  /\ UNCHANGED <<instanceVars, questionVars>>

PlaySoundAndWait(s) ==
  /\ "play-sound-and-wait" \in Syscalls
  /\ \E p \in NewPerformances : /\ playing' = playing \cup {p}
                                /\ EndTurn(s, [state |-> OnSound, on |-> p])
  /\ UNCHANGED <<instanceVars, questionVars>>

(* A bug: waiting for no time at all takes no frames. *)
WaitOneLess(s, frames) ==
  /\ "wait-seconds" \in Syscalls
  /\ EndTurn(s, [state |-> OnTime, on |-> frames - 1])
  /\ UNCHANGED <<instanceVars, questionVars, playing>>

(* At least one frame, however short the time. *)
WaitSeconds(s, frames) ==
  /\ "wait-seconds" \in Syscalls
  /\ EndTurn(s, [state |-> OnTime, on |-> frames])
  /\ UNCHANGED <<instanceVars, questionVars, playing>>

(* create_clone_of(); a parent which is not drawn makes it fail half-way,  *)
(* before there is a group for the clone's handlers.                       *)
RegisterInstance(s, parent) ==
  /\ "register-instance" \in Syscalls
  /\ I!RegisterPyInstance(parent)
  /\ IF I!IsDrawn(parent)
     THEN \E g \in Group :
            /\ NewGroup(g)
            /\ EndTurnWithGroup(s, Ready, g,
                 NewThreads(Clone, [a \in I!Actor |-> instances'[a] \ instances[a]]))
     ELSE EndTurn(s, Ready)
  /\ UNCHANGED <<questionVars, playing>>

(* A bug: the actor drops the instance at once, and it is still drawn. *)
DeleteAtOnce(s) ==
  /\ "unregister-running-instance" \in Syscalls
  /\ objects[s[2]].registered
  /\ instances' = [instances EXCEPT ![objects[s[2]].actor] = @ \ {s[2]}]
  /\ objects' = [objects EXCEPT ![s[2]].registered = FALSE]
  /\ EndTurn(s, Dead)
  /\ UNCHANGED <<drawn, questionVars, playing>>

(* delete_this_clone(): the thread is over, unless its instance is the     *)
(* original one.                                                           *)
UnregisterRunningInstance(s) ==
  /\ "unregister-running-instance" \in Syscalls
  /\ I!UnregisterInstance(s[2])
  /\ EndTurn(s, IF objects'[s[2]].registered THEN Ready ELSE Dead)
  /\ UNCHANGED <<questionVars, playing>>

(* A bug: the thread waits for the question which is being asked. *)
AskAndWaitForLiveQuestion(s) ==
  /\ "ask-and-wait-for-answer" \in Syscalls
  /\ Q!EnqueueQuestion
  /\ EndTurn(s, [state |-> OnAnswer, on |-> Head(queue')])
  /\ UNCHANGED <<instanceVars, playing>>

AskAndWaitForAnswer(s) ==
  /\ "ask-and-wait-for-answer" \in Syscalls
  /\ Q!EnqueueQuestion
  /\ EndTurn(s, [state |-> OnAnswer, on |-> Len(questions')])
  /\ UNCHANGED <<instanceVars, playing>>

StopAllThreads(s) ==
  /\ "stop-all-threads" \in Syscalls
  /\ EndTurn(s, [state |-> StopAsked, on |-> 0])
  /\ UNCHANGED <<instanceVars, questionVars, playing>>

(* Two things a thread can do to the project and keep its turn. *)
StopAllSounds(s) ==
  /\ "stop-all-sounds" \in Syscalls
  /\ HasTurn(s)
  /\ playing' = {}
  /\ UNCHANGED <<instanceVars, questionVars, threads, threadGroups, frameVars>>

MoveLayer(s, kind, n) ==
  /\ "move-layer" \in Syscalls
  /\ HasTurn(s)
  /\ objects[s[2]].actor \in I!Sprite
  /\ I!MoveWithinDrawLayerGroup(s[2], kind, n)
  /\ UNCHANGED <<questionVars, playing, threads, threadGroups, frameVars>>

Turn(s) ==
  \/ Finish(s) \/ Raise(s) \/ NextFrame(s)
  \/ \E message \in Message : Broadcast(s, message) \/ BroadcastAndWait(s, message)
  \/ PlaySound(s) \/ PlaySoundAndWait(s)
  \/ \E frames \in 1..MaxWait : WaitSeconds(s, frames)
  \/ \E parent \in I!Source : RegisterInstance(s, parent)
  \/ UnregisterRunningInstance(s)
  \/ AskAndWaitForAnswer(s)
  \/ StopAllThreads(s)

-----------------------------------------------------------------------------
(* Bugs: groups with nothing to run are dropped, or none is. *)
AgainIfRunning(g, left) == IF \E s \in Slot : left[s].state = Running THEN <<g>> ELSE <<>>

AgainTwice(g, left) == IF left = Empty THEN <<>> ELSE <<g, g>>

(* A group with threads left is scheduled again. *)
Again(g, left) == IF left = Empty THEN <<>> ELSE <<g>>

(* ThreadGroup.one_frame after its threads have run: zombies go; the group *)
(* comes after those which its threads have made.                          *)
FinishGroup ==
  LET g    == Current
      left == [s \in Slot |-> IF threads[g][s].state = Zombie THEN NoThread
                                                             ELSE threads[g][s]]
      rest == Tail(threadGroups)
  IN  /\ phase = "running"
      /\ threadGroups # <<>>
      /\ todo = {}
      /\ threads' = [threads EXCEPT ![g] = left]
      /\ nextGroups' = nextGroups \o spawned \o Again(g, left)
      /\ spawned' = <<>>
      /\ threadGroups' = rest
      /\ todo' = IF rest = <<>> THEN {} ELSE InState(Head(rest), Running)
      /\ UNCHANGED <<instanceVars, questionVars, playing, phase>>

(* A bug: only the live question is cancelled. *)
DiscardLiveQuestion ==
  /\ queue' = IF queue = <<>> THEN <<>> ELSE Tail(queue)
  /\ playing' = {}
  /\ UNCHANGED questions

(* Project.kill_all_threads_and_extras: threads, then the rest. *)
DiscardExtras == Q!DiscardQuestions /\ playing' = {}

KillAllThreadsAndExtras ==
  /\ threads' = [g \in Group |-> Empty]
  /\ DiscardExtras

(* A bug: clones go, but not the threads. *)
StopKeepingThreads == DiscardExtras /\ I!DeleteAllClones /\ UNCHANGED threads

(* Project.on_red_stop_clicked *)
StopEverything == KillAllThreadsAndExtras /\ I!DeleteAllClones

AllGroupsDone == phase = "running" /\ threadGroups = <<>>

(* A bug: only one group is asked. *)
FirstGroupHas(st) == nextGroups # <<>> /\ InState(Head(nextGroups), st) # {}

(* ThreadGroup.raised_exception, requested_stop *)
SomeThread(st) == \E g \in Range(nextGroups) : InState(g, st) # {}

NewFrame(groups) == /\ phase' = "idle"
                    /\ threadGroups' = groups
                    /\ nextGroups' = <<>>
                    /\ UNCHANGED <<todo, spawned>>

(* The end of Project.one_frame: when a thread raised an exception, there  *)
(* is no group left in which to look for a request to stop.                *)
EndFrameAfterException ==
  /\ AllGroupsDone
  /\ SomeThread(Raised)
  /\ KillAllThreadsAndExtras
  /\ I!CullUnregisteredInstances
  /\ NewFrame(<<>>)

(* A bug: a request to stop does as much as an exception. *)
EndFrameKeepingClones ==
  /\ AllGroupsDone
  /\ ~SomeThread(Raised) /\ SomeThread(StopAsked)
  /\ KillAllThreadsAndExtras
  /\ I!CullUnregisteredInstances
  /\ NewFrame(<<>>)

(* When a thread called stop_all(): culling then finds nothing to cull.    *)
EndFrameAfterStop ==
  /\ AllGroupsDone
  /\ ~SomeThread(Raised) /\ SomeThread(StopAsked)
  /\ StopEverything
  /\ NewFrame(<<>>)

(* A bug: an answered question stays. *)
EndFrameWithoutRetiring ==
  /\ AllGroupsDone
  /\ ~SomeThread(Raised) /\ ~SomeThread(StopAsked)
  /\ I!CullUnregisteredInstances
  /\ NewFrame(nextGroups)
  /\ UNCHANGED <<questionVars, threads, playing>>

EndFrame ==
  /\ AllGroupsDone
  /\ ~SomeThread(Raised) /\ ~SomeThread(StopAsked)
  /\ Q!MaybeRetireAnsweredQuestion
  /\ I!CullUnregisteredInstances
  /\ NewFrame(nextGroups)
  /\ UNCHANGED <<threads, playing>>

-----------------------------------------------------------------------------
(* Between frames: calls by the VM's client, and the sound manager.        *)

OnGreenFlagClicked ==
  /\ phase = "idle"
  /\ DiscardExtras
  /\ I!DeleteAllClones
  /\ threads' = [g \in Group |-> IF g = 1 THEN NewThreads(GreenFlag, instances')
                                           ELSE Empty]
  /\ threadGroups' = <<1>>
  /\ UNCHANGED frameVars

OnRedStopClicked ==
  /\ phase = "idle"
  /\ StopEverything
  /\ threadGroups' = <<>>
  /\ UNCHANGED frameVars

DoSyntheticBroadcast(message) ==
  /\ phase = "idle"
  /\ \E g \in Group :
       /\ NewGroup(g)
       /\ threads' = [threads EXCEPT ![g] = NewThreads(message, instances)]
       /\ threadGroups' = Append(threadGroups, g)
  /\ UNCHANGED <<instanceVars, questionVars, playing, frameVars>>

(* rendering_instructions(): some instance cannot be drawn. *)
RenderingFails ==
  /\ phase = "idle"
  /\ "raise" \in Syscalls
  /\ KillAllThreadsAndExtras
  /\ threadGroups' = <<>>
  /\ UNCHANGED <<instanceVars, frameVars>>

AcceptQuestionAnswer(id, text) ==
  /\ phase = "idle"
  /\ Q!AcceptQuestionAnswer(id, text)
  /\ UNCHANGED <<instanceVars, playing, threadVars, frameVars>>

SoundEnds(p) ==
  /\ phase = "idle"
  /\ p \in playing
  /\ playing' = playing \ {p}
  /\ UNCHANGED <<instanceVars, questionVars, threadVars, frameVars>>

Client ==
  \/ OnGreenFlagClicked
  \/ OnRedStopClicked
  \/ \E message \in Message : DoSyntheticBroadcast(message)
  \/ RenderingFails
  \/ \E id \in Q!QuestionId, text \in Answer : AcceptQuestionAnswer(id, text)
  \/ \E p \in Performance : SoundEnds(p)

Frame ==
  \/ \E key \in Key : LaunchKeypressHandlers(key)
  \/ \E i \in I!InstanceId : LaunchClickHandlers(i)
  \/ WakeThreads
  \/ \E s \in todo : Turn(s) \/ StopAllSounds(s)
                      \/ \E kind \in I!MoveKind, n \in Offset : MoveLayer(s, kind, n)
  \/ FinishGroup
  \/ EndFrameAfterException \/ EndFrameAfterStop \/ EndFrame

Next == Frame \/ Client

Spec == Init /\ [][Next]_vars

(* The client keeps calling one_frame(), a thread's turn ends (it makes a  *)
(* system call or yields in every loop), sounds end, and the user answers  *)
(* a question which stays on the screen.                                   *)
FrameGoesOn ==
  \/ WakeThreads \/ (\E s \in todo : Turn(s)) \/ FinishGroup
  \/ EndFrameAfterException \/ EndFrameAfterStop \/ EndFrame

UserAnswers == \E id \in Q!QuestionId, text \in Answer : AcceptQuestionAnswer(id, text)

FairSpec == /\ Spec
            /\ WF_vars(FrameGoesOn)
            /\ SF_vars(UserAnswers)
            /\ \A p \in Performance : SF_vars(SoundEnds(p))

-----------------------------------------------------------------------------
(* What could go wrong.                                                    *)

(* Types of the fields of Thread, ThreadGroup and Project. *)
TypeOK ==
  /\ I!TypeOK
  /\ Q!TypeOK
  /\ playing \subseteq Performance
  /\ threads \in [Group -> [Slot -> Thread \cup {NoThread}]]
  /\ threadGroups \in Seq(Group) /\ spawned \in Seq(Group) /\ nextGroups \in Seq(Group)
  /\ phase \in {"idle", "keys", "clicks", "running"}
  /\ todo \subseteq Slot

(* Every thread is in a group which the project will run: one_frame loses  *)
(* no group with threads left, and a group which is waited for is not      *)
(* dropped before its threads have finished.                               *)
ThreadsAreScheduled == \A g \in Group : Live(g) # {} => g \in Scheduled

(* No group is scheduled twice, which would give its threads two turns.    *)
NoGroupTwice == IsInjective(threadGroups \o spawned \o nextGroups)

(* When threads are told to wake, none is in a state in which should_wake  *)
(* or wake throws ("thread in bad state") : those which finished, raised   *)
(* an exception or asked for a stop are gone when their frame ends.        *)
NoBadStateAtWake ==
  phase # "running" =>
    \A g \in Group, s \in Slot : threads[g][s].state \notin {Zombie, Raised, StopAsked}

(* A thread with a turn belongs to an instance which its actor has, so     *)
(* that unregister_instance never throws "instance not found", and a clone *)
(* that is gone never runs.  A thread without one may also belong to an    *)
(* instance which is marked: it will be culled before it is woken.         *)
ThreadsHaveInstances ==
  /\ \A s \in todo : s[2] \in I!InstanceId /\ I!IsInstance(s[2])
  /\ \A g \in Group, s \in Slot :
       s \in Live(g) => /\ s[2] \in I!InstanceId
                        /\ I!IsInstance(s[2]) \/ ~objects[s[2]].registered

(* Broadcasts which wait cannot deadlock: there is no set of groups each   *)
(* of which has a thread waiting for another of them (or itself).          *)
NoWaitCycle ==
  \A G \in SUBSET Group :
    G # {} => \E g \in G : \A s \in Slot :
                threads[g][s].state = OnGroup => threads[g][s].on \notin G

(* The reason: a thread waits for a group younger than its own. *)
WaitsForYounger ==
  \A g \in Group, s \in Slot : threads[g][s].state = OnGroup => g < threads[g][s].on

(* A thread which waits for an answer will be woken by it: its question is *)
(* answered or still in the queue, also after stops and exceptions, which  *)
(* empty the queue; and no other thread waits for the same question.       *)
AskersWillBeAnswered ==
  \A g, h \in Group, s, t \in Slot :
    threads[g][s].state = OnAnswer =>
      /\ threads[g][s].on \in Q!QuestionId
      /\ Q!IsAnswered(threads[g][s].on) \/ Q!InQueue(threads[g][s].on)
      /\ threads[h][t] = threads[g][s] => g = h /\ s = t

(* A time sleeper has a frame left to sleep: should_wake counts down by    *)
(* one and compares with zero, and a count that starts at zero never gets  *)
(* there.                                                                  *)
TimersArePositive ==
  \A g \in Group, s \in Slot : threads[g][s].state = OnTime => threads[g][s].on > 0

(* What one_frame returns as the live question is one which the user has   *)
(* not answered: maybe_live_question throws otherwise.                     *)
LiveQuestionIsAsked ==
  [][phase = "running" /\ phase' = "idle" /\ queue' # <<>>
       => questions'[Head(queue')].state = Q!Asking]_vars

(* stop_all() "does the same job as the red stop button"                   *)
(* (doc/source/user/actor-stop-all.rst): it deletes all clones.            *)
StopAllDeletesClones ==
  [][phase = "running" /\ phase' = "idle" /\ SomeThread(StopAsked)
       => \A a \in I!Actor : instances'[a] = {I!Original(a)}]_vars

(* Liveness. A thread which waits for time to pass, or for a sound to end, *)
(* goes on, or is stopped.                                                 *)
TimeAndSoundSleepersWake ==
  \A g \in Group, s \in Slot : \A st \in {OnTime, OnSound} :
    threads[g][s].state = st ~> threads[g][s].state # st

(* A thread which waits for a group goes on once all its threads have      *)
(* finished or been culled, whether or not the group is still scheduled.   *)
GroupSleepersWake ==
  \A g, h \in Group, s \in Slot :
    threads[g][s] = [state |-> OnGroup, on |-> h] /\ Live(h) = InState(h, Zombie)
      ~> threads[g][s].state # OnGroup

SleepersWake == TimeAndSoundSleepersWake /\ GroupSleepersWake

(* A thread which asked is given an answer, or is stopped. *)
AskersResume ==
  \A g \in Group, s \in Slot :
    threads[g][s].state = OnAnswer ~> threads[g][s].state # OnAnswer

(* The parts of the project behave as they were specified alone. *)
InstancesSpec == I!Spec
QuestionsSpec == Q!Spec

=============================================================================
