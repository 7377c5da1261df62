--------------------------- MODULE Project_proofs ---------------------------
(***************************************************************************)
(* Proofs about the scheduler, for any handlers, any numbers of actors,    *)
(* instances, groups, questions and sounds, and any set of system calls:   *)
(* one_frame loses no thread with work to do and schedules none twice,     *)
(* wakes no thread in a state in which should_wake throws, gives every     *)
(* sleeper a positive time to sleep, and no set of threads waits in a      *)
(* circle; threads have instances and those that ask get answers; and the  *)
(* project uses its questions, instances and draw layers as they were      *)
(* specified alone.                                                        *)
(***************************************************************************)
EXTENDS Project, SequenceTheorems, WellFoundedInduction, TLAPS

-----------------------------------------------------------------------------
(* The inductive invariant.                                                *)

Threads == [Slot -> Thread \cup {NoThread}]

ThreadTypes == threads \in [Group -> Threads]

ScheduleTypes ==
  /\ threadGroups \in Seq(Group) /\ spawned \in Seq(Group) /\ nextGroups \in Seq(Group)
  /\ phase \in {"idle", "keys", "clicks", "running"}
  /\ todo \subseteq Slot

(* Threads have turns only while there is a group, and what groups make in *)
(* a frame is passed on before the frame ends.                             *)
FrameShape ==
  /\ todo # {} => phase = "running" /\ threadGroups # <<>>
  /\ phase # "running" \/ threadGroups = <<>> => spawned = <<>>
  /\ phase # "running" => nextGroups = <<>>

(* Threads that have ended are in a group that has yet to have its turn in *)
(* this frame; threads that raised or asked to stop, somewhere in the frame. *)
EndedThreadsGo ==
  \A g \in Group, s \in Slot :
    /\ threads[g][s].state = Zombie => phase = "running" /\ g \in Range(threadGroups)
    /\ threads[g][s].state \in {Raised, StopAsked} => phase = "running"

(* What a thread of group g may wait for. *)
FitWait(g, t) ==
  /\ t.state = OnGroup => t.on \in Group /\ g < t.on
  /\ t.state = OnTime  => t.on > 0

FitWaits == \A g \in Group, s \in Slot : FitWait(g, threads[g][s])

QuestionTypes == questions \in Seq(Q!UserQuestion)

SchedInv ==
  /\ ThreadTypes /\ ScheduleTypes /\ QuestionTypes
  /\ FrameShape /\ ThreadsAreScheduled /\ EndedThreadsGo /\ FitWaits

-----------------------------------------------------------------------------
(* Sequences of groups.                                                    *)

LEMMA RangeOfAppend ==
  ASSUME NEW S, NEW s \in Seq(S), NEW e \in S
  PROVE  Range(Append(s, e)) = Range(s) \cup {e}
  <1>1. Range(s) = {s[i] : i \in 1..Len(s)} /\ Len(s) \in Nat
    BY RangeEquality
  <1>2. /\ Append(s, e) \in Seq(S) /\ Len(Append(s, e)) = Len(s) + 1
        /\ \A i \in 1..Len(s) : Append(s, e)[i] = s[i]
        /\ Append(s, e)[Len(s) + 1] = e
    BY AppendProperties
  <1>3. Range(Append(s, e)) = {Append(s, e)[i] : i \in 1..(Len(s) + 1)}
    BY <1>2, RangeEquality
  <1> QED
    BY <1>1, <1>2, <1>3

LEMMA RangeOfEmpty == Range(<<>>) = {}
  BY DEF Range

LEMMA RangeOfTail ==
  ASSUME NEW S, NEW s \in Seq(S), s # <<>>
  PROVE  /\ Head(s) \in S /\ Tail(s) \in Seq(S)
         /\ Range(s) = {Head(s)} \cup Range(Tail(s))
  <1>1. Head(s) \in S /\ Tail(s) \in Seq(S)
    BY HeadTailProperties
  <1>2. /\ Len(Tail(s)) = Len(s) - 1
        /\ \A i \in 1..Len(Tail(s)) : Tail(s)[i] = s[i + 1]
        /\ Len(s) \in Nat /\ Len(s) > 0 /\ Head(s) = s[1]
    BY HeadTailProperties, EmptySeq
  <1>3. /\ Range(s) = {s[i] : i \in 1..Len(s)}
        /\ Range(Tail(s)) = {Tail(s)[i] : i \in 1..Len(Tail(s))}
    BY <1>1, RangeEquality
  <1>4. ASSUME NEW x \in Range(s) PROVE x \in {Head(s)} \cup Range(Tail(s))
    <2>1. PICK i \in 1..Len(s) : x = s[i]
      BY <1>3, <1>4
    <2>2. i = 1 \/ (i - 1 \in 1..Len(Tail(s)) /\ s[i] = Tail(s)[i - 1])
      BY <1>2
    <2> QED
      BY <1>2, <1>3, <2>1, <2>2
  <1>5. ASSUME NEW x \in Range(Tail(s)) PROVE x \in Range(s)
    <2>1. PICK i \in 1..Len(Tail(s)) : x = Tail(s)[i]
      BY <1>3, <1>5
    <2>2. i + 1 \in 1..Len(s) /\ x = s[i + 1]
      BY <1>2, <2>1
    <2> QED
      BY <1>3, <2>2
  <1>6. Head(s) \in Range(s)
    BY <1>2, <1>3
  <1> QED
    BY <1>1, <1>4, <1>5, <1>6

(* What is in the range of each sequence of Scheduled. *)
LEMMA ScheduledInGroup ==
  ASSUME ScheduleTypes
  PROVE  Scheduled \subseteq Group
  BY RangeOfSeq DEF ScheduleTypes, Scheduled

-----------------------------------------------------------------------------
(* Threads.                                                                *)

LEMMA ThreadStates ==
  /\ Ready \in Thread /\ Dead \in Thread
  /\ Ready.state = Running /\ Dead.state = Zombie /\ NoThread.state = "none"
  /\ NoThread \notin Thread
  /\ Ready # NoThread /\ Dead # NoThread
  BY DEF Ready, Dead, NoThread, Thread, ThreadState, Running, OnGroup, OnTime, OnSound,
         OnAnswer, Zombie, Raised, StopAsked

LEMMA NewThreadsAreReady ==
  ASSUME NEW event, NEW some
  PROVE  NewThreads(event, some) \in [Slot -> {Ready, NoThread}]
  BY DEF NewThreads

(* Threads which are ready, dead or not there wait for nothing. *)
LEMMA ReadyWaitsForNothing ==
  ASSUME NEW g, NEW t \in {Ready, Dead, NoThread}
  PROVE  /\ FitWait(g, t)
         /\ t \in Thread \cup {NoThread}
         /\ t.state \notin {Raised, StopAsked}
         /\ t # Dead => t.state # Zombie
  BY ThreadStates DEF FitWait, Ready, Dead, NoThread, Running, OnGroup, OnTime,
         Zombie, Raised, StopAsked

(* A live slot holds a thread. *)
LEMMA LiveSlots ==
  \A g \in Group : Live(g) # {} <=> \E s \in Slot : threads[g][s] # NoThread
  BY DEF Live

-----------------------------------------------------------------------------
(* Steps which start a group between turns: keys, clicks, the client.      *)

LEMMA GroupStarts ==
  ASSUME SchedInv, phase # "running",
         NEW g \in Group, NEW new \in [Slot -> {Ready, NoThread}],
         threads' = [threads EXCEPT ![g] = new],
         threadGroups' = Append(threadGroups, g),
         phase' \in {"idle", "keys", "clicks"},
         UNCHANGED <<questions, todo, spawned, nextGroups>>
  PROVE  SchedInv'
  <1> USE DEF SchedInv
  <1>1. \A h \in Group, s \in Slot :
          threads'[h][s] = IF h = g THEN new[s] ELSE threads[h][s]
    BY DEF ThreadTypes
  <1>2. /\ threadGroups' \in Seq(Group)
        /\ threadGroups' # <<>>
        /\ Range(threadGroups') = Range(threadGroups) \cup {g}
    BY RangeOfAppend, AppendProperties DEF ScheduleTypes
  <1>3. ThreadTypes'
    BY ThreadStates DEF ThreadTypes, Threads
  <1>4. ScheduleTypes' /\ QuestionTypes'
    BY <1>2 DEF ScheduleTypes, QuestionTypes
  <1>5. FrameShape'
    BY DEF FrameShape
  <1>6. ThreadsAreScheduled'
    BY <1>1, <1>2 DEF ThreadsAreScheduled, Live, Scheduled
  <1>7. \A s \in Slot : new[s] \in {Ready, NoThread}
    OBVIOUS
  <1>8. EndedThreadsGo'
    <2>1. \A s \in Slot : new[s].state \notin {Zombie, Raised, StopAsked}
      BY <1>7, ThreadStates DEF Running, Zombie, Raised, StopAsked
    <2>2. \A h \in Group, s \in Slot : threads[h][s].state \notin {Zombie, Raised, StopAsked}
      BY DEF EndedThreadsGo
    <2> QED
      BY <1>1, <2>1, <2>2 DEF EndedThreadsGo
  <1>9. FitWaits'
    BY <1>1, <1>7, ReadyWaitsForNothing DEF FitWaits, FitWait
  <1> QED
    BY <1>3, <1>4, <1>5, <1>6, <1>8, <1>9

-----------------------------------------------------------------------------
(* The end of a turn.                                                      *)

(* The thread with the turn is in the current group, which is scheduled.   *)
LEMMA CurrentIsScheduled ==
  ASSUME SchedInv, NEW s, HasTurn(s)
  PROVE  /\ s \in Slot /\ phase = "running"
         /\ Current \in Group /\ Current \in Range(threadGroups)
  BY RangeOfTail DEF SchedInv, ScheduleTypes, FrameShape, HasTurn, Current

LEMMA TurnEnds ==
  ASSUME SchedInv, NEW s, NEW t \in Thread, EndTurn(s, t), QuestionTypes',
         t.state # OnGroup, t.state = OnTime => t.on > 0
  PROVE  SchedInv'
  <1> USE DEF SchedInv
  <1>1. /\ s \in Slot /\ phase = "running"
        /\ UNCHANGED <<threadGroups, phase, spawned, nextGroups>>
        /\ todo' = todo \ {s} /\ s \in todo
    BY CurrentIsScheduled DEF EndTurn, HasTurn
  <1>2. PICK c \in Group : c = Current /\ c \in Range(threadGroups)
    BY CurrentIsScheduled DEF EndTurn
  <1>3. threads' = [threads EXCEPT ![c][s] = t]
    BY <1>2 DEF EndTurn
  <1>4. ThreadTypes'
    BY <1>3, <1>1 DEF ThreadTypes, Threads
  <1>5. \A h \in Group, x \in Slot :
          threads'[h][x] = IF h = c /\ x = s THEN t ELSE threads[h][x]
    BY <1>1, <1>3 DEF ThreadTypes, Threads
  <1>6. ScheduleTypes' /\ FrameShape'
    BY <1>1 DEF ScheduleTypes, FrameShape
  <1>7. ThreadsAreScheduled'
    BY <1>1, <1>2, <1>5 DEF ThreadsAreScheduled, Live, Scheduled
  <1>8. EndedThreadsGo'
    BY <1>1, <1>2, <1>5 DEF EndedThreadsGo
  <1>9. FitWaits'
    BY <1>5 DEF FitWaits, FitWait
  <1> QED
    BY <1>4, <1>6, <1>7, <1>8, <1>9

(* A thread that makes a group may wait for it: it is younger than all     *)
(* those which are scheduled, and so than the thread's own.                *)
LEMMA TurnEndsWithGroup ==
  ASSUME SchedInv, NEW s, NEW t, NEW g \in Group, NewGroup(g),
         NEW new \in [Slot -> {Ready, NoThread}],
         EndTurnWithGroup(s, t, g, new), UNCHANGED questions,
         t = Ready \/ t = [state |-> OnGroup, on |-> g]
  PROVE  SchedInv'
  <1> USE DEF SchedInv
  <1>1. /\ s \in Slot /\ phase = "running" /\ s \in todo
        /\ UNCHANGED <<threadGroups, phase, nextGroups>>
        /\ todo' = todo \ {s}
        /\ spawned' = Append(spawned, g)
    BY CurrentIsScheduled DEF EndTurnWithGroup, HasTurn
  <1>2. PICK c \in Group : c = Current /\ c \in Range(threadGroups)
    BY CurrentIsScheduled DEF EndTurnWithGroup
  <1>3. c < g
    BY <1>2 DEF NewGroup, IsNewGroup, Scheduled
  <1>4. /\ t \in Thread
        /\ t.state \notin {Zombie, Raised, StopAsked}
        /\ FitWait(c, t)
    <2>1. CASE t = Ready
      BY <2>1, ReadyWaitsForNothing, ThreadStates DEF Running, Zombie, Raised, StopAsked
    <2>2. CASE t = [state |-> OnGroup, on |-> g]
      <3>1. t.state = OnGroup /\ t.on = g
        BY <2>2
      <3>2. g \in Nat
        BY DEF Group
      <3> QED
        BY <1>3, <2>2, <3>1, <3>2 DEF Thread, ThreadState, FitWait, OnGroup, OnTime, Zombie,
             Raised, StopAsked
    <2> QED
      BY <2>1, <2>2
  <1>5. threads' = [threads EXCEPT ![c][s] = t, ![g] = new]
    BY <1>2 DEF EndTurnWithGroup
  <1>6. ThreadTypes'
    <2>1. new \in Threads
      BY ThreadStates DEF Threads
    <2>2. [threads[c] EXCEPT ![s] = t] \in Threads
      BY <1>1, <1>4 DEF ThreadTypes, Threads
    <2> QED
      BY <1>5, <2>1, <2>2 DEF ThreadTypes
  <1>7. \A h \in Group, x \in Slot :
          threads'[h][x] = IF h = g THEN new[x]
                           ELSE IF h = c /\ x = s THEN t ELSE threads[h][x]
    BY <1>1, <1>5 DEF ThreadTypes, Threads
  <1>8. /\ spawned' \in Seq(Group)
        /\ Range(spawned') = Range(spawned) \cup {g}
    BY <1>1, RangeOfAppend, AppendProperties DEF ScheduleTypes
  <1>9. ScheduleTypes' /\ FrameShape' /\ QuestionTypes'
    BY <1>1, <1>8 DEF ScheduleTypes, FrameShape, QuestionTypes
  <1>10. ThreadsAreScheduled'
    BY <1>1, <1>2, <1>7, <1>8 DEF ThreadsAreScheduled, Live, Scheduled
  <1>11. \A x \in Slot : new[x] \in {Ready, NoThread}
    OBVIOUS
  <1>12. \A x \in Slot : /\ new[x].state \notin {Zombie, Raised, StopAsked}
                         /\ FitWait(g, new[x])
    BY <1>11, ThreadStates, ReadyWaitsForNothing DEF Running, Zombie, Raised, StopAsked
  <1>13. EndedThreadsGo'
    BY <1>1, <1>4, <1>7, <1>12 DEF EndedThreadsGo
  <1>14. FitWaits'
    BY <1>4, <1>7, <1>12 DEF FitWaits, FitWait
  <1> QED
    BY <1>6, <1>9, <1>10, <1>13, <1>14

-----------------------------------------------------------------------------
(* The steps of a frame between turns.                                     *)

(* Culling and waking: a thread becomes ready or dead, or sleeps on, with  *)
(* time still left.                                                        *)
LEMMA WokenThread ==
  ASSUME NEW g \in Group, NEW t \in Thread \cup {NoThread}, NEW s, FitWait(g, t),
         t.state \notin {Raised, StopAsked}
  PROVE  LET u == MaybeWoken(Culled(t, s))
         IN  /\ u \in Thread \cup {NoThread}
             /\ FitWait(g, u)
             /\ u.state \notin {Raised, StopAsked}
             /\ u = NoThread => t = NoThread
  <1> DEFINE v == Culled(t, s)
             u == MaybeWoken(v)
  <1>1. v = t \/ (v = Dead /\ t # NoThread)
    BY DEF Culled
  <1>2. CASE v = Dead
    <2>1. ~ShouldWake(v) /\ v.state # OnTime
      BY <1>2, ThreadStates DEF ShouldWake, Zombie, OnGroup, OnTime, OnSound, OnAnswer
    <2>2. u = Dead
      BY <1>2, <2>1 DEF MaybeWoken
    <2> QED
      BY <1>1, <1>2, <2>2, ReadyWaitsForNothing, ThreadStates
  <1>3. CASE v = t /\ t = NoThread
    <2>1. ~ShouldWake(v) /\ v.state # OnTime
      BY <1>3, ThreadStates DEF ShouldWake, OnGroup, OnTime, OnSound, OnAnswer
    <2>2. u = NoThread
      BY <1>3, <2>1 DEF MaybeWoken
    <2> QED
      BY <1>3, <2>2, ReadyWaitsForNothing
  <1>4. CASE v = t /\ t # NoThread /\ ShouldWake(t)
    <2>1. u = Ready
      BY <1>4 DEF MaybeWoken
    <2> QED
      BY <1>4, <2>1, ReadyWaitsForNothing, ThreadStates
  <1>5. CASE v = t /\ t # NoThread /\ ~ShouldWake(t) /\ t.state = OnTime
    <2>1. t \in Thread /\ t.on \in Nat /\ t.on > 0 /\ t.on # 1
      BY <1>5 DEF Thread, ShouldWake, FitWait
    <2>2. u = [t EXCEPT !.on = @ - 1]
      BY <1>5 DEF MaybeWoken
    <2>3. u \in Thread /\ u.state = OnTime /\ u.on > 0
      BY <1>5, <2>1, <2>2 DEF Thread
    <2> QED
      BY <1>5, <2>3, ThreadStates DEF FitWait, OnGroup, OnTime, Raised, StopAsked
  <1>6. CASE v = t /\ t # NoThread /\ ~ShouldWake(t) /\ t.state # OnTime
    BY <1>6 DEF MaybeWoken
  <1> QED
    BY <1>1, <1>2, <1>3, <1>4, <1>5, <1>6

LEMMA WakeKeepsInv ==
  ASSUME SchedInv, WakeThreads
  PROVE  SchedInv'
  <1> USE DEF SchedInv
  <1>1. /\ phase # "running" /\ phase' = "running"
        /\ spawned = <<>> /\ nextGroups = <<>>
        /\ UNCHANGED <<threadGroups, spawned, nextGroups, questions>>
    BY DEF WakeThreads, FrameShape, questionVars
  <1>2. \A h \in Group, s \in Slot :
          threads'[h][s] = IF h \in Range(threadGroups)
                           THEN MaybeWoken(Culled(threads[h][s], s)) ELSE threads[h][s]
    BY DEF WakeThreads
  <1>3. \A h \in Group, s \in Slot :
          /\ threads[h][s] \in Thread \cup {NoThread}
          /\ FitWait(h, threads[h][s])
          /\ threads[h][s].state \notin {Zombie, Raised, StopAsked}
    BY <1>1 DEF ThreadTypes, Threads, FitWaits, EndedThreadsGo
  <1>4. \A h \in Group, s \in Slot :
          /\ threads'[h][s] \in Thread \cup {NoThread}
          /\ FitWait(h, threads'[h][s])
          /\ threads'[h][s].state \notin {Raised, StopAsked}
          /\ threads'[h][s] # NoThread => h \in Scheduled
          /\ threads'[h][s].state = Zombie => h \in Range(threadGroups)
    <2> SUFFICES ASSUME NEW h \in Group, NEW s \in Slot
                 PROVE  /\ threads'[h][s] \in Thread \cup {NoThread}
                        /\ FitWait(h, threads'[h][s])
                        /\ threads'[h][s].state \notin {Raised, StopAsked}
                        /\ threads'[h][s] # NoThread => h \in Scheduled
                        /\ threads'[h][s].state = Zombie => h \in Range(threadGroups)
      OBVIOUS
    <2>1. CASE h \in Range(threadGroups)
      BY <1>2, <1>3, <2>1, WokenThread DEF Scheduled
    <2>2. CASE h \notin Range(threadGroups)
      BY <1>2, <1>3, <2>2 DEF ThreadsAreScheduled, Live
    <2> QED
      BY <2>1, <2>2
  <1>5. ThreadTypes'
    <2>1. /\ threads' = [h \in Group |-> threads'[h]]
          /\ \A h \in Group : threads'[h] = [s \in Slot |-> threads'[h][s]]
      BY DEF WakeThreads, ThreadTypes, Threads
    <2> QED
      BY <1>4, <2>1 DEF ThreadTypes, Threads
  <1>6. /\ todo' \subseteq Slot
        /\ todo' # {} => threadGroups # <<>>
    BY DEF WakeThreads
  <1>7. ScheduleTypes' /\ FrameShape' /\ QuestionTypes'
    BY <1>1, <1>6 DEF ScheduleTypes, FrameShape, QuestionTypes
  <1>8. ThreadsAreScheduled' /\ EndedThreadsGo' /\ FitWaits'
    BY <1>1, <1>4 DEF ThreadsAreScheduled, Live, Scheduled, EndedThreadsGo, FitWaits, FitWait
  <1> QED
    BY <1>5, <1>7, <1>8

LEMMA FinishKeepsInv ==
  ASSUME SchedInv, FinishGroup
  PROVE  SchedInv'
  <1> USE DEF SchedInv
  <1>1. PICK c \in Group : /\ c = Current /\ c = Head(threadGroups)
                           /\ Range(threadGroups) = {c} \cup Range(Tail(threadGroups))
                           /\ Tail(threadGroups) \in Seq(Group)
    BY RangeOfTail DEF FinishGroup, Current, ScheduleTypes
  <1>2. PICK left : left = [s \in Slot |-> IF threads[c][s].state = Zombie THEN NoThread
                                           ELSE threads[c][s]]
    OBVIOUS
  <1>3. /\ phase = "running" /\ phase' = "running" /\ UNCHANGED questions
        /\ threads' = [threads EXCEPT ![c] = left]
        /\ nextGroups' = nextGroups \o spawned \o Again(c, left)
        /\ spawned' = <<>>
        /\ threadGroups' = Tail(threadGroups)
        /\ todo' = IF Tail(threadGroups) = <<>> THEN {}
                   ELSE InState(Head(Tail(threadGroups)), Running)
    BY <1>1, <1>2 DEF FinishGroup, questionVars
  <1>4. \A s \in Slot : /\ left[s] \in Thread \cup {NoThread}
                        /\ FitWait(c, left[s])
                        /\ left[s].state # Zombie
    <2> SUFFICES ASSUME NEW s \in Slot
                 PROVE  /\ left[s] \in Thread \cup {NoThread}
                        /\ FitWait(c, left[s])
                        /\ left[s].state # Zombie
      OBVIOUS
    <2>1. /\ threads[c][s] \in Thread \cup {NoThread}
          /\ FitWait(c, threads[c][s])
      BY DEF ThreadTypes, Threads, FitWaits
    <2>2. CASE threads[c][s].state = Zombie
      BY <1>2, <2>2, ReadyWaitsForNothing, ThreadStates DEF Zombie
    <2>3. CASE threads[c][s].state # Zombie
      BY <1>2, <2>1, <2>3
    <2> QED
      BY <2>2, <2>3
  <1>5. \A h \in Group, s \in Slot :
          threads'[h][s] = IF h = c THEN left[s] ELSE threads[h][s]
    BY <1>3 DEF ThreadTypes
  <1>6. ThreadTypes'
    <2>1. left \in Threads
      BY <1>2, <1>4 DEF Threads
    <2> QED
      BY <1>3, <2>1 DEF ThreadTypes
  <1>7. /\ Again(c, left) \in Seq(Group)
        /\ left # Empty => c \in Range(Again(c, left))
    <2>1. <<c>> \in Seq(Group) /\ c \in Range(<<c>>)
      BY DEF Range
    <2> QED
      BY <2>1 DEF Again
  <1>8. /\ nextGroups' \in Seq(Group)
        /\ Range(nextGroups') = Range(nextGroups) \cup Range(spawned) \cup Range(Again(c, left))
    <2>1. PICK made \in Seq(Group) : /\ made = nextGroups \o spawned
                                     /\ Range(made) = Range(nextGroups) \cup Range(spawned)
      BY RangeConcatenation, ConcatProperties DEF ScheduleTypes
    <2>2. PICK again \in Seq(Group) : again = Again(c, left)
      BY <1>7
    <2>3. made \o again \in Seq(Group) /\ Range(made \o again) = Range(made) \cup Range(again)
      BY RangeConcatenation, ConcatProperties
    <2>4. nextGroups' = made \o again
      BY <1>3, <2>1, <2>2
    <2> QED
      BY <2>1, <2>2, <2>3, <2>4
  <1>9. ScheduleTypes' /\ FrameShape' /\ QuestionTypes'
    <2>1. todo' \subseteq Slot /\ (todo' # {} => threadGroups' # <<>>)
      BY <1>3 DEF InState
    <2>2. <<>> \in Seq(Group)
      OBVIOUS
    <2> QED
      BY <1>1, <1>3, <1>8, <2>1, <2>2 DEF ScheduleTypes, FrameShape, QuestionTypes
  <1>10. ThreadsAreScheduled'
    <2> SUFFICES ASSUME NEW h \in Group, NEW s \in Slot, threads'[h][s] # NoThread
                 PROVE  h \in Scheduled'
      BY DEF ThreadsAreScheduled, Live
    <2>1. CASE h = c
      <3>1. left # Empty
        BY <1>5, <2>1 DEF Empty
      <3> QED
        BY <1>7, <1>8, <2>1, <3>1 DEF Scheduled
    <2>2. CASE h # c
      <3>1. h \in Scheduled
        BY <1>5, <2>2 DEF ThreadsAreScheduled, Live
      <3> QED
        BY <1>1, <1>3, <1>8, <2>2, <3>1 DEF Scheduled
    <2> QED
      BY <2>1, <2>2
  <1>11. EndedThreadsGo'
    BY <1>1, <1>3, <1>4, <1>5 DEF EndedThreadsGo
  <1>12. FitWaits'
    BY <1>4, <1>5 DEF FitWaits, FitWait
  <1> QED
    BY <1>6, <1>9, <1>10, <1>11, <1>12

-----------------------------------------------------------------------------
(* The end of a frame, and what the client does.                           *)

(* All threads go away at once, and one group may be started.              *)
LEMMA AllThreadsGo ==
  ASSUME SchedInv, NEW new \in [Slot -> {Ready, NoThread}],
         threads' = [g \in Group |-> IF g = 1 THEN new ELSE Empty],
         threadGroups' = << 1 >> \/ (threadGroups' = <<>> /\ new = Empty),
         phase' = "idle", todo' = {}, spawned' = <<>>, nextGroups' = <<>>,
         UNCHANGED questions
  PROVE  SchedInv'
  <1> USE DEF SchedInv
  <1>1. \A g \in Group, s \in Slot :
          threads'[g][s] = IF g = 1 THEN new[s] ELSE NoThread
    BY DEF Empty
  <1>2. \A s \in Slot : new[s] \in {Ready, NoThread}
    OBVIOUS
  <1>3. \A g \in Group, s \in Slot : threads'[g][s] \in {Ready, NoThread}
    BY <1>1, <1>2
  <1>4. \A g \in Group, s \in Slot :
          /\ threads'[g][s] \in Thread \cup {NoThread}
          /\ FitWait(g, threads'[g][s])
          /\ threads'[g][s].state \notin {Zombie, Raised, StopAsked}
    BY <1>3, ReadyWaitsForNothing, ThreadStates DEF Running, Zombie, Raised, StopAsked
  <1>5. ThreadTypes'
    BY ThreadStates DEF ThreadTypes, Threads, Empty
  <1>6. ScheduleTypes' /\ FrameShape' /\ QuestionTypes'
    <2>1. 1 \in Group
      BY ProjectAssumption DEF Group
    <2>2. << 1 >> \in Seq(Group) /\ <<>> \in Seq(Group)
      BY <2>1
    <2> QED
      BY <2>2 DEF ScheduleTypes, FrameShape, QuestionTypes
  <1>7. ThreadsAreScheduled'
    <2>1. CASE threadGroups' = << 1 >>
      BY <1>1, <2>1 DEF ThreadsAreScheduled, Live, Scheduled, Range
    <2>2. CASE new = Empty
      BY <1>1, <2>2 DEF ThreadsAreScheduled, Live, Empty
    <2> QED
      BY <2>1, <2>2
  <1>8. EndedThreadsGo' /\ FitWaits'
    BY <1>4 DEF EndedThreadsGo, FitWaits, FitWait
  <1> QED
    BY <1>5, <1>6, <1>7, <1>8

LEMMA EmptyIsNew == Empty \in [Slot -> {Ready, NoThread}]
  BY DEF Empty

(* A stop of any kind. *)
LEMMA KillKeepsInv ==
  ASSUME SchedInv, KillAllThreadsAndExtras, threadGroups' = <<>>,
         phase' = "idle", todo' = {}, spawned' = <<>>, nextGroups' = <<>>
  PROVE  SchedInv'
  <1>1. threads' = [g \in Group |-> IF g = 1 THEN Empty ELSE Empty]
    BY DEF KillAllThreadsAndExtras
  <1>2. UNCHANGED questions
    BY DEF KillAllThreadsAndExtras, DiscardExtras, Q!DiscardQuestions
  <1> QED
    BY <1>1, <1>2, EmptyIsNew, AllThreadsGo

(* Nothing is left to do when all groups have had their turn. *)
LEMMA NothingLeft ==
  ASSUME SchedInv, AllGroupsDone
  PROVE  todo = {} /\ spawned = <<>>
  BY DEF SchedInv, FrameShape, AllGroupsDone

(* Between frames too. *)
LEMMA NothingBetweenFrames ==
  ASSUME SchedInv, phase # "running"
  PROVE  todo = {} /\ spawned = <<>> /\ nextGroups = <<>>
  BY DEF SchedInv, FrameShape

LEMMA EndAfterExceptionKeepsInv == SchedInv /\ EndFrameAfterException => SchedInv'
  BY KillKeepsInv, NothingLeft DEF EndFrameAfterException, NewFrame

LEMMA EndAfterStopKeepsInv == SchedInv /\ EndFrameAfterStop => SchedInv'
  BY KillKeepsInv, NothingLeft DEF EndFrameAfterStop, StopEverything, NewFrame

(* No thread that raised an exception or asked for a stop is overlooked:   *)
(* all threads are in groups of nextGroups, where one_frame looks.         *)
LEMMA EndKeepsInv ==
  ASSUME SchedInv, EndFrame, QuestionTypes'
  PROVE  SchedInv'
  <1> USE DEF SchedInv
  <1>1. /\ threadGroups = <<>> /\ spawned = <<>> /\ todo = {} /\ phase = "running"
        /\ phase' = "idle" /\ threadGroups' = nextGroups /\ nextGroups' = <<>>
        /\ UNCHANGED <<todo, spawned, threads>>
    BY NothingLeft DEF EndFrame, AllGroupsDone, NewFrame
  <1>2. \A g \in Group : Live(g) # {} => g \in Range(nextGroups)
    BY <1>1, RangeOfEmpty DEF ThreadsAreScheduled, Scheduled
  <1>3. \A g \in Group, s \in Slot :
          threads[g][s].state \notin {Zombie, Raised, StopAsked}
    <2> SUFFICES ASSUME NEW g \in Group, NEW s \in Slot,
                        threads[g][s].state \in {Zombie, Raised, StopAsked}
                 PROVE  FALSE
      OBVIOUS
    <2>1. threads[g][s] # NoThread
      BY ThreadStates DEF Zombie, Raised, StopAsked
    <2>2. g \in Range(nextGroups)
      BY <1>2, <2>1 DEF Live
    <2>3. threads[g][s].state # Zombie
      BY <1>1, RangeOfEmpty DEF EndedThreadsGo
    <2>4. ~SomeThread(Raised) /\ ~SomeThread(StopAsked)
      BY DEF EndFrame
    <2> QED
      BY <2>2, <2>3, <2>4 DEF SomeThread, InState
  <1>4. ThreadTypes'
    BY <1>1 DEF ThreadTypes
  <1>5. ScheduleTypes' /\ FrameShape'
    BY <1>1, EmptySeq DEF ScheduleTypes, FrameShape
  <1>6. ThreadsAreScheduled'
    BY <1>1, <1>2 DEF ThreadsAreScheduled, Live, Scheduled
  <1>7. EndedThreadsGo'
    BY <1>1, <1>3 DEF EndedThreadsGo
  <1>8. FitWaits'
    BY <1>1 DEF FitWaits, FitWait
  <1> QED
    BY <1>4, <1>5, <1>6, <1>7, <1>8

LEMMA FlagKeepsInv == SchedInv /\ OnGreenFlagClicked => SchedInv'
  <1> SUFFICES ASSUME SchedInv, OnGreenFlagClicked PROVE SchedInv'
    OBVIOUS
  <1>1. PICK new : new = NewThreads(GreenFlag, instances')
    OBVIOUS
  <1>2. new \in [Slot -> {Ready, NoThread}]
    BY <1>1, NewThreadsAreReady
  <1>3. /\ threads' = [g \in Group |-> IF g = 1 THEN new ELSE Empty]
        /\ threadGroups' = << 1 >>
        /\ UNCHANGED <<questions, phase, todo, spawned, nextGroups>>
        /\ phase = "idle"
    BY <1>1 DEF OnGreenFlagClicked, DiscardExtras, Q!DiscardQuestions, frameVars
  <1>4. todo = {} /\ spawned = <<>> /\ nextGroups = <<>>
    BY <1>3, NothingBetweenFrames
  <1> QED
    BY <1>2, <1>3, <1>4, AllThreadsGo

LEMMA RedStopKeepsInv == SchedInv /\ (OnRedStopClicked \/ RenderingFails) => SchedInv'
  BY KillKeepsInv, NothingBetweenFrames
  DEF OnRedStopClicked, RenderingFails, StopEverything, frameVars

(* Keys, clicks and synthetic broadcasts. *)
LEMMA StartsKeepInv ==
  ASSUME SchedInv,
         \/ \E key \in Key : LaunchKeypressHandlers(key)
         \/ \E i \in I!InstanceId : LaunchClickHandlers(i)
         \/ \E message \in Message : DoSyntheticBroadcast(message)
  PROVE  SchedInv'
  <1>1. PICK g \in Group : \E event, some :
          /\ threads' = [threads EXCEPT ![g] = NewThreads(event, some)]
          /\ threadGroups' = Append(threadGroups, g)
          /\ phase \in {"idle", "keys", "clicks"} /\ phase' \in {"idle", "keys", "clicks"}
          /\ UNCHANGED <<questions, todo, spawned, nextGroups>>
    BY DEF LaunchKeypressHandlers, LaunchClickHandlers, DoSyntheticBroadcast,
           questionVars, frameVars
  <1> QED
    BY <1>1, GroupStarts, NewThreadsAreReady

-----------------------------------------------------------------------------
(* The steps of a thread.                                                  *)

(* What the queue of questions does to the questions' types.               *)
LEMMA EnqueueTypes ==
  ASSUME QuestionTypes, Q!EnqueueQuestion
  PROVE  QuestionTypes' /\ Len(questions') \in Nat
  <1>1. PICK first \in {Q!Asking, Q!Waiting} :
          questions' = Append(questions, [state |-> first, value |-> Q!NoReply])
    BY DEF Q!EnqueueQuestion
  <1>2. [state |-> first, value |-> Q!NoReply] \in Q!UserQuestion
    BY DEF Q!UserQuestion, Q!QuestionState, Q!Asking, Q!Waiting
  <1> QED
    BY <1>1, <1>2, AppendProperties, LenProperties DEF QuestionTypes

(* One question replaced by another. *)
LEMMA ReplaceTypes ==
  ASSUME QuestionTypes, NEW k, NEW e,
         k \in 1..Len(questions) => e \in Q!UserQuestion,
         questions' = [questions EXCEPT ![k] = e]
  PROVE  QuestionTypes'
  <1>1. DOMAIN questions = 1..Len(questions)
    BY LenProperties DEF QuestionTypes
  <1>2. CASE k \in 1..Len(questions)
    BY <1>2, ExceptSeq DEF QuestionTypes
  <1>3. CASE k \notin 1..Len(questions)
    <2>1. questions' = questions
      BY <1>1, <1>3, LenProperties DEF QuestionTypes
    <2> QED
      BY <2>1 DEF QuestionTypes
  <1> QED
    BY <1>2, <1>3

LEMMA RetireTypes ==
  ASSUME QuestionTypes, Q!MaybeRetireAnsweredQuestion
  PROVE  QuestionTypes'
  <1>1. CASE UNCHANGED questions
    BY <1>1 DEF QuestionTypes
  <1>2. CASE questions' = [questions EXCEPT ![Head(Tail(queue))].state = Q!Asking]
    <2>1. PICK k : k = Head(Tail(queue))
      OBVIOUS
    <2>2. questions' = [questions EXCEPT ![k] = [questions[k] EXCEPT !.state = Q!Asking]]
      BY <1>2, <2>1
    <2>3. ASSUME k \in 1..Len(questions)
          PROVE  [questions[k] EXCEPT !.state = Q!Asking] \in Q!UserQuestion
      <3>1. questions[k] \in Q!UserQuestion
        BY <2>3, ElementOfSeq DEF QuestionTypes
      <3> QED
        BY <3>1 DEF Q!UserQuestion, Q!QuestionState
    <2> QED
      BY <2>2, <2>3, ReplaceTypes
  <1> QED
    BY <1>1, <1>2 DEF Q!MaybeRetireAnsweredQuestion, Q!RetireAnsweredQuestion

LEMMA AcceptTypes ==
  ASSUME QuestionTypes, NEW id \in Q!QuestionId, NEW text \in Answer,
         Q!AcceptQuestionAnswer(id, text)
  PROVE  QuestionTypes'
  <1>1. PICK k, e : /\ e = [state |-> Q!Answered, value |-> [to |-> id, text |-> text]]
                    /\ questions' = [questions EXCEPT ![k] = e]
    BY DEF Q!AcceptQuestionAnswer
  <1>2. [to |-> id, text |-> text] \in Q!Reply
    BY LenProperties DEF Q!Reply, Q!QuestionId, QuestionTypes
  <1>3. e \in Q!UserQuestion
    BY <1>1, <1>2 DEF Q!UserQuestion, Q!QuestionState
  <1> QED
    BY <1>1, <1>3, ReplaceTypes

LEMMA TurnKeepsInv ==
  ASSUME SchedInv, NEW s, Turn(s)
  PROVE  SchedInv'
  <1> USE DEF instanceVars, questionVars
  <1>1. QuestionTypes
    BY DEF SchedInv
  <1>2. ASSUME UNCHANGED questions PROVE QuestionTypes'
    BY <1>1, <1>2 DEF QuestionTypes
  <1>3. \A st \in {Running, Zombie, Raised, StopAsked, OnSound, OnTime, OnAnswer}, k \in Nat :
          LET t == [state |-> st, on |-> k]
          IN  t \in Thread /\ t.state # OnGroup /\ t.state = st /\ t.on = k
    BY DEF Thread, ThreadState, Running, Zombie, Raised, StopAsked, OnSound, OnTime, OnAnswer,
           OnGroup
  <1>4. ASSUME NEW st \in {Running, Zombie, Raised, StopAsked, OnSound, OnAnswer}, NEW k \in Nat,
               EndTurn(s, [state |-> st, on |-> k]), QuestionTypes'
        PROVE  SchedInv'
    <2>1. st # OnTime
      BY DEF Running, Zombie, Raised, StopAsked, OnSound, OnTime, OnAnswer
    <2> QED
      BY <1>3, <1>4, <2>1, TurnEnds
  <1>5. CASE EndTurn(s, Ready) /\ UNCHANGED questions
    BY <1>2, <1>4, <1>5 DEF Ready
  <1>6. CASE EndTurn(s, Dead) /\ UNCHANGED questions
    BY <1>2, <1>4, <1>6 DEF Dead
  <1>7. CASE Finish(s) \/ NextFrame(s) \/ PlaySound(s) \/ UnregisterRunningInstance(s)
    BY <1>5, <1>6, <1>7 DEF Finish, NextFrame, PlaySound, UnregisterRunningInstance
  <1>8. CASE Raise(s) \/ StopAllThreads(s)
    BY <1>2, <1>4, <1>8 DEF Raise, StopAllThreads
  <1>9. CASE PlaySoundAndWait(s)
    <2>1. PICK p \in Nat : EndTurn(s, [state |-> OnSound, on |-> p]) /\ UNCHANGED questions
      BY <1>9 DEF PlaySoundAndWait, NewPerformances, Performance
    <2> QED
      BY <1>2, <1>4, <2>1
  <1>10. CASE \E frames \in 1..MaxWait : WaitSeconds(s, frames)
    <2>1. PICK frames \in Nat : /\ frames > 0
                                /\ EndTurn(s, [state |-> OnTime, on |-> frames])
                                /\ UNCHANGED questions
      BY <1>10, ProjectAssumption DEF WaitSeconds
    <2> QED
      BY <1>2, <1>3, <2>1, TurnEnds
  <1>11. CASE AskAndWaitForAnswer(s)
    <2>1. QuestionTypes' /\ Len(questions') \in Nat
      BY <1>1, <1>11, EnqueueTypes DEF AskAndWaitForAnswer
    <2>2. PICK k \in Nat : EndTurn(s, [state |-> OnAnswer, on |-> k])
      BY <1>11, <2>1 DEF AskAndWaitForAnswer
    <2> QED
      BY <1>4, <2>1, <2>2
  <1>12. CASE \E message \in Message : Broadcast(s, message) \/ BroadcastAndWait(s, message)
    <2>1. PICK message \in Message : Broadcast(s, message) \/ BroadcastAndWait(s, message)
      BY <1>12
    <2>2. CASE Broadcast(s, message)
      <3>1. PICK g \in Group :
              /\ NewGroup(g) /\ UNCHANGED questions
              /\ EndTurnWithGroup(s, Ready, g, NewThreads(message, instances))
        BY <2>2 DEF Broadcast
      <3> QED
        BY <3>1, NewThreadsAreReady, TurnEndsWithGroup
    <2>3. CASE BroadcastAndWait(s, message)
      <3>1. PICK g \in Group :
              /\ NewGroup(g) /\ UNCHANGED questions
              /\ EndTurnWithGroup(s, [state |-> OnGroup, on |-> g], g,
                                  NewThreads(message, instances))
        BY <2>3 DEF BroadcastAndWait
      <3> QED
        BY <3>1, NewThreadsAreReady, TurnEndsWithGroup
    <2> QED
      BY <2>1, <2>2, <2>3
  <1>13. CASE \E parent \in I!Source : RegisterInstance(s, parent)
    <2>1. CASE EndTurn(s, Ready) /\ UNCHANGED questions
      BY <1>5, <2>1
    <2>2. CASE \E g \in Group : \E some :
                 /\ NewGroup(g) /\ UNCHANGED questions
                 /\ EndTurnWithGroup(s, Ready, g, NewThreads(Clone, some))
      BY <2>2, NewThreadsAreReady, TurnEndsWithGroup
    <2> QED
      BY <1>13, <2>1, <2>2 DEF RegisterInstance
  <1> QED
    BY <1>7, <1>8, <1>9, <1>10, <1>11, <1>12, <1>13 DEF Turn

-----------------------------------------------------------------------------
(* The specification.                                                      *)

LEMMA InitKeepsInv == Init => SchedInv
  <1> SUFFICES ASSUME Init PROVE SchedInv
    OBVIOUS
  <1>1. \A g \in Group, s \in Slot : threads[g][s] = NoThread
    BY DEF Init, Empty
  <1>2. ThreadTypes
    BY DEF Init, Empty, ThreadTypes, Threads
  <1>3. ScheduleTypes /\ FrameShape /\ QuestionTypes
    BY EmptySeq DEF Init, Q!Init, ScheduleTypes, FrameShape, QuestionTypes
  <1>4. ThreadsAreScheduled
    BY <1>1 DEF ThreadsAreScheduled, Live
  <1>5. EndedThreadsGo /\ FitWaits
    BY <1>1, ThreadStates DEF EndedThreadsGo, FitWaits, FitWait, Zombie, Raised, StopAsked,
         OnGroup, OnTime
  <1> QED
    BY <1>2, <1>3, <1>4, <1>5 DEF SchedInv

(* Steps which change nothing that SchedInv is about. *)
LEMMA OthersKeepInv ==
  ASSUME SchedInv, UNCHANGED <<threads, threadGroups, phase, todo, spawned, nextGroups>>,
         QuestionTypes'
  PROVE  SchedInv'
  BY DEF SchedInv, ThreadTypes, ScheduleTypes, FrameShape, ThreadsAreScheduled, Live, Scheduled,
         EndedThreadsGo, FitWaits, FitWait

LEMMA NextKeepsInv == SchedInv /\ [Next]_vars => SchedInv'
  <1> SUFFICES ASSUME SchedInv, [Next]_vars PROVE SchedInv'
    OBVIOUS
  <1>1. QuestionTypes
    BY DEF SchedInv
  <1>2. ASSUME UNCHANGED questions,
               UNCHANGED <<threads, threadGroups, phase, todo, spawned, nextGroups>>
        PROVE  SchedInv'
    BY <1>1, <1>2, OthersKeepInv DEF QuestionTypes
  <1>3. CASE UNCHANGED vars
    BY <1>2, <1>3 DEF vars
  <1>4. CASE \/ \E key \in Key : LaunchKeypressHandlers(key)
             \/ \E i \in I!InstanceId : LaunchClickHandlers(i)
             \/ \E message \in Message : DoSyntheticBroadcast(message)
    BY <1>4, StartsKeepInv
  <1>5. CASE WakeThreads
    BY <1>5, WakeKeepsInv
  <1>6. CASE \E s \in todo : Turn(s)
    BY <1>6, TurnKeepsInv
  <1>7. CASE \E s \in todo : \/ StopAllSounds(s)
                             \/ \E kind \in I!MoveKind, n \in Offset : MoveLayer(s, kind, n)
    BY <1>2, <1>7 DEF StopAllSounds, MoveLayer, questionVars, frameVars
  <1>8. CASE FinishGroup
    BY <1>8, FinishKeepsInv
  <1>9. CASE EndFrameAfterException \/ EndFrameAfterStop
    BY <1>9, EndAfterExceptionKeepsInv, EndAfterStopKeepsInv
  <1>10. CASE EndFrame
    <2>1. QuestionTypes'
      BY <1>1, <1>10, RetireTypes DEF EndFrame
    <2> QED
      BY <1>10, <2>1, EndKeepsInv
  <1>11. CASE OnGreenFlagClicked \/ OnRedStopClicked \/ RenderingFails
    BY <1>11, FlagKeepsInv, RedStopKeepsInv
  <1>12. CASE \E id \in Q!QuestionId, text \in Answer : AcceptQuestionAnswer(id, text)
    <2>1. QuestionTypes' /\ UNCHANGED <<threads, threadGroups, phase, todo, spawned, nextGroups>>
      BY <1>1, <1>12, AcceptTypes DEF AcceptQuestionAnswer, threadVars, frameVars
    <2> QED
      BY <2>1, OthersKeepInv
  <1>13. CASE \E p \in Performance : SoundEnds(p)
    BY <1>2, <1>13 DEF SoundEnds, questionVars, threadVars, frameVars
  <1> QED
    BY <1>3, <1>4, <1>5, <1>6, <1>7, <1>8, <1>9, <1>10, <1>11, <1>12, <1>13
    DEF Next, Frame, Client

(* Every thread is in a group which will have its turn, in every state:    *)
(* Project.one_frame and ThreadGroup.one_frame lose none.                  *)
THEOREM NoThreadIsLost == Spec => []ThreadsAreScheduled
  <1>1. SchedInv => ThreadsAreScheduled
    BY DEF SchedInv
  <1> QED
    BY <1>1, InitKeepsInv, NextKeepsInv, PTL DEF Spec

(* Thread.should_wake and wake never throw "thread in bad state".          *)
THEOREM WakingIsSafe == Spec => []NoBadStateAtWake
  <1>1. SchedInv => NoBadStateAtWake
    BY DEF SchedInv, EndedThreadsGo, NoBadStateAtWake
  <1> QED
    BY <1>1, InitKeepsInv, NextKeepsInv, PTL DEF Spec

(* A thread which waits for time to pass has a frame left to wait.         *)
THEOREM SleepersHaveTime == Spec => []TimersArePositive
  <1>1. SchedInv => TimersArePositive
    BY DEF SchedInv, FitWaits, FitWait, TimersArePositive
  <1> QED
    BY <1>1, InitKeepsInv, NextKeepsInv, PTL DEF Spec

(* A thread waits only for a group made after its own.                     *)
THEOREM WaitsGoToYounger == Spec => []WaitsForYounger
  <1>1. SchedInv => WaitsForYounger
    BY DEF SchedInv, FitWaits, FitWait, WaitsForYounger
  <1> QED
    BY <1>1, InitKeepsInv, NextKeepsInv, PTL DEF Spec

(* A set of groups has a youngest. *)
LEMMA Youngest ==
  ASSUME NEW G \in SUBSET Group, G # {}
  PROVE  \E g \in G : \A h \in G : h <= g
  <1>1. MaxGroups \in Nat /\ \A g \in G : g \in Nat /\ g >= 1 /\ g <= MaxGroups
    BY ProjectAssumption DEF Group
  <1> DEFINE T == {MaxGroups - g : g \in G}
  <1>2. T \subseteq Nat /\ T # {}
    BY <1>1
  <1>3. PICK x \in T : \A y \in T : ~(<<y, x>> \in OpToRel(<, Nat))
    BY <1>2, WFMin, NatLessThanWellFounded
  <1>4. PICK g \in G : x = MaxGroups - g
    OBVIOUS
  <1>5. ASSUME NEW h \in G PROVE h <= g
    <2>1. MaxGroups - h \in T /\ MaxGroups - h \in Nat
      BY <1>1
    <2>2. ~(MaxGroups - h < x)
      BY <1>2, <1>3, <2>1 DEF OpToRel
    <2> QED
      BY <1>1, <1>4, <2>2
  <1> QED
    BY <1>5

(* No deadlock among threads that broadcast and wait: in any set of groups *)
(* the youngest waits for none of the others.                              *)
THEOREM NobodyWaitsInACircle == Spec => []NoWaitCycle
  <1>1. ASSUME SchedInv, NEW G \in SUBSET Group, G # {}
        PROVE  \E g \in G : \A s \in Slot :
                 threads[g][s].state = OnGroup => threads[g][s].on \notin G
    <2>1. PICK g \in G : \A h \in G : h <= g
      BY <1>1, Youngest
    <2>2. ASSUME NEW s \in Slot, threads[g][s].state = OnGroup, threads[g][s].on \in G
          PROVE  FALSE
      <3>1. g < threads[g][s].on /\ threads[g][s].on <= g
        BY <1>1, <2>1, <2>2 DEF SchedInv, FitWaits, FitWait
      <3>2. Group \subseteq Nat
        BY DEF Group
      <3>3. g \in Nat /\ threads[g][s].on \in Nat
        BY <2>2, <3>2
      <3> QED
        BY <3>1, <3>3
    <2> QED
      BY <2>2
  <1>2. SchedInv => NoWaitCycle
    BY <1>1 DEF NoWaitCycle
  <1> QED
    BY <1>2, InitKeepsInv, NextKeepsInv, PTL DEF Spec

-----------------------------------------------------------------------------
(* Questions.                                                              *)

QP == INSTANCE Questions_proofs
IP == INSTANCE Instances_proofs

(* Of a turn, only a question asked changes the queue.                     *)
LEMMA TurnAsks ==
  ASSUME NEW s, Turn(s)
  PROVE  Q!EnqueueQuestion \/ UNCHANGED questionVars
  BY DEF Turn, Finish, Raise, NextFrame, Broadcast, BroadcastAndWait, PlaySound, PlaySoundAndWait,
     WaitSeconds, RegisterInstance, UnregisterRunningInstance, AskAndWaitForAnswer, StopAllThreads

(* Every step does to the queue what Questions allows.                     *)
LEMMA QuestionsStep == [Next]_vars => [Q!Next]_(Q!questionVars)
  <1> SUFFICES ASSUME [Next]_vars, ~UNCHANGED questionVars PROVE Q!Next
    BY DEF questionVars, Q!questionVars
  <1>1. CASE \E s \in todo : Turn(s)
    BY <1>1, TurnAsks DEF Q!Next
  <1>2. CASE \E s \in todo : \/ StopAllSounds(s)
                             \/ \E kind \in I!MoveKind, n \in Offset : MoveLayer(s, kind, n)
    BY <1>2 DEF StopAllSounds, MoveLayer
  <1>3. CASE \/ \E key \in Key : LaunchKeypressHandlers(key)
             \/ \E i \in I!InstanceId : LaunchClickHandlers(i)
             \/ \E message \in Message : DoSyntheticBroadcast(message)
             \/ WakeThreads \/ FinishGroup
             \/ \E p \in Performance : SoundEnds(p)
    BY <1>3 DEF LaunchKeypressHandlers, LaunchClickHandlers, DoSyntheticBroadcast, WakeThreads,
                FinishGroup, SoundEnds
  <1>4. CASE \/ EndFrameAfterException \/ EndFrameAfterStop
             \/ OnGreenFlagClicked \/ OnRedStopClicked \/ RenderingFails
    BY <1>4 DEF EndFrameAfterException, EndFrameAfterStop, OnGreenFlagClicked, OnRedStopClicked,
         RenderingFails, StopEverything, KillAllThreadsAndExtras, DiscardExtras, Q!Next
  <1>5. CASE EndFrame
    BY <1>5 DEF EndFrame, Q!MaybeRetireAnsweredQuestion, Q!Next, questionVars
  <1>6. CASE \E id \in Q!QuestionId, text \in Answer : AcceptQuestionAnswer(id, text)
    BY <1>6 DEF AcceptQuestionAnswer, Q!Next
  <1>7. CASE UNCHANGED vars
    BY <1>7 DEF vars, questionVars
  <1> QED
    BY <1>1, <1>2, <1>3, <1>4, <1>5, <1>6, <1>7 DEF Next, Frame, Client

(* All that threads, frames and the client do to the queue of questions is *)
(* what Questions allows, so that its properties hold in a project.        *)
THEOREM QuestionsAreAskedAsSpecified == Spec => QuestionsSpec
  <1>1. Init => Q!Init
    BY DEF Init
  <1> QED
    BY <1>1, QuestionsStep, PTL DEF Spec, QuestionsSpec, Q!Spec

(* Questions, as Project composes it, is the Questions of the proofs.      *)
LEMMA SameQueue ==
  /\ Q!Init => QP!Init
  /\ [Q!Next]_(Q!questionVars) => [QP!Next]_(QP!questionVars)
  <1>1. Q!Init => QP!Init
    BY DEF Q!Init, QP!Init
  <1>2. ASSUME Q!Next PROVE QP!Next
    <2>1. CASE Q!EnqueueQuestion
      BY <2>1 DEF Q!EnqueueQuestion, QP!EnqueueQuestion, QP!Next, QP!Asking, QP!Waiting,
         QP!NoReply, Q!Asking, Q!Waiting, Q!NoReply
    <2>2. CASE \E id \in Q!QuestionId, text \in Answer : Q!AcceptQuestionAnswer(id, text)
      BY <2>2 DEF Q!AcceptQuestionAnswer, QP!AcceptQuestionAnswer, Q!CanAccept, QP!CanAccept,
         QP!Next, Q!QuestionId, QP!QuestionId, Q!Answered, QP!Answered, Q!Asking, QP!Asking
    <2>3. CASE Q!RetireAnsweredQuestion
      BY <2>3 DEF Q!RetireAnsweredQuestion, QP!RetireAnsweredQuestion, QP!Next, Q!IsAnswered,
           QP!IsAnswered, Q!Answered, QP!Answered, Q!Asking, QP!Asking
    <2>4. CASE Q!DiscardQuestions
      BY <2>4 DEF Q!DiscardQuestions, QP!DiscardQuestions, QP!Next
    <2> QED
      BY <1>2, <2>1, <2>2, <2>3, <2>4 DEF Q!Next
  <1> QED
    BY <1>1, <1>2 DEF Q!questionVars, QP!questionVars

(* The invariant of the queue holds in a project.                          *)
LEMMA QueueHolds == Spec => []QP!QueueInv
  <1>1. Init => QP!QueueInv
    BY QP!InitInv, SameQueue , ProjectAssumption, QP!MaxQuestionsAssumption DEF Init
  <1>2. QP!QueueInv /\ [Next]_vars => QP!QueueInv'
    BY QP!NextInv, SameQueue, QuestionsStep, ProjectAssumption
  <1> QED
    BY <1>1, <1>2, PTL DEF Spec

-----------------------------------------------------------------------------
(* Who waits for which answer.                                             *)

(* What QueueInv says of the queue, in the words of Project.               *)
LEMMA QueueFacts ==
  ASSUME QP!QueueInv
  PROVE  /\ questions \in Seq(Q!UserQuestion) /\ queue \in Seq(Nat)
         /\ Len(questions) \in Nat /\ Len(queue) \in Nat
         /\ \A k \in 1..Len(queue) : /\ queue[k] = Len(questions) - Len(queue) + k
                                     /\ queue[k] \in Q!QuestionId
         /\ queue # <<>> => questions[Head(queue)].state # Q!Waiting
  <1>1. questions \in Seq(Q!UserQuestion) /\ queue \in Seq(Nat)
    BY DEF QP!QueueInv, QP!TypeOK, QP!UserQuestion, Q!UserQuestion, QP!QuestionState,
           Q!QuestionState, QP!Reply, Q!Reply, QP!NoReply, Q!NoReply, QP!Asking, Q!Asking,
           QP!Waiting, Q!Waiting, QP!Answered, Q!Answered
  <1>2. Len(questions) \in Nat /\ Len(queue) \in Nat
    BY <1>1, LenProperties
  <1>3. /\ Len(queue) <= Len(questions)
        /\ \A k \in 1..Len(queue) : queue[k] = Len(questions) - Len(queue) + k
        /\ \A k \in 1..Len(queue) : questions[queue[k]].state = Q!Waiting <=> k > 1
    BY DEF QP!QueueInv, QP!QueueIsSuffix, QP!HeadAlone, QP!Waiting, Q!Waiting
  <1>4. queue # <<>> => 1 \in 1..Len(queue) /\ Head(queue) = queue[1]
    BY <1>1, <1>2, EmptySeq
  <1> QED
    BY <1>1, <1>2, <1>3, <1>4 DEF Q!QuestionId

(* A question that a thread may still get its answer from. *)
Open(q) == q \in Q!QuestionId /\ (Q!IsAnswered(q) \/ Q!InQueue(q))

(* Enqueuing, answering and retiring questions leave the others so. *)
LEMMA EnqueueKeepsOpen ==
  ASSUME QP!QueueInv, Q!EnqueueQuestion
  PROVE  /\ \A q : Open(q) => Open(q)'
         /\ Len(questions') = Len(questions) + 1
         /\ Open(Len(questions))'
         /\ \A q : Open(q) => q # Len(questions')
  <1>1. PICK e \in Q!UserQuestion : /\ questions' = Append(questions, e)
                                    /\ queue' = Append(queue, Len(questions) + 1)
    BY DEF Q!EnqueueQuestion, Q!UserQuestion, Q!QuestionState, Q!Waiting, Q!Asking
  <1>2. /\ questions \in Seq(Q!UserQuestion) /\ queue \in Seq(Nat)
        /\ Len(questions) \in Nat /\ Len(queue) \in Nat
    BY QueueFacts
  <1>3. /\ Len(questions') = Len(questions) + 1
        /\ \A q \in 1..Len(questions) : questions'[q] = questions[q]
    BY <1>1, <1>2, AppendProperties
  <1>4. /\ Len(queue') = Len(queue) + 1
        /\ \A k \in 1..Len(queue) : queue'[k] = queue[k]
        /\ queue'[Len(queue) + 1] = Len(questions) + 1
    BY <1>1, <1>2, AppendProperties
  <1>5. ASSUME NEW q, Open(q) PROVE Open(q)' /\ q # Len(questions')
    <2>1. q \in 1..Len(questions) /\ q \in 1..Len(questions') /\ q # Len(questions')
      BY <1>2, <1>3, <1>5 DEF Open, Q!QuestionId
    <2>2. Q!InQueue(q) => Q!InQueue(q)'
      BY <1>2, <1>4 DEF Q!InQueue
    <2> QED
      BY <1>3, <1>5, <2>1, <2>2 DEF Open, Q!QuestionId, Q!IsAnswered
  <1>6. Open(Len(questions))'
    BY <1>2, <1>3, <1>4 DEF Open, Q!QuestionId, Q!InQueue
  <1> QED
    BY <1>3, <1>5, <1>6

LEMMA AcceptKeepsOpen ==
  ASSUME QP!QueueInv, NEW id \in Q!QuestionId, NEW text \in Answer,
         Q!AcceptQuestionAnswer(id, text)
  PROVE  \A q : Open(q) => Open(q)'
  <1>1. PICK e : /\ e.state = Q!Answered
                 /\ questions' = [questions EXCEPT ![id] = e]
                 /\ queue' = queue
    BY DEF Q!AcceptQuestionAnswer, Q!CanAccept
  <1>2. questions \in Seq(Q!UserQuestion) /\ DOMAIN questions = 1..Len(questions)
    BY QueueFacts, LenProperties
  <1>3. /\ DOMAIN questions' = DOMAIN questions
        /\ \A q \in 1..Len(questions) : questions'[q] = IF q = id THEN e ELSE questions[q]
    BY <1>1, <1>2
  <1>4. Len(questions') = Len(questions)
    BY <1>1, <1>2, <1>3, AcceptTypes, LenProperties, QueueFacts DEF QuestionTypes
  <1> QED
    BY <1>1, <1>3, <1>4 DEF Open, Q!QuestionId, Q!IsAnswered, Q!InQueue

(* A question that is retired has been answered.                           *)
LEMMA RetireKeepsOpen ==
  ASSUME QP!QueueInv, Q!MaybeRetireAnsweredQuestion
  PROVE  /\ \A q : Open(q) => Open(q)'
         /\ queue' # <<>> => questions'[Head(queue')].state = Q!Asking
  <1>1. /\ questions \in Seq(Q!UserQuestion) /\ queue \in Seq(Nat)
        /\ Len(questions) \in Nat /\ Len(queue) \in Nat
        /\ \A k \in 1..Len(queue) : /\ queue[k] = Len(questions) - Len(queue) + k
                                    /\ queue[k] \in Q!QuestionId
        /\ queue # <<>> => questions[Head(queue)].state # Q!Waiting
    BY QueueFacts
  <1>2. queue # <<>> => Head(queue) = queue[1] /\ 1 \in 1..Len(queue)
    BY <1>1, EmptySeq
  <1>3. \A q \in Q!QuestionId : questions[q].state \in Q!QuestionState
    <2>1. \A q \in Q!QuestionId : questions[q] \in Q!UserQuestion
      BY <1>1, ElementOfSeq DEF Q!QuestionId
    <2> QED
      BY <2>1 DEF Q!UserQuestion
  <1>4. CASE UNCHANGED <<questions, queue>> /\ ~(queue # <<>> /\ Q!IsAnswered(Head(queue)))
    <2>1. queue # <<>> => questions[Head(queue)].state = Q!Asking
      BY <1>1, <1>2, <1>3, <1>4 DEF Q!IsAnswered, Q!QuestionState
    <2> QED
      BY <1>4, <2>1 DEF Open, Q!QuestionId, Q!IsAnswered, Q!InQueue
  <1>5. CASE Q!RetireAnsweredQuestion
    <2>1. /\ queue # <<>> /\ questions[Head(queue)].state = Q!Answered
          /\ queue' = Tail(queue)
      BY <1>5 DEF Q!RetireAnsweredQuestion, Q!IsAnswered
    <2>2. /\ queue' \in Seq(Nat) /\ Len(queue') = Len(queue) - 1
          /\ \A k \in 1..Len(queue') : queue'[k] = queue[k + 1]
      BY <1>1, <2>1, HeadTailProperties
    <2>3. queue' # <<>> => 1 \in 1..Len(queue') /\ Head(queue') = queue'[1]
      BY <2>2, EmptySeq, LenProperties
    <2>4. queue' # <<>> => Head(queue') \in Q!QuestionId /\ Head(queue') # Head(queue)
      BY <1>1, <1>2, <2>1, <2>2, <2>3
    <2>5. PICK head : head = Head(queue')
      OBVIOUS
    <2>6. /\ DOMAIN questions' = DOMAIN questions
          /\ \A q \in Q!QuestionId :
               /\ q # head \/ queue' = <<>> => questions'[q] = questions[q]
               /\ q = head /\ queue' # <<>> => questions'[q].state = Q!Asking
      <3>1. DOMAIN questions = Q!QuestionId
        BY <1>1, LenProperties DEF Q!QuestionId
      <3>2. CASE queue' = <<>>
        BY <1>5, <2>1, <3>2 DEF Q!RetireAnsweredQuestion
      <3>3. CASE queue' # <<>>
        <4>1. PICK e : e = [questions[head] EXCEPT !.state = Q!Asking]
          OBVIOUS
        <4>2. questions[head] \in Q!UserQuestion
          BY <1>1, <2>4, <2>5, <3>3, ElementOfSeq DEF Q!QuestionId
        <4>3. e.state = Q!Asking
          BY <4>1, <4>2 DEF Q!UserQuestion
        <4>4. questions' = [questions EXCEPT ![head] = e]
          BY <1>5, <2>1, <2>5, <3>3, <4>1 DEF Q!RetireAnsweredQuestion
        <4>5. head \in DOMAIN questions
          BY <2>4, <2>5, <3>1, <3>3
        <4> QED
          BY <3>1, <3>3, <4>3, <4>4, <4>5
      <3> QED
        BY <3>2, <3>3
    <2>7. Len(questions') = Len(questions)
      BY <1>1, <2>6, LenProperties, RetireTypes DEF QuestionTypes, Q!MaybeRetireAnsweredQuestion
    <2>8. \A q : Q!InQueue(q) => q = Head(queue) \/ Q!InQueue(q)'
      <3> SUFFICES ASSUME NEW k \in 1..Len(queue), k # 1
                   PROVE  \E j \in 1..Len(queue') : queue'[j] = queue[k]
        BY <1>2 DEF Q!InQueue
      <3>1. k - 1 \in 1..Len(queue') /\ queue'[k - 1] = queue[k]
        BY <1>1, <2>2
      <3> QED
        BY <3>1
    <2>9. queue' # <<>> => Q!InQueue(head)'
      BY <2>3, <2>5 DEF Q!InQueue
    <2>10. ASSUME NEW q, Open(q) PROVE Open(q)'
      <3>1. q \in Q!QuestionId /\ q \in Q!QuestionId'
        BY <2>7, <2>10 DEF Open, Q!QuestionId
      <3>2. CASE q = head /\ queue' # <<>>
        BY <2>9, <3>1, <3>2 DEF Open
      <3>3. CASE q # head \/ queue' = <<>>
        <4>1. Q!IsAnswered(q) \/ Q!InQueue(q)'
          BY <2>1, <2>8, <2>10 DEF Open, Q!IsAnswered
        <4>2. Q!IsAnswered(q) => Q!IsAnswered(q)'
          BY <2>6, <3>1, <3>3 DEF Q!IsAnswered
        <4> QED
          BY <3>1, <4>1, <4>2 DEF Open
      <3> QED
        BY <3>2, <3>3
    <2> QED
      BY <2>4, <2>5, <2>6, <2>10
  <1> QED
    BY <1>4, <1>5 DEF Q!MaybeRetireAnsweredQuestion

(* In these terms, AskersWillBeAnswered. *)
LEMMA AskersAsOpen ==
  AskersWillBeAnswered <=>
    \A g, h \in Group, s, t \in Slot :
      threads[g][s].state = OnAnswer =>
        /\ Open(threads[g][s].on)
        /\ threads[h][t] = threads[g][s] => g = h /\ s = t
  BY DEF AskersWillBeAnswered, Open

(* No thread comes to wait for an answer, or raises an exception. *)
NoNew(st) ==
  \A g \in Group, s \in Slot :
    threads'[g][s].state = st => threads'[g][s] = threads[g][s]

(* Threads that wait go on waiting for a question that is open.            *)
LEMMA AskersStay ==
  ASSUME AskersWillBeAnswered, NoNew(OnAnswer), \A q : Open(q) => Open(q)'
  PROVE  AskersWillBeAnswered'
  BY DEF AskersWillBeAnswered, NoNew, Open

(* Threads that are ready, dead or not there neither ask nor raise.        *)
LEMMA ReadyIsNeither ==
  ASSUME NEW t \in {Ready, Dead, NoThread}
  PROVE  t.state \notin {OnAnswer, Raised}
  BY ThreadStates DEF Ready, Dead, NoThread, Running, Zombie, OnAnswer, Raised

(* When all threads go, no one waits. *)
LEMMA NobodyAsks ==
  ASSUME NEW new \in [Slot -> {Ready, NoThread}], NEW k,
         threads' = [g \in Group |-> IF g = k THEN new ELSE Empty]
  PROVE  AskersWillBeAnswered'
  <1>1. \A g \in Group, s \in Slot : threads'[g][s] \in {Ready, NoThread}
    BY DEF Empty
  <1> QED
    BY <1>1, ReadyIsNeither DEF AskersWillBeAnswered

(* New threads neither ask nor raise.                                      *)
LEMMA StartsAddNone ==
  ASSUME SchedInv, NEW st \in {OnAnswer, Raised},
         NEW g \in Group, NEW new \in [Slot -> {Ready, NoThread}],
         threads' = [threads EXCEPT ![g] = new]
  PROVE  NoNew(st)
  <1>1. \A h \in Group, s \in Slot :
          threads'[h][s] = IF h = g THEN new[s] ELSE threads[h][s]
    BY DEF SchedInv, ThreadTypes
  <1>2. \A s \in Slot : new[s] \in {Ready, NoThread}
    OBVIOUS
  <1> QED
    BY <1>1, <1>2, ReadyIsNeither DEF NoNew

(* What the end of a turn does to the threads. *)
LEMMA TurnChanges ==
  ASSUME SchedInv, NEW s, NEW t, EndTurn(s, t)
  PROVE  /\ Current \in Group /\ s \in Slot
         /\ \A h \in Group, x \in Slot :
              threads'[h][x] = IF h = Current /\ x = s THEN t ELSE threads[h][x]
  <1>1. s \in Slot /\ Current \in Group
    BY CurrentIsScheduled DEF EndTurn
  <1>2. PICK c \in Group : c = Current
    BY <1>1
  <1>3. threads' = [threads EXCEPT ![c][s] = t]
    BY <1>2 DEF EndTurn
  <1> QED
    BY <1>1, <1>2, <1>3 DEF SchedInv, ThreadTypes, Threads

LEMMA TurnWithGroupChanges ==
  ASSUME SchedInv, NEW s, NEW t, NEW g \in Group, NewGroup(g),
         NEW new \in [Slot -> {Ready, NoThread}], EndTurnWithGroup(s, t, g, new)
  PROVE  /\ Current \in Group /\ s \in Slot /\ Current # g
         /\ threads'[g] = new
         /\ \A h \in Group, x \in Slot :
              /\ h = Current /\ x = s => threads'[h][x] = t
              /\ h # g /\ ~(h = Current /\ x = s) => threads'[h][x] = threads[h][x]
  <1>1. s \in Slot /\ Current \in Group /\ Current \in Scheduled
    BY CurrentIsScheduled DEF EndTurnWithGroup, Scheduled
  <1>2. PICK c \in Group : c = Current
    BY <1>1
  <1>3. threads' = [threads EXCEPT ![c][s] = t, ![g] = new]
    BY <1>2 DEF EndTurnWithGroup
  <1>4. c < g /\ c \in Nat
    BY <1>1, <1>2 DEF NewGroup, IsNewGroup, Group
  <1> QED
    BY <1>1, <1>2, <1>3, <1>4 DEF SchedInv, ThreadTypes, Threads

LEMMA TurnAddsNone ==
  ASSUME SchedInv, NEW st \in {OnAnswer, Raised}, NEW s,
         \/ \E t : EndTurn(s, t) /\ t.state # st
         \/ \E t : \E g \in Group, new \in [Slot -> {Ready, NoThread}] :
              EndTurnWithGroup(s, t, g, new) /\ NewGroup(g) /\ t.state # st
  PROVE  NoNew(st)
  <1>1. ASSUME NEW t, EndTurn(s, t), t.state # st PROVE NoNew(st)
    BY <1>1, TurnChanges DEF NoNew
  <1>2. ASSUME NEW t, NEW g \in Group, NEW new \in [Slot -> {Ready, NoThread}],
               EndTurnWithGroup(s, t, g, new), NewGroup(g), t.state # st
        PROVE  NoNew(st)
    <2>1. \A x \in Slot : new[x] \in {Ready, NoThread}
      OBVIOUS
    <2>2. \A x \in Slot : new[x].state # st
      BY <2>1, ReadyIsNeither
    <2>3. EndTurnWithGroup(s, t, g, new) /\ NewGroup(g)
      BY <1>2
    <2>4. /\ threads'[g] = new
          /\ \A h \in Group, x \in Slot :
               /\ h = Current /\ x = s => threads'[h][x] = t
               /\ h # g /\ ~(h = Current /\ x = s) => threads'[h][x] = threads[h][x]
      BY ONLY <2>3, SchedInv, TurnWithGroupChanges
    <2> QED
      BY <1>2, <2>2, <2>4 DEF NoNew
  <1> QED
    BY <1>1, <1>2

(* Of the system calls, one alone makes a thread wait for an answer. *)
LEMMA TurnStates ==
  ASSUME NEW s, Turn(s), NEW st \in {OnAnswer, Raised},
         st = OnAnswer => ~AskAndWaitForAnswer(s),
         st = Raised => ~Raise(s)
  PROVE  \/ \E t : EndTurn(s, t) /\ t.state # st
         \/ \E t : \E g \in Group, new \in [Slot -> {Ready, NoThread}] :
              EndTurnWithGroup(s, t, g, new) /\ NewGroup(g) /\ t.state # st
  <1>1. \A v \in ThreadState \ {st} : \A k : [state |-> v, on |-> k].state # st
    OBVIOUS
  <1>2. /\ Ready.state # st /\ Dead.state # st
        /\ {StopAsked, OnSound, OnTime, OnGroup} \subseteq ThreadState \ {st}
        /\ st = OnAnswer => Raised \in ThreadState \ {st}
        /\ st = Raised => OnAnswer \in ThreadState \ {st}
    BY ReadyIsNeither DEF ThreadState, Raised, StopAsked, OnSound, OnTime, OnGroup, OnAnswer,
       Running, Zombie
  <1>3. CASE Finish(s) \/ NextFrame(s) \/ PlaySound(s) \/ UnregisterRunningInstance(s)
    BY <1>2, <1>3 DEF Finish, NextFrame, PlaySound, UnregisterRunningInstance
  <1>4. CASE StopAllThreads(s) \/ PlaySoundAndWait(s)
    BY <1>1, <1>2, <1>4 DEF StopAllThreads, PlaySoundAndWait
  <1>5. CASE (st = OnAnswer /\ Raise(s)) \/ (st = Raised /\ AskAndWaitForAnswer(s))
    BY <1>1, <1>2, <1>5 DEF Raise, AskAndWaitForAnswer
  <1>6. CASE \E frames \in 1..MaxWait : WaitSeconds(s, frames)
    BY <1>1, <1>2, <1>6 DEF WaitSeconds
  <1>7. CASE \E message \in Message : Broadcast(s, message) \/ BroadcastAndWait(s, message)
    <2>1. PICK message \in Message, g \in Group :
            /\ NewGroup(g)
            /\ \/ EndTurnWithGroup(s, Ready, g, NewThreads(message, instances))
               \/ EndTurnWithGroup(s, [state |-> OnGroup, on |-> g], g,
                                   NewThreads(message, instances))
      BY <1>7 DEF Broadcast, BroadcastAndWait
    <2>2. PICK new \in [Slot -> {Ready, NoThread}] : new = NewThreads(message, instances)
      BY NewThreadsAreReady
    <2> QED
      BY <1>1, <1>2, <2>1, <2>2
  <1>8. CASE \E parent \in I!Source : RegisterInstance(s, parent)
    <2>1. PICK parent : RegisterInstance(s, parent)
      BY <1>8
    <2>2. PICK new \in [Slot -> {Ready, NoThread}] :
            new = NewThreads(Clone, [a \in I!Actor |-> instances'[a] \ instances[a]])
      BY NewThreadsAreReady
    <2> QED
      BY <1>2, <2>1, <2>2 DEF RegisterInstance
  <1>9. \/ Finish(s) \/ NextFrame(s) \/ PlaySound(s) \/ UnregisterRunningInstance(s)
        \/ StopAllThreads(s) \/ PlaySoundAndWait(s)
        \/ (st = OnAnswer /\ Raise(s)) \/ (st = Raised /\ AskAndWaitForAnswer(s))
        \/ \E frames \in 1..MaxWait : WaitSeconds(s, frames)
        \/ \E message \in Message : Broadcast(s, message) \/ BroadcastAndWait(s, message)
        \/ \E parent \in I!Source : RegisterInstance(s, parent)
    BY DEF Turn
  <1> QED
    BY ONLY <1>3, <1>4, <1>5, <1>6, <1>7, <1>8, <1>9

LEMMA WakeAddsNone ==
  ASSUME SchedInv, WakeThreads, NEW st \in {OnAnswer, Raised}
  PROVE  NoNew(st)
  <1> SUFFICES ASSUME NEW g \in Group, NEW s \in Slot, threads'[g][s].state = st
               PROVE  threads'[g][s] = threads[g][s]
    BY DEF NoNew
  <1> DEFINE v == Culled(threads[g][s], s)
  <1>1. threads'[g][s] \in {MaybeWoken(v), threads[g][s]}
    BY DEF WakeThreads
  <1>2. CASE threads'[g][s] = MaybeWoken(v)
    <2>1. ~ShouldWake(v) /\ v # Dead
      BY <1>2, ReadyIsNeither, ThreadStates DEF MaybeWoken, ShouldWake, Zombie, OnGroup, OnTime,
         OnSound, OnAnswer
    <2>2. v = threads[g][s] /\ threads[g][s] \in Thread \cup {NoThread}
      BY <2>1 DEF Culled, SchedInv, ThreadTypes, Threads
    <2>3. v.state # OnTime
      <3>1. SUFFICES ASSUME v.state = OnTime PROVE FALSE
        OBVIOUS
      <3>2. v \in Thread
        BY <2>2, <3>1, ThreadStates DEF OnTime
      <3>3. [v EXCEPT !.on = @ - 1].state = OnTime
        BY <3>1, <3>2 DEF Thread
      <3>4. MaybeWoken(v) = [v EXCEPT !.on = @ - 1]
        BY <2>1, <3>1 DEF MaybeWoken
      <3> QED
        BY <1>2, <3>3, <3>4 DEF OnTime, OnAnswer, Raised
    <2> QED
      BY <1>2, <2>1, <2>2, <2>3 DEF MaybeWoken
  <1> QED
    BY <1>1, <1>2

LEMMA FinishAddsNone ==
  ASSUME SchedInv, FinishGroup, NEW st \in {OnAnswer, Raised}
  PROVE  NoNew(st)
  <1>1. PICK c \in Group : c = Current
    BY RangeOfTail DEF FinishGroup, Current, SchedInv, ScheduleTypes
  <1>2. PICK left : /\ left = [s \in Slot |-> IF threads[c][s].state = Zombie THEN NoThread
                                              ELSE threads[c][s]]
                    /\ threads' = [threads EXCEPT ![c] = left]
    BY <1>1 DEF FinishGroup
  <1>3. \A h \in Group, x \in Slot :
          threads'[h][x] = IF h = c THEN left[x] ELSE threads[h][x]
    BY <1>2 DEF SchedInv, ThreadTypes
  <1>4. \A x \in Slot : left[x] = NoThread \/ left[x] = threads[c][x]
    BY <1>2
  <1> QED
    BY <1>3, <1>4, ReadyIsNeither DEF NoNew

LEMMA AskKeepsAskers ==
  ASSUME SchedInv, QP!QueueInv, AskersWillBeAnswered, NEW s, AskAndWaitForAnswer(s)
  PROVE  AskersWillBeAnswered'
  <1>1. /\ \A q : Open(q) => Open(q)' /\ q # Len(questions')
        /\ Open(Len(questions))'
    BY EnqueueKeepsOpen DEF AskAndWaitForAnswer
  <1>2. PICK t : t = [state |-> OnAnswer, on |-> Len(questions')]
    OBVIOUS
  <1>3. /\ Current \in Group /\ s \in Slot
        /\ \A h \in Group, x \in Slot :
             threads'[h][x] = IF h = Current /\ x = s THEN t ELSE threads[h][x]
    BY <1>2, TurnChanges DEF AskAndWaitForAnswer
  <1>4. t.state = OnAnswer /\ t.on = Len(questions')
    BY <1>2
  <1>5. \A q : Open(q) => q # t.on
    BY <1>1, <1>4
  <1>6. \A g \in Group, x \in Slot :
          threads[g][x].state = OnAnswer =>
            /\ Open(threads[g][x].on)
            /\ threads[g][x] # t
            /\ \A h \in Group, y \in Slot : threads[h][y] = threads[g][x] => g = h /\ x = y
    BY <1>5, AskersAsOpen
  <1>7. ASSUME NEW g \in Group, NEW x \in Slot, threads'[g][x].state = OnAnswer
        PROVE  Open(threads[g][x].on)'
    <2>1. CASE g = Current /\ x = s
      BY <1>1, <1>3, <1>4, <2>1
    <2>2. CASE ~(g = Current /\ x = s)
      <3>1. threads'[g][x] = threads[g][x] /\ Open(threads[g][x].on)
        BY <1>3, <1>6, <1>7, <2>2
      <3> QED
        BY <1>1, <3>1
    <2> QED
      BY <2>1, <2>2
  <1>8. ASSUME NEW g \in Group, NEW x \in Slot, threads'[g][x].state = OnAnswer,
               NEW h \in Group, NEW y \in Slot, threads'[h][y] = threads'[g][x]
        PROVE  g = h /\ x = y
    BY <1>3, <1>4, <1>6, <1>8
  <1> QED
    BY <1>7, <1>8 DEF AskersWillBeAnswered, Open

LEMMA TurnKeepsAskers ==
  ASSUME SchedInv, QP!QueueInv, AskersWillBeAnswered, NEW s, Turn(s)
  PROVE  AskersWillBeAnswered'
  <1>1. CASE AskAndWaitForAnswer(s)
    BY <1>1, AskKeepsAskers
  <1>2. CASE ~AskAndWaitForAnswer(s)
    <2>1. UNCHANGED questionVars
      BY <1>2 DEF Turn, Finish, Raise, NextFrame, Broadcast, BroadcastAndWait, PlaySound,
         PlaySoundAndWait, WaitSeconds, RegisterInstance, UnregisterRunningInstance,
         StopAllThreads
    <2>2. \A q : Open(q) => Open(q)'
      BY <2>1 DEF Open, questionVars, Q!QuestionId, Q!IsAnswered, Q!InQueue
    <2>3. NoNew(OnAnswer)
      BY <1>2, TurnStates, TurnAddsNone DEF OnAnswer, Raised
    <2> QED
      BY <2>2, <2>3, AskersStay
  <1> QED
    BY <1>1, <1>2

LEMMA NextKeepsAskers ==
  SchedInv /\ QP!QueueInv /\ AskersWillBeAnswered /\ [Next]_vars => AskersWillBeAnswered'
  <1> SUFFICES ASSUME SchedInv, QP!QueueInv, AskersWillBeAnswered, [Next]_vars
               PROVE  AskersWillBeAnswered'
    OBVIOUS
  <1>1. ASSUME UNCHANGED questionVars PROVE \A q : Open(q) => Open(q)'
    BY <1>1 DEF Open, questionVars, Q!QuestionId, Q!IsAnswered, Q!InQueue
  <1>2. UNCHANGED threads => NoNew(OnAnswer)
    BY DEF NoNew
  <1>3. CASE UNCHANGED vars
    BY <1>1, <1>2, <1>3, AskersStay DEF vars, questionVars
  <1>4. CASE \/ \E key \in Key : LaunchKeypressHandlers(key)
             \/ \E i \in I!InstanceId : LaunchClickHandlers(i)
             \/ \E message \in Message : DoSyntheticBroadcast(message)
    <2>1. PICK g \in Group : \E event, some :
            /\ threads' = [threads EXCEPT ![g] = NewThreads(event, some)]
            /\ UNCHANGED questionVars
      BY <1>4 DEF LaunchKeypressHandlers, LaunchClickHandlers, DoSyntheticBroadcast
    <2>2. NoNew(OnAnswer)
      BY <2>1, StartsAddNone, NewThreadsAreReady
    <2> QED
      BY <1>1, <2>1, <2>2, AskersStay
  <1>5. CASE WakeThreads
    BY <1>1, <1>5, WakeAddsNone, AskersStay DEF WakeThreads
  <1>6. CASE \E s \in todo : Turn(s)
    BY <1>6, TurnKeepsAskers
  <1>7. CASE \E s \in todo : \/ StopAllSounds(s)
                             \/ \E kind \in I!MoveKind, n \in Offset : MoveLayer(s, kind, n)
    BY <1>1, <1>2, <1>7, AskersStay DEF StopAllSounds, MoveLayer
  <1>8. CASE FinishGroup
    BY <1>1, <1>8, FinishAddsNone, AskersStay DEF FinishGroup
  <1>9. CASE \/ EndFrameAfterException \/ EndFrameAfterStop
             \/ OnRedStopClicked \/ RenderingFails
    <2>1. threads' = [g \in Group |-> IF g = 1 THEN Empty ELSE Empty]
      BY <1>9 DEF EndFrameAfterException, EndFrameAfterStop, OnRedStopClicked, RenderingFails,
         StopEverything, KillAllThreadsAndExtras
    <2> QED
      BY <2>1, EmptyIsNew, NobodyAsks
  <1>10. CASE OnGreenFlagClicked
    <2>1. PICK new \in [Slot -> {Ready, NoThread}] : new = NewThreads(GreenFlag, instances')
      BY NewThreadsAreReady
    <2> QED
      BY <1>10, <2>1, NobodyAsks DEF OnGreenFlagClicked
  <1>11. CASE EndFrame
    BY <1>2, <1>11, RetireKeepsOpen, AskersStay DEF EndFrame
  <1>12. CASE \E id \in Q!QuestionId, text \in Answer : AcceptQuestionAnswer(id, text)
    BY <1>2, <1>12, AcceptKeepsOpen, AskersStay DEF AcceptQuestionAnswer, threadVars
  <1>13. CASE \E p \in Performance : SoundEnds(p)
    BY <1>1, <1>2, <1>13, AskersStay DEF SoundEnds, threadVars
  <1> QED
    BY <1>3, <1>4, <1>5, <1>6, <1>7, <1>8, <1>9, <1>10, <1>11, <1>12, <1>13
    DEF Next, Frame, Client

LEMMA AskersHold == Spec => [](SchedInv /\ QP!QueueInv /\ AskersWillBeAnswered)
  <1>1. Init => AskersWillBeAnswered
    <2>1. Init => threads = [g \in Group |-> Empty]
      BY DEF Init
    <2> QED
      BY <2>1, ReadyIsNeither DEF AskersWillBeAnswered, Empty
  <1> QED
    BY <1>1, InitKeepsInv, NextKeepsInv, QueueHolds, NextKeepsAskers, PTL DEF Spec

(* A thread that waits for an answer has a question of its own, which is   *)
(* answered or still to be put to the user, whatever frames, stops and     *)
(* exceptions come between.                                                *)
THEOREM AskersGetAnswers == Spec => []AskersWillBeAnswered
  BY AskersHold, PTL

(* A frame ends in one of three ways.                                      *)
LEMMA FrameEnds ==
  ASSUME [Next]_vars, phase = "running", phase' = "idle"
  PROVE  EndFrame \/ EndFrameAfterException \/ EndFrameAfterStop
  <1>1. ~UNCHANGED vars
    BY DEF vars
  <1>2. ASSUME NEW s, Turn(s) PROVE phase' = phase
    BY <1>2 DEF Turn, Finish, Raise, NextFrame, Broadcast, BroadcastAndWait, PlaySound,
       PlaySoundAndWait, WaitSeconds, RegisterInstance, UnregisterRunningInstance,
       AskAndWaitForAnswer, StopAllThreads, EndTurn, EndTurnWithGroup
  <1> QED
    BY <1>1, <1>2 DEF Next, Frame, Client, LaunchKeypressHandlers, LaunchClickHandlers,
       WakeThreads, StopAllSounds, MoveLayer, FinishGroup, OnGreenFlagClicked,
       OnRedStopClicked, DoSyntheticBroadcast, RenderingFails, AcceptQuestionAnswer, SoundEnds,
       frameVars

(* What a frame leaves at the head of the queue, for the client to show,   *)
(* has not been answered.                                                  *)
THEOREM LiveQuestionsAreOpen == Spec => LiveQuestionIsAsked
  <1>1. ASSUME SchedInv, QP!QueueInv, [Next]_vars,
               phase = "running", phase' = "idle", queue' # <<>>
        PROVE  questions'[Head(queue')].state = Q!Asking
    <2>1. EndFrame \/ EndFrameAfterException \/ EndFrameAfterStop
      BY <1>1, FrameEnds
    <2>2. queue' = <<>> \/ EndFrame
      BY <2>1 DEF EndFrameAfterException, EndFrameAfterStop, StopEverything,
         KillAllThreadsAndExtras, DiscardExtras, Q!DiscardQuestions
    <2> QED
      BY <1>1, <2>2, RetireKeepsOpen DEF EndFrame
  <1> QED
    BY <1>1, AskersHold, PTL DEF Spec, LiveQuestionIsAsked

-----------------------------------------------------------------------------
(* No group is scheduled twice.                                            *)

(* The parts of a sequence without repetitions have none, and share        *)
(* nothing.                                                                *)
LEMMA InjectiveParts ==
  ASSUME NEW S, NEW s \in Seq(S), NEW t \in Seq(S), IsInjective(s \o t)
  PROVE  IsInjective(s) /\ IsInjective(t) /\ Range(s) \cap Range(t) = {}
  <1>1. PICK u : u = s \o t /\ IsInjective(u)
    OBVIOUS
  <1>2. /\ DOMAIN s = 1..Len(s) /\ DOMAIN t = 1..Len(t) /\ DOMAIN u = 1..(Len(s) + Len(t))
        /\ Len(s) \in Nat /\ Len(t) \in Nat
        /\ \A k \in 1..Len(s) : u[k] = s[k]
        /\ \A k \in 1..Len(t) : u[Len(s) + k] = t[k]
    BY <1>1, IP!ConcatPlaces
  <1>3. Range(s) = {s[k] : k \in 1..Len(s)} /\ Range(t) = {t[k] : k \in 1..Len(t)}
    BY RangeEquality
  <1>4. \A a, b \in 1..(Len(s) + Len(t)) : u[a] = u[b] => a = b
    BY <1>1, <1>2 DEF IsInjective
  <1>5. IsInjective(s)
    BY <1>2, <1>4 DEF IsInjective
  <1>6. ASSUME NEW a \in 1..Len(t), NEW b \in 1..Len(t), t[a] = t[b] PROVE a = b
    <2>1. /\ Len(s) + a \in 1..(Len(s) + Len(t)) /\ Len(s) + b \in 1..(Len(s) + Len(t))
          /\ u[Len(s) + a] = u[Len(s) + b]
      BY <1>2, <1>6
    <2>2. Len(s) + a = Len(s) + b
      BY <1>4, <2>1
    <2> QED
      BY <1>2, <2>2
  <1>7. ASSUME NEW a \in 1..Len(s), NEW b \in 1..Len(t), s[a] = t[b] PROVE FALSE
    <2>1. /\ a \in 1..(Len(s) + Len(t)) /\ Len(s) + b \in 1..(Len(s) + Len(t))
          /\ u[a] = u[Len(s) + b]
      BY <1>2, <1>7
    <2>2. a = Len(s) + b
      BY <1>4, <2>1
    <2> QED
      BY <1>2, <2>2
  <1>8. IsInjective(t)
    BY <1>2, <1>6 DEF IsInjective
  <1> QED
    BY <1>3, <1>5, <1>7, <1>8

(* The converse.                                                           *)
LEMMA InjectiveConcat ==
  ASSUME NEW S, NEW s \in Seq(S), NEW t \in Seq(S),
         IsInjective(s), IsInjective(t), Range(s) \cap Range(t) = {}
  PROVE  IsInjective(s \o t)
  <1>1. PICK u : u = s \o t
    OBVIOUS
  <1>2. /\ DOMAIN s = 1..Len(s) /\ DOMAIN t = 1..Len(t) /\ DOMAIN u = 1..(Len(s) + Len(t))
        /\ Len(s) \in Nat /\ Len(t) \in Nat
        /\ \A k \in 1..Len(s) : u[k] = s[k]
        /\ \A k \in 1..Len(t) : u[Len(s) + k] = t[k]
    BY <1>1, IP!ConcatPlaces
  <1>3. ASSUME NEW k \in 1..(Len(s) + Len(t)), k \notin 1..Len(s)
        PROVE  \E j \in 1..Len(t) : k = Len(s) + j
    <2>1. k - Len(s) \in 1..Len(t) /\ k = Len(s) + (k - Len(s))
      BY <1>2, <1>3
    <2> QED
      BY <2>1
  <1>4. Range(s) = {s[k] : k \in 1..Len(s)} /\ Range(t) = {t[k] : k \in 1..Len(t)}
    BY RangeEquality
  <1>5. \A a, b \in 1..Len(s) : u[a] = u[b] => a = b
    BY <1>2 DEF IsInjective
  <1>6. ASSUME NEW a \in 1..Len(t), NEW b \in 1..Len(t), u[Len(s) + a] = u[Len(s) + b] PROVE a = b
    <2>1. t[a] = t[b]
      BY <1>2, <1>6
    <2> QED
      BY <1>2, <2>1 DEF IsInjective
  <1>7. ASSUME NEW a \in 1..Len(s), NEW b \in 1..Len(t) PROVE u[a] # u[Len(s) + b]
    <2>1. u[a] \in Range(s) /\ u[Len(s) + b] \in Range(t)
      BY <1>2, <1>4
    <2> QED
      BY <2>1
  <1> SUFFICES ASSUME NEW a \in 1..(Len(s) + Len(t)), NEW b \in 1..(Len(s) + Len(t)), u[a] = u[b]
               PROVE  a = b
    BY <1>1, <1>2 DEF IsInjective
  <1>8. CASE a \in 1..Len(s) /\ b \in 1..Len(s)
    BY <1>5, <1>8
  <1>9. CASE a \in 1..Len(s) /\ b \notin 1..Len(s)
    BY <1>3, <1>7, <1>9
  <1>10. CASE a \notin 1..Len(s) /\ b \in 1..Len(s)
    BY <1>3, <1>7, <1>10
  <1>11. CASE a \notin 1..Len(s) /\ b \notin 1..Len(s)
    <2>1. PICK i \in 1..Len(t) : a = Len(s) + i
      BY <1>3, <1>11
    <2>2. PICK j \in 1..Len(t) : b = Len(s) + j
      BY <1>3, <1>11
    <2>3. i = j
      BY <1>6, <2>1, <2>2
    <2> QED
      BY <2>1, <2>2, <2>3
  <1> QED
    BY <1>8, <1>9, <1>10, <1>11

LEMMA InjectiveSmall ==
  ASSUME NEW x
  PROVE  IsInjective(<<>>) /\ IsInjective(<<x>>) /\ Range(<<x>>) = {x}
  <1>1. Range(<<x>>) = {x}
    BY DEF Range
  <1> QED
    BY <1>1 DEF IsInjective

LEMMA InjectiveAppend ==
  ASSUME NEW S, NEW s \in Seq(S), NEW e \in S, IsInjective(s), e \notin Range(s)
  PROVE  IsInjective(Append(s, e))
  <1>1. Append(s, e) = s \o <<e>>
    BY AppendIsConcat
  <1>2. PICK u : u = <<e>>
    OBVIOUS
  <1>3. u \in Seq(S) /\ IsInjective(u) /\ Range(u) = {e}
    BY <1>2, InjectiveSmall
  <1>4. IsInjective(s \o u)
    BY <1>3, InjectiveConcat
  <1> QED
    BY <1>1, <1>2, <1>4

LEMMA InjectiveTail ==
  ASSUME NEW S, NEW s \in Seq(S), s # <<>>, IsInjective(s)
  PROVE  IsInjective(Tail(s)) /\ Head(s) \notin Range(Tail(s))
  <1>1. /\ Head(s) \in S /\ Tail(s) \in Seq(S) /\ Len(s) \in Nat /\ Len(s) >= 1
        /\ Head(s) = s[1]
    BY HeadTailProperties, LenProperties, EmptySeq
  <1>2. /\ s = SubSeq(s, 1, Len(s)) /\ Tail(s) = SubSeq(s, 2, Len(s))
        /\ SubSeq(s, 1, Len(s)) = <<s[1]>> \o SubSeq(s, 2, Len(s))
    BY <1>1, SubSeqFull, TailIsSubSeq, SubSeqRecursiveFirst
  <1>3. PICK h : h = <<Head(s)>>
    OBVIOUS
  <1>4. h \in Seq(S) /\ s = h \o Tail(s)
    <2>1. <<Head(s)>> \in Seq(S)
      BY <1>1
    <2>2. s = <<Head(s)>> \o Tail(s)
      BY <1>1, <1>2
    <2> QED
      BY <1>3, <2>1, <2>2
  <1>5. h \in Seq(S) /\ IsInjective(h \o Tail(s))
    BY <1>4
  <1>6. IsInjective(Tail(s)) /\ Range(h) \cap Range(Tail(s)) = {}
    BY <1>1, <1>5, InjectiveParts
  <1>7. Range(h) = {Head(s)}
    BY <1>3, InjectiveSmall
  <1> QED
    BY <1>6, <1>7

(* NoGroupTwice by the parts of the frame. *)
GroupsApart ==
  /\ IsInjective(threadGroups) /\ IsInjective(spawned) /\ IsInjective(nextGroups)
  /\ Range(threadGroups) \cap Range(spawned) = {}
  /\ Range(threadGroups) \cap Range(nextGroups) = {}
  /\ Range(spawned) \cap Range(nextGroups) = {}

(* NoGroupTwice, from the three parts of the schedule.                     *)
LEMMA ApartIsNotTwice ==
  ASSUME ScheduleTypes, GroupsApart
  PROVE  NoGroupTwice
  <1> USE DEF ScheduleTypes
  <1>1. PICK u : u = threadGroups \o spawned
    OBVIOUS
  <1>2. u \in Seq(Group)
    BY <1>1, ConcatProperties
  <1>3. Range(u) = Range(threadGroups) \cup Range(spawned)
    BY <1>1, RangeConcatenation
  <1>4. IsInjective(u)
    BY <1>1, InjectiveConcat DEF GroupsApart
  <1>5. Range(u) \cap Range(nextGroups) = {}
    BY <1>3 DEF GroupsApart
  <1>6. IsInjective(u \o nextGroups)
    BY <1>5, <1>2, <1>4, InjectiveConcat DEF GroupsApart
  <1> QED
    BY <1>1, <1>6 DEF NoGroupTwice

(* A new group is in none of them.                                         *)
LEMMA NewGroupIsNotScheduled ==
  ASSUME NEW g \in Group, NewGroup(g)
  PROVE  g \notin Scheduled
  BY DEF NewGroup, IsNewGroup, Group

LEMMA StartsKeepApart ==
  ASSUME SchedInv, GroupsApart, NEW g \in Group, NewGroup(g),
         threadGroups' = Append(threadGroups, g), UNCHANGED <<spawned, nextGroups>>
  PROVE  GroupsApart'
  <1>1. /\ g \notin Range(threadGroups) /\ g \notin Range(spawned) /\ g \notin Range(nextGroups)
    BY NewGroupIsNotScheduled DEF Scheduled
  <1>2. IsInjective(threadGroups') /\ Range(threadGroups') = Range(threadGroups) \cup {g}
    BY <1>1, InjectiveAppend, RangeOfAppend DEF SchedInv, ScheduleTypes, GroupsApart
  <1> QED
    BY <1>1, <1>2 DEF GroupsApart

LEMMA TurnKeepsApart ==
  ASSUME SchedInv, GroupsApart, NEW g \in Group, NewGroup(g),
         spawned' = Append(spawned, g), UNCHANGED <<threadGroups, nextGroups>>
  PROVE  GroupsApart'
  <1>1. /\ g \notin Range(threadGroups) /\ g \notin Range(spawned) /\ g \notin Range(nextGroups)
    BY NewGroupIsNotScheduled DEF Scheduled
  <1>2. IsInjective(spawned') /\ Range(spawned') = Range(spawned) \cup {g}
    BY <1>1, InjectiveAppend, RangeOfAppend DEF SchedInv, ScheduleTypes, GroupsApart
  <1> QED
    BY <1>1, <1>2 DEF GroupsApart

(* The group that had its turn is scheduled once more at most. *)
LEMMA FinishKeepsApart ==
  ASSUME SchedInv, GroupsApart, FinishGroup
  PROVE  GroupsApart'
  <1>1. PICK left :
          /\ threadGroups # <<>>
          /\ nextGroups' = nextGroups \o spawned \o Again(Current, left)
          /\ spawned' = <<>> /\ threadGroups' = Tail(threadGroups)
    BY DEF FinishGroup
  <1>2. /\ Current \in Group
        /\ Range(threadGroups) = {Current} \cup Range(Tail(threadGroups))
        /\ IsInjective(Tail(threadGroups)) /\ Current \notin Range(Tail(threadGroups))
    BY <1>1, RangeOfTail, InjectiveTail DEF SchedInv, ScheduleTypes, GroupsApart, Current
  <1>3. PICK again \in Seq(Group) : /\ again = Again(Current, left)
                                    /\ IsInjective(again) /\ Range(again) \subseteq {Current}
    <2>1. <<>> \in Seq(Group) /\ <<Current>> \in Seq(Group)
      BY <1>2
    <2> QED
      BY <2>1, InjectiveSmall, RangeOfEmpty DEF Again
  <1>4. PICK made \in Seq(Group) :
          /\ made = nextGroups \o spawned
          /\ IsInjective(made) /\ Range(made) = Range(nextGroups) \cup Range(spawned)
    <2>1. Range(nextGroups) \cap Range(spawned) = {}
      BY DEF GroupsApart
    <2> QED
      BY <2>1, InjectiveConcat, RangeConcatenation, ConcatProperties
      DEF GroupsApart, SchedInv, ScheduleTypes
  <1>5. IsInjective(made \o again) /\ Range(made \o again) = Range(made) \cup Range(again)
    <2>1. Range(made) \cap Range(again) = {}
      BY <1>2, <1>3, <1>4 DEF GroupsApart
    <2>2. IsInjective(made \o again)
      BY <1>3, <1>4, <2>1, InjectiveConcat
    <2>3. Range(made \o again) = Range(made) \cup Range(again)
      BY RangeConcatenation
    <2> QED
      BY <2>2, <2>3
  <1>6. IsInjective(nextGroups') /\ Range(nextGroups') = Range(made) \cup Range(again)
    BY <1>1, <1>3, <1>4, <1>5
  <1> QED
    BY <1>1, <1>2, <1>3, <1>4, <1>6, InjectiveSmall, RangeOfEmpty DEF GroupsApart

LEMMA OneGroupIsApart ==
  ASSUME NEW groups, groups = <<>> \/ groups = << 1 >> \/ (GroupsApart /\ groups = nextGroups),
         threadGroups' = groups, spawned' = <<>>, nextGroups' = <<>>
  PROVE  GroupsApart'
  BY InjectiveSmall, RangeOfEmpty DEF GroupsApart

LEMMA NextKeepsApart == SchedInv /\ GroupsApart /\ [Next]_vars => GroupsApart'
  <1> SUFFICES ASSUME SchedInv, GroupsApart, [Next]_vars PROVE GroupsApart'
    OBVIOUS
  <1>1. CASE UNCHANGED <<threadGroups, spawned, nextGroups>>
    BY <1>1 DEF GroupsApart
  <1>2. CASE \/ \E key \in Key : LaunchKeypressHandlers(key)
             \/ \E i \in I!InstanceId : LaunchClickHandlers(i)
             \/ \E message \in Message : DoSyntheticBroadcast(message)
    <2>1. PICK g \in Group : /\ NewGroup(g)
                             /\ threadGroups' = Append(threadGroups, g)
                             /\ UNCHANGED <<spawned, nextGroups>>
      BY <1>2 DEF LaunchKeypressHandlers, LaunchClickHandlers, DoSyntheticBroadcast, frameVars
    <2> QED
      BY <2>1, StartsKeepApart
  <1>3. CASE \E s \in todo : Turn(s)
    <2>1. PICK s : Turn(s)
      BY <1>3
    <2>2. \/ UNCHANGED <<threadGroups, spawned, nextGroups>>
          \/ \E g \in Group : /\ NewGroup(g)
                              /\ spawned' = Append(spawned, g)
                              /\ UNCHANGED <<threadGroups, nextGroups>>
      BY <2>1 DEF Turn, Finish, Raise, NextFrame, Broadcast, BroadcastAndWait, PlaySound,
         PlaySoundAndWait, WaitSeconds, RegisterInstance, UnregisterRunningInstance,
         AskAndWaitForAnswer, StopAllThreads, EndTurn, EndTurnWithGroup
    <2> QED
      BY <1>1, <2>2, TurnKeepsApart
  <1>4. CASE FinishGroup
    BY <1>4, FinishKeepsApart
  <1>5. CASE EndFrameAfterException \/ EndFrameAfterStop \/ EndFrame
    <2>1. spawned = <<>>
      BY <1>5, NothingLeft DEF EndFrameAfterException, EndFrameAfterStop, EndFrame
    <2> QED
      BY <1>5, <2>1, OneGroupIsApart DEF EndFrameAfterException, EndFrameAfterStop, EndFrame,
         NewFrame
  <1>6. CASE OnGreenFlagClicked \/ OnRedStopClicked \/ RenderingFails
    <2>1. spawned = <<>> /\ nextGroups = <<>>
      BY <1>6, NothingBetweenFrames DEF OnGreenFlagClicked, OnRedStopClicked, RenderingFails
    <2> QED
      BY <1>6, <2>1, OneGroupIsApart DEF OnGreenFlagClicked, OnRedStopClicked, RenderingFails,
         frameVars
  <1>7. CASE \/ WakeThreads
             \/ \E s \in todo : \/ StopAllSounds(s)
                                \/ \E kind \in I!MoveKind, n \in Offset : MoveLayer(s, kind, n)
             \/ \E id \in Q!QuestionId, text \in Answer : AcceptQuestionAnswer(id, text)
             \/ \E p \in Performance : SoundEnds(p)
             \/ UNCHANGED vars
    BY <1>1, <1>7 DEF WakeThreads, StopAllSounds, MoveLayer, AcceptQuestionAnswer, SoundEnds,
       threadVars, frameVars, vars
  <1> QED
    BY <1>2, <1>3, <1>4, <1>5, <1>6, <1>7 DEF Next, Frame, Client

(* No group is scheduled twice: no thread gets two turns in a frame.       *)
THEOREM OneTurnEach == Spec => []NoGroupTwice
  <1>1. Init => GroupsApart
    BY InjectiveSmall, RangeOfEmpty DEF Init, GroupsApart
  <1>2. SchedInv /\ GroupsApart => NoGroupTwice
    BY ApartIsNotTwice DEF SchedInv
  <1> QED
    BY <1>1, <1>2, InitKeepsInv, NextKeepsInv, NextKeepsApart, PTL DEF Spec

-----------------------------------------------------------------------------
(* Instances, as Project composes it.                                      *)

(* Instances, as Project composes it, is the Instances of the proofs: the  *)
(* definitions which the two instantiations use are the same.              *)
LEMMA SameNames ==
  /\ I!Actor = IP!Actor /\ I!Layer = IP!Layer /\ I!InstanceId = IP!InstanceId
  /\ I!Sprite = IP!Sprite /\ I!MoveKind = IP!MoveKind
  BY DEF I!Actor, IP!Actor, I!Layer, IP!Layer, I!InstanceId, IP!InstanceId, I!Sprite, IP!Sprite,
         I!Stage, IP!Stage, I!MoveKind, IP!MoveKind

LEMMA SameInstance ==
  ASSUME NEW i
  PROVE  /\ I!IsInstance(i) <=> IP!IsInstance(i)
         /\ I!IsDrawn(i) <=> IP!IsDrawn(i)
  BY DEF I!IsInstance, IP!IsInstance, I!IsDrawn, IP!IsDrawn, I!Drawn, IP!Drawn, I!LayerOf,
     IP!LayerOf, I!Stage, IP!Stage

LEMMA SameInit == I!Init => IP!Init
  BY DEF I!Init, IP!Init, I!Actor, IP!Actor, I!Layer, IP!Layer, I!Stage, IP!Stage

LEMMA SameUnregister ==
  ASSUME NEW i, I!UnregisterInstance(i) PROVE IP!UnregisterInstance(i)
  BY DEF I!UnregisterInstance, IP!UnregisterInstance, I!IsInstance, IP!IsInstance, I!Original,
     IP!Original, I!Min, IP!Min

LEMMA SameDelete ==
  ASSUME I!DeleteAllClones PROVE IP!DeleteAllClones
  BY DEF I!DeleteAllClones, IP!DeleteAllClones, I!Original, IP!Original, I!Min, IP!Min,
     I!Without, IP!Without, I!Filtered, IP!Filtered, I!InstanceId, IP!InstanceId, I!Actor,
     IP!Actor, I!Layer, IP!Layer, I!Range, IP!Range

LEMMA SameCull ==
  ASSUME I!CullUnregisteredInstances PROVE IP!CullUnregisteredInstances
  BY DEF I!CullUnregisteredInstances, IP!CullUnregisteredInstances, I!IsInstance, IP!IsInstance,
     I!Without, IP!Without, I!Filtered, IP!Filtered, I!InstanceId, IP!InstanceId, I!Actor,
     IP!Actor, I!Layer, IP!Layer, I!Range, IP!Range

LEMMA SameRegister ==
  ASSUME NEW i, I!RegisterPyInstance(i) PROVE IP!RegisterPyInstance(i)
  BY DEF I!RegisterPyInstance, IP!RegisterPyInstance, I!IsDrawn, IP!IsDrawn, I!Drawn, IP!Drawn,
     I!LayerOf, IP!LayerOf, I!Stage, IP!Stage, I!RegisterBehind, IP!RegisterBehind, I!InsertAt,
     IP!InsertAt, I!IndexOf, IP!IndexOf

LEMMA SameMove ==
  ASSUME NEW i, NEW kind, NEW n, I!MoveWithinDrawLayerGroup(i, kind, n)
  PROVE  IP!MoveWithinDrawLayerGroup(i, kind, n)
  BY DEF I!MoveWithinDrawLayerGroup, IP!MoveWithinDrawLayerGroup, I!IsDrawn, IP!IsDrawn,
     I!Drawn, IP!Drawn, I!LayerOf, IP!LayerOf, I!Stage, IP!Stage, I!Move, IP!Move, I!MoveTo,
     IP!MoveTo, I!InsertAt, IP!InsertAt, I!RemoveAt, IP!RemoveAt, I!IndexOf, IP!IndexOf,
     I!Clamped, IP!Clamped, I!WantedIndex, IP!WantedIndex

LEMMA SameSource == I!Source = IP!Source
  BY DEF I!Source, IP!Source, I!InstanceId, IP!InstanceId, I!Sprite, IP!Sprite, I!Actor, IP!Actor,
         I!IsDrawn, IP!IsDrawn, I!Drawn, IP!Drawn, I!LayerOf, IP!LayerOf, I!Stage, IP!Stage

LEMMA SameTypes == IP!TypeOK => I!TypeOK
  BY DEF I!TypeOK, IP!TypeOK, I!ActorInstance, IP!ActorInstance, I!Actor, IP!Actor, I!Layer,
         IP!Layer, I!InstanceId, IP!InstanceId

LEMMA InstancesAssumed == IP!InstancesAssumption
  BY ProjectAssumption DEF IP!InstancesAssumption

-----------------------------------------------------------------------------
(* Which instances there are, while threads run.                           *)

Known(i) == i \in I!InstanceId /\ I!IsInstance(i)
KnownOrMarked(i) == i \in I!InstanceId /\ (I!IsInstance(i) \/ ~objects[i].registered)

(* Instances stay, and those which are gone stay marked. *)
InstancesStay == \A i : /\ Known(i) => Known(i)'
                        /\ KnownOrMarked(i) => KnownOrMarked(i)'

(* What actors have and what is drawn is known.                            *)
LEMMA KnownInstances ==
  IP!InstInv =>
    /\ \A a \in I!Actor : \A i \in instances[a] : Known(i)
    /\ \A i \in I!InstanceId : I!IsDrawn(i) => Known(i)
    /\ I!Source \subseteq I!InstanceId
  <1> SUFFICES ASSUME IP!InstInv
               PROVE  /\ \A a \in I!Actor : \A i \in instances[a] : Known(i)
                      /\ \A i \in I!InstanceId : I!IsDrawn(i) => Known(i)
    BY DEF I!Source
  <1>1. ASSUME NEW a \in I!Actor, NEW i \in instances[a] PROVE Known(i)
    <2>1. i \in IP!InstanceId /\ objects[i].actor = a
      BY <1>1, SameNames DEF IP!InstInv, IP!InstancesInv
    <2> QED
      BY <1>1, <2>1, SameNames DEF Known, I!IsInstance
  <1>2. ASSUME NEW i \in I!InstanceId, I!IsDrawn(i) PROVE Known(i)
    <2>1. IP!IsDrawn(i) /\ i \in IP!InstanceId
      BY <1>2, SameNames, SameInstance
    <2>2. IP!LayerOf(objects[i].actor) \in IP!Layer
      BY <2>1, IP!ObjectFacts
    <2>3. IP!IsInstance(i)
      BY <2>1, <2>2, IP!DrawnFacts DEF IP!IsDrawn
    <2> QED
      BY <2>1, <2>3, SameNames, SameInstance DEF Known
  <1> QED
    BY <1>1, <1>2

(* Cloning, whether it fails half-way or not, loses no instance.           *)
LEMMA RegisterKeeps ==
  ASSUME IP!InstInv, NEW parent \in I!InstanceId, I!RegisterPyInstance(parent)
  PROVE  IP!InstInv' /\ InstancesStay
  <1>1. parent \in IP!InstanceId /\ IP!RegisterPyInstance(parent)
    BY SameNames, SameRegister
  <1>2. /\ IP!InstInv'
        /\ \A i \in IP!InstanceId : /\ i \in IP!InstanceId' /\ objects'[i] = objects[i]
                                    /\ IP!IsInstance(i) => IP!IsInstance(i)'
    BY <1>1, IP!RegisterKeepsInv
  <1>3. /\ I!InstanceId' = IP!InstanceId' /\ I!InstanceId = IP!InstanceId
        /\ \A i : I!IsInstance(i) <=> IP!IsInstance(i)
        /\ \A i : I!IsInstance(i)' <=> IP!IsInstance(i)'
    BY DEF I!InstanceId, IP!InstanceId, I!IsInstance, IP!IsInstance
  <1> QED
    BY <1>2, <1>3 DEF InstancesStay, Known, KnownOrMarked

(* Deleting a clone in a frame only marks it.                              *)
LEMMA UnregisterKeeps ==
  ASSUME IP!InstInv, NEW i \in I!InstanceId, I!UnregisterInstance(i)
  PROVE  IP!InstInv' /\ InstancesStay
  <1>1. i \in IP!InstanceId /\ IP!UnregisterInstance(i)
    BY SameNames, SameUnregister
  <1>2. /\ IP!InstInv'
        /\ IP!InstanceId' = IP!InstanceId
        /\ \A j \in IP!InstanceId : objects'[j].actor = objects[j].actor
        /\ \A j \in IP!InstanceId : objects[j].registered # objects'[j].registered => j = i
        /\ ~objects[i].registered => ~objects'[i].registered
        /\ UNCHANGED <<instances, drawn>>
    BY <1>1, IP!UnregisterKeepsInv
  <1>3. I!InstanceId' = IP!InstanceId' /\ I!InstanceId = IP!InstanceId
    BY DEF I!InstanceId, IP!InstanceId
  <1>4. \A j \in I!InstanceId : I!IsInstance(j)' <=> I!IsInstance(j)
    BY <1>2, <1>3 DEF I!IsInstance
  <1>5. \A j \in I!InstanceId : ~objects[j].registered => ~objects'[j].registered
    BY <1>2, <1>3
  <1> QED
    BY <1>2, <1>3, <1>4, <1>5 DEF InstancesStay, Known, KnownOrMarked

(* Moves and everything else in a frame leave objects and instances alone. *)
LEMMA SameInstancesStay ==
  ASSUME UNCHANGED <<objects, instances>> PROVE InstancesStay
  BY DEF InstancesStay, Known, KnownOrMarked, I!InstanceId, I!IsInstance

(* Culled instances are marked. *)
LEMMA CullKeeps ==
  ASSUME IP!InstInv, I!CullUnregisteredInstances
  PROVE  IP!InstInv' /\ \A i : KnownOrMarked(i) => KnownOrMarked(i)'
  <1>1. IP!InstInv'
    BY SameCull, IP!CullKeepsInv
  <1>2. PICK marked : /\ marked = {i \in I!InstanceId : I!IsInstance(i) /\ ~objects[i].registered}
                      /\ instances' = [a \in I!Actor |-> instances[a] \ marked]
                      /\ objects' = objects
    BY DEF I!CullUnregisteredInstances
  <1>3. ASSUME NEW i, KnownOrMarked(i) PROVE KnownOrMarked(i)'
    <2>1. i \in I!InstanceId /\ i \in I!InstanceId' /\ objects[i].actor \in I!Actor
      BY <1>2, <1>3, SameNames, IP!ObjectFacts DEF KnownOrMarked, I!InstanceId
    <2>2. I!IsInstance(i) /\ i \notin marked => I!IsInstance(i)'
      BY <1>2, <2>1 DEF I!IsInstance
    <2> QED
      BY <1>2, <1>3, <2>1, <2>2 DEF KnownOrMarked
  <1> QED
    BY <1>1, <1>3

-----------------------------------------------------------------------------
(* Whose instance has which threads.                                       *)

(* A thread that may run again has an instance, once the threads of        *)
(* instances that are gone have been culled.                               *)
HasRun(t) == t.state \notin {"none", Zombie}

OwnersInv ==
  /\ \A g \in Group, s \in Slot : threads[g][s] # NoThread => KnownOrMarked(s[2])
  /\ phase = "running" => \A g \in Group, s \in Slot : HasRun(threads[g][s]) => Known(s[2])
  /\ \A s \in todo : threads[Current][s].state = Running

(* What the threads of a new group are about. *)
Belongs(new) == \A s \in Slot : new[s] # NoThread => Known(s[2])

(* ThreadsHaveInstances follows, and a thread with a turn has an instance. *)
LEMMA OwnersAreKnown ==
  ASSUME SchedInv, OwnersInv
  PROVE  /\ ThreadsHaveInstances
         /\ \A s \in todo : s \in Slot /\ Known(s[2])
  <1>1. ASSUME NEW s \in todo PROVE s \in Slot /\ Known(s[2])
    <2>1. phase = "running" /\ threadGroups # <<>> /\ s \in Slot
      BY <1>1 DEF SchedInv, FrameShape, ScheduleTypes
    <2>2. Current \in Group
      BY <2>1, RangeOfTail DEF SchedInv, ScheduleTypes, Current
    <2>3. HasRun(threads[Current][s])
      BY <1>1 DEF OwnersInv, HasRun, Running, Zombie
    <2> QED
      BY <2>1, <2>2, <2>3 DEF OwnersInv
  <1>2. \A g \in Group, s \in Slot : s \in Live(g) => KnownOrMarked(s[2])
    BY DEF OwnersInv, Live
  <1> QED
    BY <1>1, <1>2 DEF ThreadsHaveInstances, Known, KnownOrMarked

LEMMA KnownIsKnownOrMarked ==
  ASSUME NEW i PROVE (Known(i) => KnownOrMarked(i)) /\ (Known(i)' => KnownOrMarked(i)')
  BY DEF Known, KnownOrMarked

(* Every thread either is over or may run again.                           *)
LEMMA ReadyMayRun ==
  ASSUME NEW t \in Thread \cup {NoThread}
  PROVE  /\ t = NoThread <=> t.state = "none"
         /\ t # NoThread /\ t.state # Zombie => HasRun(t)
         /\ t = NoThread => ~HasRun(t)
  BY ThreadStates DEF HasRun, Thread, ThreadState, Running, OnGroup, OnTime, OnSound,
         OnAnswer, Zombie, Raised, StopAsked

(* A turn: the thread keeps its instance, and new ones have theirs. *)
LEMMA TurnKeepsOwners ==
  ASSUME SchedInv, OwnersInv, InstancesStay, NEW s \in todo,
         \/ \E t : EndTurn(s, t)
         \/ \E t : \E g \in Group, new \in [Slot -> {Ready, NoThread}] :
              EndTurnWithGroup(s, t, g, new) /\ NewGroup(g) /\ Belongs(new)'
  PROVE  OwnersInv'
  <1>1. s \in Slot /\ Known(s[2]) /\ phase = "running"
    BY OwnersAreKnown DEF SchedInv, FrameShape
  <1>2. Known(s[2])' /\ KnownOrMarked(s[2])'
    BY <1>1, KnownIsKnownOrMarked DEF InstancesStay
  <1>3. \A g \in Group, x \in Slot :
          /\ threads[g][x] # NoThread => KnownOrMarked(x[2])'
          /\ HasRun(threads[g][x]) => Known(x[2])'
    BY <1>1 DEF OwnersInv, InstancesStay
  <1>4. ASSUME NEW t, EndTurn(s, t) PROVE OwnersInv'
    <2>1. /\ Current \in Group
          /\ \A h \in Group, x \in Slot :
              threads'[h][x] = IF h = Current /\ x = s THEN t ELSE threads[h][x]
      BY <1>4, TurnChanges
    <2>2. /\ todo' = todo \ {s} /\ Current' = Current
          /\ todo \subseteq Slot
      BY <1>4 DEF EndTurn, Current, SchedInv, ScheduleTypes
    <2>3. \A x \in todo' : threads'[Current][x].state = Running
      BY <2>1, <2>2 DEF OwnersInv
    <2> QED
      BY <1>2, <1>3, <2>1, <2>2, <2>3 DEF OwnersInv
  <1>5. ASSUME NEW t, NEW g \in Group, NEW new \in [Slot -> {Ready, NoThread}],
               EndTurnWithGroup(s, t, g, new), NewGroup(g), Belongs(new)'
        PROVE  OwnersInv'
    <2>1. /\ Current \in Group /\ Current # g
          /\ threads'[g] = new
          /\ \A h \in Group, x \in Slot :
               /\ h = Current /\ x = s => threads'[h][x] = t
               /\ h # g /\ ~(h = Current /\ x = s) => threads'[h][x] = threads[h][x]
      BY ONLY <1>5, SchedInv, TurnWithGroupChanges
    <2>2. /\ todo' = todo \ {s} /\ Current' = Current
          /\ todo \subseteq Slot
      BY <1>5 DEF EndTurnWithGroup, Current, SchedInv, ScheduleTypes
    <2>3. \A x \in todo' : threads'[Current][x].state = Running
      BY <2>1, <2>2 DEF OwnersInv
    <2>4. \A x \in Slot : new[x] \in {Ready, NoThread}
      OBVIOUS
    <2>5. \A x \in Slot : /\ new[x] # NoThread => KnownOrMarked(x[2])'
                          /\ HasRun(new[x]) => Known(x[2])'
      BY <1>5, <2>4, ThreadStates, KnownIsKnownOrMarked DEF Belongs, HasRun
    <2>6. \A h \in Group, x \in Slot : /\ threads'[h][x] # NoThread => KnownOrMarked(x[2])'
                                       /\ HasRun(threads'[h][x]) => Known(x[2])'
      BY <1>2, <1>3, <2>1, <2>5
    <2> QED
      BY <2>2, <2>3, <2>6 DEF OwnersInv
  <1> QED
    BY <1>4, <1>5

(* Threads start for instances which their actors have. *)
LEMMA NewThreadsBelong ==
  ASSUME NEW event, NEW some, NEW K,
         \A a \in I!Actor : \A i \in some[a] : i \in K
  PROVE  \A s \in Slot : NewThreads(event, some)[s] # NoThread => s[2] \in K
  <1> SUFFICES ASSUME NEW s \in Slot, NewThreads(event, some)[s] # NoThread
               PROVE  s[2] \in K
    OBVIOUS
  <1>1. s[2] \in some[HandlerActor[s[1]]] /\ s[1] \in Handler
    BY DEF NewThreads, Slot
  <1>2. HandlerActor[s[1]] \in I!Actor
    BY <1>1, ProjectAssumption DEF I!Actor
  <1> QED
    BY <1>1, <1>2

(* Between frames, threads start for instances that are there.             *)
LEMMA StartsKeepOwners ==
  ASSUME SchedInv, OwnersInv, UNCHANGED <<objects, instances, todo>>, phase' # "running",
         NEW g \in Group, NEW new \in [Slot -> {Ready, NoThread}], Belongs(new),
         threads' = [threads EXCEPT ![g] = new], todo = {}
  PROVE  OwnersInv'
  <1>1. \A h \in Group, x \in Slot :
          threads'[h][x] = IF h = g THEN new[x] ELSE threads[h][x]
    BY DEF SchedInv, ThreadTypes
  <1>2. \A i : (Known(i) => Known(i)') /\ (KnownOrMarked(i) => KnownOrMarked(i)')
    BY SameInstancesStay DEF InstancesStay
  <1>3. \A h \in Group, x \in Slot : threads'[h][x] # NoThread => KnownOrMarked(x[2])'
    BY <1>1, <1>2, KnownIsKnownOrMarked DEF OwnersInv, Belongs
  <1> QED
    BY <1>3 DEF OwnersInv

(* Culling ends the threads of all instances that are gone before any      *)
(* thread is woken.                                                        *)
LEMMA WakeKeepsOwners == SchedInv /\ OwnersInv /\ WakeThreads => OwnersInv'
  <1> SUFFICES ASSUME SchedInv, OwnersInv, WakeThreads PROVE OwnersInv'
    OBVIOUS
  <1>1. \A i : (Known(i) => Known(i)') /\ (KnownOrMarked(i) => KnownOrMarked(i)')
    BY SameInstancesStay DEF InstancesStay, WakeThreads, instanceVars
  <1>2. \A g \in Group : g \notin Range(threadGroups) => Live(g) = {}
    <2>1. spawned = <<>> /\ nextGroups = <<>>
      BY DEF WakeThreads, SchedInv, FrameShape
    <2>2. Scheduled = Range(threadGroups)
      BY <2>1, RangeOfEmpty DEF Scheduled
    <2> QED
      BY <2>2 DEF SchedInv, ThreadsAreScheduled
  <1>3. ASSUME NEW g \in Group, NEW s \in Slot
        PROVE  /\ threads'[g][s] # NoThread => KnownOrMarked(s[2])
               /\ HasRun(threads'[g][s]) => Known(s[2])
    <2>1. CASE g \notin Range(threadGroups)
      <3>1. threads'[g][s] = NoThread
        BY <1>2, <2>1 DEF WakeThreads, Live
      <3> QED
        BY <3>1, ReadyMayRun
    <2>2. CASE g \in Range(threadGroups) /\ threads[g][s] = NoThread
      <3>1. threads'[g][s] = MaybeWoken(NoThread)
        BY <2>2 DEF WakeThreads, Culled
      <3>2. MaybeWoken(NoThread) = NoThread
        BY ThreadStates DEF MaybeWoken, ShouldWake, OnGroup, OnTime, OnSound, OnAnswer
      <3> QED
        BY <3>1, <3>2, ReadyMayRun
    <2>3. CASE g \in Range(threadGroups) /\ threads[g][s] # NoThread
      <3>1. KnownOrMarked(s[2])
        BY <2>3 DEF OwnersInv
      <3>2. CASE objects[s[2]].registered
        BY <3>1, <3>2 DEF KnownOrMarked, Known
      <3>3. CASE ~objects[s[2]].registered
        <4>1. threads'[g][s] = MaybeWoken(Dead)
          BY <2>3, <3>3 DEF WakeThreads, Culled
        <4>2. MaybeWoken(Dead) = Dead
          BY ThreadStates DEF MaybeWoken, ShouldWake, Zombie, OnGroup, OnTime, OnSound, OnAnswer
        <4> QED
          BY <3>1, <4>1, <4>2, ThreadStates DEF HasRun
      <3> QED
        BY <3>2, <3>3
    <2> QED
      BY <2>1, <2>2, <2>3
  <1>4. \A s \in todo' : threads'[Current'][s].state = Running
    BY DEF WakeThreads, Current
  <1> QED
    BY <1>1, <1>3, <1>4 DEF OwnersInv

(* A group that has had its turn keeps its threads, less those that ended. *)
LEMMA FinishKeepsOwners == SchedInv /\ OwnersInv /\ FinishGroup => OwnersInv'
  <1> SUFFICES ASSUME SchedInv, OwnersInv, FinishGroup PROVE OwnersInv'
    OBVIOUS
  <1>1. PICK c \in Group : c = Current
    BY RangeOfTail DEF FinishGroup, Current, SchedInv, ScheduleTypes
  <1>2. PICK left : /\ left = [s \in Slot |-> IF threads[c][s].state = Zombie THEN NoThread
                                              ELSE threads[c][s]]
                    /\ threads' = [threads EXCEPT ![c] = left]
    BY <1>1 DEF FinishGroup
  <1>3. \A h \in Group, x \in Slot : threads'[h][x] \in {NoThread, threads[h][x]}
    BY <1>2 DEF SchedInv, ThreadTypes
  <1>4. \A i : (Known(i) => Known(i)') /\ (KnownOrMarked(i) => KnownOrMarked(i)')
    BY SameInstancesStay DEF InstancesStay, FinishGroup, instanceVars
  <1>5. \A h \in Group, x \in Slot : /\ threads'[h][x] # NoThread => KnownOrMarked(x[2])'
                                     /\ HasRun(threads'[h][x]) => Known(x[2])'
    BY <1>3, <1>4, ReadyMayRun DEF OwnersInv, FinishGroup
  <1>6. \A s \in todo' : threads'[Current'][s].state = Running
    <2>1. CASE Tail(threadGroups) = <<>>
      BY <2>1 DEF FinishGroup
    <2>2. CASE Tail(threadGroups) # <<>>
      <3>1. PICK d \in Group : d = Head(Tail(threadGroups)) /\ d = Current'
        <4>1. Tail(threadGroups) \in Seq(Group) /\ threadGroups' = Tail(threadGroups)
          BY RangeOfTail DEF FinishGroup, SchedInv, ScheduleTypes
        <4> QED
          BY <2>2, <4>1, RangeOfTail DEF Current
      <3>2. todo' = {s \in Slot : threads[d][s].state = Running}
        BY <2>2, <3>1 DEF FinishGroup, InState
      <3>3. \A s \in Slot : threads[d][s].state = Running => threads'[d][s].state = Running
        BY <1>2, ThreadStates DEF SchedInv, ThreadTypes, Running, Zombie
      <3> QED
        BY <3>1, <3>2, <3>3
    <2> QED
      BY <2>1, <2>2
  <1> QED
    BY <1>5, <1>6 DEF OwnersInv

LEMMA KnownInstancesLater ==
  IP!InstInv' => \A a \in I!Actor : \A i \in instances'[a] : Known(i)'
  <1>1. IP!InstInv => \A a \in I!Actor : \A i \in instances[a] : Known(i)
    BY KnownInstances
  <1>2. IP!InstInv' => (\A a \in I!Actor : \A i \in instances[a] : Known(i))'
    BY <1>1, PTL
  <1> QED
    BY <1>2

(* What a turn does to instances, and whose the new threads are. *)
LEMMA TurnSteps ==
  ASSUME IP!InstInv, SchedInv, OwnersInv, NEW s \in todo, Turn(s)
  PROVE  /\ IP!InstInv' /\ InstancesStay
         /\ [I!Next]_(I!instanceVars)
         /\ \/ \E t : EndTurn(s, t)
            \/ \E t : \E g \in Group, new \in [Slot -> {Ready, NoThread}] :
                 EndTurnWithGroup(s, t, g, new) /\ NewGroup(g) /\ Belongs(new)'
  <1>1. CASE \E parent \in I!Source : RegisterInstance(s, parent)
    <2>1. PICK parent \in I!Source : RegisterInstance(s, parent)
      BY <1>1
    <2>2. parent \in I!InstanceId
      BY <2>1, KnownInstances
    <2>3. IP!InstInv' /\ InstancesStay
      BY <2>1, <2>2, RegisterKeeps DEF RegisterInstance
    <2>4. PICK some : some = [a \in I!Actor |-> instances'[a] \ instances[a]]
      OBVIOUS
    <2>5. PICK new \in [Slot -> {Ready, NoThread}] : new = NewThreads(Clone, some)
      BY NewThreadsAreReady
    <2>6. Belongs(new)'
      <3>1. PICK K : K = {i \in UNION {instances'[a] : a \in I!Actor} : Known(i)'}
        OBVIOUS
      <3>2. \A a \in I!Actor : \A i \in some[a] : i \in K
        BY <2>3, <2>4, <3>1, KnownInstancesLater
      <3>3. \A x \in Slot : new[x] # NoThread => x[2] \in K
        BY <2>5, <3>2, NewThreadsBelong
      <3> QED
        BY <3>1, <3>3 DEF Belongs
    <2>7. \/ \E t : EndTurn(s, t)
          \/ \E g \in Group : EndTurnWithGroup(s, Ready, g, new) /\ NewGroup(g)
      BY <2>1, <2>4, <2>5 DEF RegisterInstance
    <2>8. I!Next
      BY <2>1 DEF RegisterInstance, I!Next
    <2> QED
      BY <2>3, <2>6, <2>7, <2>8
  <1>2. CASE UnregisterRunningInstance(s)
    <2>1. s[2] \in I!InstanceId
      BY OwnersAreKnown DEF Known
    <2>2. I!UnregisterInstance(s[2]) /\ \E t : EndTurn(s, t)
      BY <1>2 DEF UnregisterRunningInstance
    <2>3. IP!InstInv' /\ InstancesStay
      BY <2>1, <2>2, UnregisterKeeps
    <2> QED
      BY <2>1, <2>2, <2>3 DEF I!Next
  <1>3. ASSUME UNCHANGED instanceVars
        PROVE  IP!InstInv' /\ InstancesStay /\ [I!Next]_(I!instanceVars)
    BY <1>3, SameInstancesStay, IP!NextKeepsInv DEF instanceVars, I!instanceVars, IP!instanceVars
  <1>4. CASE \E message \in Message : Broadcast(s, message) \/ BroadcastAndWait(s, message)
    <2>1. PICK message \in Message, g \in Group :
            /\ NewGroup(g)
            /\ \/ EndTurnWithGroup(s, Ready, g, NewThreads(message, instances))
               \/ EndTurnWithGroup(s, [state |-> OnGroup, on |-> g], g,
                                   NewThreads(message, instances))
            /\ UNCHANGED instanceVars
      BY <1>4 DEF Broadcast, BroadcastAndWait
    <2>2. PICK new \in [Slot -> {Ready, NoThread}] : new = NewThreads(message, instances)
      BY NewThreadsAreReady
    <2>3. \A x \in Slot : new[x] # NoThread => Known(x[2])
      <3>1. PICK K : K = {i \in I!InstanceId : Known(i)}
        OBVIOUS
      <3>2. \A a \in I!Actor : \A i \in instances[a] : i \in K
        BY <3>1, KnownInstances DEF Known
      <3> QED
        BY <2>2, <3>1, <3>2, NewThreadsBelong
    <2>4. Belongs(new)'
      BY <1>3, <2>1, <2>3 DEF Belongs, InstancesStay
    <2> QED
      BY <1>3, <2>1, <2>2, <2>4
  <1>5. CASE \/ Finish(s) \/ Raise(s) \/ NextFrame(s) \/ PlaySound(s) \/ PlaySoundAndWait(s)
             \/ \E frames \in 1..MaxWait : WaitSeconds(s, frames)
             \/ AskAndWaitForAnswer(s) \/ StopAllThreads(s)
    <2>1. UNCHANGED instanceVars /\ \E t : EndTurn(s, t)
      BY <1>5 DEF Finish, Raise, NextFrame, PlaySound, PlaySoundAndWait, WaitSeconds,
         AskAndWaitForAnswer, StopAllThreads
    <2> QED
      BY <1>3, <2>1
  <1> QED
    BY <1>1, <1>2, <1>4, <1>5 DEF Turn

(* Every step does to instances and layers what Instances allows: that the *)
(* threads of instances that are gone do not run is what makes             *)
(* delete_this_clone() and moves find theirs.                              *)
LEMMA InstancesMove ==
  IP!InstInv /\ SchedInv /\ OwnersInv /\ [Next]_vars => IP!InstInv' /\ [I!Next]_(I!instanceVars)
  <1> SUFFICES ASSUME IP!InstInv, SchedInv, OwnersInv, [Next]_vars
               PROVE  IP!InstInv' /\ [I!Next]_(I!instanceVars)
    OBVIOUS
  <1>1. CASE \E s \in todo : Turn(s)
    BY <1>1, TurnSteps
  <1>2. ASSUME UNCHANGED instanceVars
        PROVE  IP!InstInv' /\ [I!Next]_(I!instanceVars)
    BY <1>2, IP!NextKeepsInv DEF instanceVars, I!instanceVars, IP!instanceVars
  <1>3. CASE \E s \in todo, kind \in I!MoveKind, n \in Offset : MoveLayer(s, kind, n)
    <2>1. PICK s \in todo, kind \in I!MoveKind, n \in Offset : MoveLayer(s, kind, n)
      BY <1>3
    <2>2. /\ s[2] \in I!InstanceId /\ objects[s[2]].actor \in I!Sprite
          /\ I!MoveWithinDrawLayerGroup(s[2], kind, n)
      BY <2>1, OwnersAreKnown DEF MoveLayer, Known
    <2>3. I!Next
      BY <2>1, <2>2 DEF I!Next
    <2>4. IP!InstInv'
      BY <2>1, <2>2, SameNames, SameMove, IP!MoveKeepsInv
    <2> QED
      BY <2>3, <2>4
  <1>4. CASE EndFrame \/ EndFrameAfterException
    <2>1. I!CullUnregisteredInstances
      BY <1>4 DEF EndFrame, EndFrameAfterException
    <2> QED
      BY <2>1, CullKeeps DEF I!Next
  <1>5. CASE EndFrameAfterStop \/ OnGreenFlagClicked \/ OnRedStopClicked
    <2>1. I!DeleteAllClones
      BY <1>5 DEF EndFrameAfterStop, OnGreenFlagClicked, OnRedStopClicked, StopEverything
    <2> QED
      BY <2>1, SameDelete, IP!DeleteKeepsInv DEF I!Next
  <1>6. CASE \/ \E key \in Key : LaunchKeypressHandlers(key)
             \/ \E i \in I!InstanceId : LaunchClickHandlers(i)
             \/ \E message \in Message : DoSyntheticBroadcast(message)
             \/ WakeThreads \/ FinishGroup \/ RenderingFails
             \/ \E s \in todo : StopAllSounds(s)
             \/ \E p \in Performance : SoundEnds(p)
             \/ \E id \in Q!QuestionId, text \in Answer : AcceptQuestionAnswer(id, text)
             \/ UNCHANGED vars
    <2>1. UNCHANGED instanceVars
      BY <1>6 DEF LaunchKeypressHandlers, LaunchClickHandlers, DoSyntheticBroadcast,
         WakeThreads, FinishGroup, RenderingFails, StopAllSounds, SoundEnds,
         AcceptQuestionAnswer, vars, instanceVars
    <2> QED
      BY <1>2, <2>1
  <1> QED
    BY <1>1, <1>3, <1>4, <1>5, <1>6 DEF Next, Frame, Client

(* The other half of the same induction.                                   *)
LEMMA NextKeepsOwners ==
  IP!InstInv /\ SchedInv /\ OwnersInv /\ [Next]_vars => OwnersInv'
  <1> SUFFICES ASSUME IP!InstInv, SchedInv, OwnersInv, [Next]_vars PROVE OwnersInv'
    OBVIOUS
  <1>1. CASE \E s \in todo : Turn(s)
    <2>1. PICK s \in todo : Turn(s)
      BY <1>1
    <2>2. /\ InstancesStay
          /\ \/ \E t : EndTurn(s, t)
             \/ \E t : \E g \in Group, new \in [Slot -> {Ready, NoThread}] :
                  EndTurnWithGroup(s, t, g, new) /\ NewGroup(g) /\ Belongs(new)'
      BY <2>1, TurnSteps
    <2> QED
      BY ONLY <2>2, s \in todo, SchedInv, OwnersInv, TurnKeepsOwners
  <1>2. CASE UNCHANGED <<objects, instances, threads, threadGroups, phase, todo>>
    BY <1>2, SameInstancesStay DEF OwnersInv, InstancesStay, Current
  <1>3. CASE WakeThreads \/ FinishGroup
    BY <1>3, WakeKeepsOwners, FinishKeepsOwners
  <1>4. ASSUME NEW event, NEW some, \A a \in I!Actor : \A i \in some[a] : Known(i),
               NEW g \in Group, threads' = [threads EXCEPT ![g] = NewThreads(event, some)],
               UNCHANGED <<objects, instances, todo>>, phase # "running", phase' # "running"
        PROVE  OwnersInv'
    <2>1. PICK new \in [Slot -> {Ready, NoThread}] : new = NewThreads(event, some)
      BY NewThreadsAreReady
    <2>2. PICK K : K = {i \in I!InstanceId : Known(i)}
      OBVIOUS
    <2>3. \A a \in I!Actor : \A i \in some[a] : i \in K
      BY <1>4, <2>2 DEF Known
    <2>4. \A x \in Slot : new[x] # NoThread => x[2] \in K
      BY <2>1, <2>3, NewThreadsBelong
    <2>5. Belongs(new)
      BY <2>2, <2>4 DEF Belongs
    <2>6. todo = {}
      BY <1>4 DEF SchedInv, FrameShape
    <2> QED
      BY <1>4, <2>1, <2>5, <2>6, StartsKeepOwners
  <1>5. CASE \/ \E key \in Key : LaunchKeypressHandlers(key)
             \/ \E message \in Message : DoSyntheticBroadcast(message)
    <2>1. PICK event \in Message \cup Key : \E g \in Group :
            /\ threads' = [threads EXCEPT ![g] = NewThreads(event, instances)]
            /\ UNCHANGED <<objects, instances, todo>>
            /\ phase # "running" /\ phase' # "running"
      BY <1>5 DEF LaunchKeypressHandlers, DoSyntheticBroadcast, instanceVars, frameVars
    <2>2. \A a \in I!Actor : \A i \in instances[a] : Known(i)
      BY KnownInstances
    <2> QED
      BY <1>4, <2>1, <2>2
  <1>6. CASE \E i \in I!InstanceId : LaunchClickHandlers(i)
    <2>1. PICK i \in I!InstanceId : LaunchClickHandlers(i)
      BY <1>6
    <2>2. Known(i)
      BY <2>1, KnownInstances DEF LaunchClickHandlers
    <2>3. PICK some : some = [a \in I!Actor |-> {j \in {i} : objects[j].actor = a}]
      OBVIOUS
    <2>4. \A a \in I!Actor : \A j \in some[a] : Known(j)
      BY <2>2, <2>3
    <2>5. PICK g \in Group : threads' = [threads EXCEPT ![g] = NewThreads(Click, some)]
      BY <2>1, <2>3 DEF LaunchClickHandlers
    <2>6. UNCHANGED <<objects, instances, todo>> /\ phase # "running" /\ phase' # "running"
      BY <2>1 DEF LaunchClickHandlers, instanceVars
    <2> QED
      BY <1>4, <2>4, <2>5, <2>6
  <1>7. CASE EndFrame
    <2>1. \A i : KnownOrMarked(i) => KnownOrMarked(i)'
      BY <1>7, CullKeeps DEF EndFrame
    <2>2. phase' # "running" /\ todo' = {}
      BY <1>7 DEF EndFrame, AllGroupsDone, NewFrame, SchedInv, FrameShape
    <2> QED
      BY <1>7, <2>1, <2>2 DEF EndFrame, OwnersInv
  <1>8. CASE \/ EndFrameAfterException \/ EndFrameAfterStop
             \/ OnRedStopClicked \/ RenderingFails
    <2>1. threads' = [g \in Group |-> Empty]
      BY <1>8 DEF EndFrameAfterException, EndFrameAfterStop, OnRedStopClicked, RenderingFails,
         StopEverything, KillAllThreadsAndExtras
    <2>2. todo' = {}
      BY <1>8 DEF EndFrameAfterException, EndFrameAfterStop, OnRedStopClicked, RenderingFails,
         frameVars, NewFrame, AllGroupsDone, SchedInv, FrameShape
    <2>3. \A g \in Group, s \in Slot : threads'[g][s] = NoThread /\ ~HasRun(NoThread)
      BY <2>1, ReadyMayRun DEF Empty
    <2> QED
      BY <2>2, <2>3 DEF OwnersInv
  <1>9. CASE OnGreenFlagClicked
    <2>1. PICK new \in [Slot -> {Ready, NoThread}] : new = NewThreads(GreenFlag, instances')
      BY NewThreadsAreReady
    <2>2. PICK K : K = {i \in UNION {instances'[a] : a \in I!Actor} : Known(i)'}
      OBVIOUS
    <2>3. IP!InstInv'
      BY InstancesMove
    <2>4. \A a \in I!Actor : \A i \in instances'[a] : i \in K
      BY <2>2, <2>3, KnownInstancesLater
    <2>5. \A x \in Slot : new[x] # NoThread => x[2] \in K
      BY <2>1, <2>4, NewThreadsBelong
    <2>6. \A x \in Slot : new[x] # NoThread => KnownOrMarked(x[2])'
      BY <2>2, <2>5, KnownIsKnownOrMarked
    <2>7. \A g \in Group, x \in Slot : threads'[g][x] # NoThread => KnownOrMarked(x[2])'
      BY <1>9, <2>1, <2>6 DEF OnGreenFlagClicked, Empty
    <2>8. todo' = {} /\ phase' # "running"
      BY <1>9 DEF OnGreenFlagClicked, frameVars, SchedInv, FrameShape
    <2> QED
      BY <2>7, <2>8 DEF OwnersInv
  <1>10. CASE \/ UNCHANGED vars
              \/ \E p \in Performance : SoundEnds(p)
              \/ \E id \in Q!QuestionId, text \in Answer : AcceptQuestionAnswer(id, text)
              \/ \E s \in todo : StopAllSounds(s)
              \/ \E s \in todo, kind \in I!MoveKind, n \in Offset : MoveLayer(s, kind, n)
    BY <1>2, <1>10 DEF vars, SoundEnds, AcceptQuestionAnswer, StopAllSounds, MoveLayer,
       threadVars, frameVars, instanceVars, I!MoveWithinDrawLayerGroup
  <1>11. CASE Frame
    BY <1>1, <1>3, <1>7, <1>8, <1>10, <1>5, <1>6, <1>11 DEF Frame
  <1>12. CASE Client
    BY <1>8, <1>9, <1>10, <1>5, <1>12 DEF Client
  <1> QED
    BY <1>10, <1>11, <1>12 DEF Next

(* Both hold in every state.                                               *)
LEMMA OwnersHold == Spec => [](IP!InstInv /\ SchedInv /\ OwnersInv)
  <1>1. Init => IP!InstInv
    BY SameInit, InstancesAssumed, IP!InitKeepsInv DEF Init
  <1>2. Init => OwnersInv
    <2> SUFFICES ASSUME Init PROVE OwnersInv
      OBVIOUS
    <2>1. \A g \in Group, s \in Slot : threads[g][s] = NoThread
      BY DEF Init, Empty
    <2> QED
      BY <2>1 DEF Init, OwnersInv
  <1> QED
    BY <1>1, <1>2, InitKeepsInv, NextKeepsInv, InstancesMove, NextKeepsOwners, PTL DEF Spec

(* A thread with a turn belongs to an instance of its actor, whatever has  *)
(* been cloned, deleted and culled since it was made, so that              *)
(* unregister_instance finds the instance; a thread of an instance that is *)
(* gone is still to be culled.                                             *)
THEOREM NoThreadWithoutInstance == Spec => []ThreadsHaveInstances
  BY OwnersHold, OwnersAreKnown, PTL

(* All that threads, frames and the client do to instances and layers is   *)
(* what Instances allows, so that its properties hold in a project.        *)
THEOREM InstancesAreKeptAsSpecified == Spec => InstancesSpec
  <1>1. Init => I!Init
    BY DEF Init
  <1> QED
    BY <1>1, OwnersHold, InstancesMove, PTL DEF Spec, InstancesSpec, I!Spec

-----------------------------------------------------------------------------
(* Types.                                                                  *)

PlayingTypes == playing \subseteq Performance

(* Performances are those which the sound manager can give out.            *)
LEMMA NextKeepsPlaying == PlayingTypes /\ [Next]_vars => PlayingTypes'
  <1> SUFFICES ASSUME PlayingTypes, [Next]_vars PROVE PlayingTypes'
    OBVIOUS
  <1>1. ASSUME NEW s, Turn(s) PROVE PlayingTypes'
    <2>1. CASE PlaySound(s) \/ PlaySoundAndWait(s)
      BY <2>1 DEF PlaySound, PlaySoundAndWait, NewPerformances, PlayingTypes
    <2>2. CASE ~(PlaySound(s) \/ PlaySoundAndWait(s))
      BY <1>1, <2>2 DEF Turn, Finish, Raise, NextFrame, Broadcast, BroadcastAndWait,
         WaitSeconds, RegisterInstance, UnregisterRunningInstance, AskAndWaitForAnswer,
         StopAllThreads, PlayingTypes
    <2> QED
      BY <2>1, <2>2
  <1>2. CASE ~\E s \in todo : Turn(s)
    <2>1. playing' \in {playing, {}} \/ \E p \in Performance : playing' = playing \ {p}
      BY <1>2 DEF Next, Frame, Client, LaunchKeypressHandlers, LaunchClickHandlers, WakeThreads,
         StopAllSounds, MoveLayer, FinishGroup, EndFrameAfterException, EndFrameAfterStop,
         EndFrame, OnGreenFlagClicked, OnRedStopClicked, DoSyntheticBroadcast, RenderingFails,
         AcceptQuestionAnswer, SoundEnds, StopEverything, KillAllThreadsAndExtras,
         DiscardExtras, vars
    <2> QED
      BY <2>1 DEF PlayingTypes
  <1> QED
    BY <1>1, <1>2

LEMMA SameQueueTypes == QP!QueueInv => Q!TypeOK
  BY DEF QP!QueueInv, QP!TypeOK, Q!TypeOK, QP!UserQuestion, Q!UserQuestion, QP!QuestionState,
         Q!QuestionState, QP!Reply, Q!Reply, QP!NoReply, Q!NoReply, QP!Asking, Q!Asking,
         QP!Waiting, Q!Waiting, QP!Answered, Q!Answered, QP!QuestionId, Q!QuestionId

(* The fields of every object have their types. *)
THEOREM FieldsHaveTypes == Spec => []TypeOK
  <1>1. IP!InstInv /\ SchedInv /\ QP!QueueInv /\ PlayingTypes => TypeOK
    BY IP!TypesHold, SameTypes, SameQueueTypes
    DEF TypeOK, SchedInv, ThreadTypes, Threads, ScheduleTypes, PlayingTypes
  <1>2. Init => PlayingTypes
    BY DEF Init, PlayingTypes
  <1> QED
    BY <1>1, <1>2, OwnersHold, QueueHolds, NextKeepsPlaying, PTL DEF Spec

-----------------------------------------------------------------------------
(* stop_all().                                                             *)

NobodyRaised == \A g \in Group, s \in Slot : threads[g][s].state # Raised

(* Without system calls that raise, no thread ever raises an exception.    *)
LEMMA NextRaisesNothing ==
  ASSUME "raise" \notin Syscalls
  PROVE  SchedInv /\ NobodyRaised /\ [Next]_vars => NobodyRaised'
  <1> SUFFICES ASSUME SchedInv, NobodyRaised, [Next]_vars PROVE NobodyRaised'
    OBVIOUS
  <1>1. NoNew(Raised) => NobodyRaised'
    BY DEF NoNew, NobodyRaised
  <1>2. CASE UNCHANGED threads
    BY <1>2 DEF NobodyRaised
  <1>3. CASE \/ \E key \in Key : LaunchKeypressHandlers(key)
             \/ \E i \in I!InstanceId : LaunchClickHandlers(i)
             \/ \E message \in Message : DoSyntheticBroadcast(message)
    <2>1. PICK g \in Group : \E event, some :
            threads' = [threads EXCEPT ![g] = NewThreads(event, some)]
      BY <1>3 DEF LaunchKeypressHandlers, LaunchClickHandlers, DoSyntheticBroadcast
    <2> QED
      BY <1>1, <2>1, StartsAddNone, NewThreadsAreReady
  <1>4. CASE \E s \in todo : Turn(s)
    <2>1. PICK s : Turn(s)
      BY <1>4
    <2>2. ~Raise(s)
      BY DEF Raise
    <2> QED
      BY <1>1, <2>1, <2>2, TurnStates, TurnAddsNone DEF OnAnswer, Raised
  <1>5. CASE WakeThreads \/ FinishGroup
    BY <1>1, <1>5, WakeAddsNone, FinishAddsNone
  <1>6. CASE \/ EndFrameAfterException \/ EndFrameAfterStop
             \/ OnGreenFlagClicked \/ OnRedStopClicked \/ RenderingFails
    <2>1. PICK new \in [Slot -> {Ready, NoThread}] : new = NewThreads(GreenFlag, instances')
      BY NewThreadsAreReady
    <2>2. \A g \in Group, s \in Slot : threads'[g][s] \in {Ready, NoThread}
      BY <1>6, <2>1 DEF EndFrameAfterException, EndFrameAfterStop, OnGreenFlagClicked,
         OnRedStopClicked, RenderingFails, StopEverything, KillAllThreadsAndExtras, Empty
    <2> QED
      BY <2>2, ReadyIsNeither DEF NobodyRaised
  <1>7. CASE \/ \E s \in todo : \/ StopAllSounds(s)
                                \/ \E kind \in I!MoveKind, k \in Offset : MoveLayer(s, kind, k)
             \/ EndFrame \/ UNCHANGED vars
             \/ \E id \in Q!QuestionId, text \in Answer : AcceptQuestionAnswer(id, text)
             \/ \E p \in Performance : SoundEnds(p)
    BY <1>2, <1>7 DEF StopAllSounds, MoveLayer, EndFrame, vars, AcceptQuestionAnswer, SoundEnds,
       threadVars
  <1> QED
    BY <1>3, <1>4, <1>5, <1>6, <1>7 DEF Next, Frame, Client

(* In a project in which no thread raises an exception, stop_all() leaves  *)
(* each actor with its original instance alone, as the red stop button     *)
(* does; a run refutes this when some thread raises one in the same frame. *)
THEOREM StoppingDeletesClones ==
  ASSUME "raise" \notin Syscalls
  PROVE  Spec => StopAllDeletesClones
  <1>1. Init => NobodyRaised
    <2> SUFFICES ASSUME Init PROVE NobodyRaised
      OBVIOUS
    <2>1. \A g \in Group, s \in Slot : threads[g][s] = NoThread
      BY DEF Init, Empty
    <2> QED
      BY <2>1, ReadyIsNeither DEF NobodyRaised
  <1>2. ASSUME IP!InstInv, SchedInv, NobodyRaised, [Next]_vars,
               phase = "running", phase' = "idle", SomeThread(StopAsked)
        PROVE  \A a \in I!Actor : instances'[a] = {I!Original(a)}
    <2>1. EndFrame \/ EndFrameAfterException \/ EndFrameAfterStop
      BY <1>2, FrameEnds
    <2>2. ~SomeThread(Raised)
      BY RangeOfSeq, <1>2 DEF SomeThread, InState, NobodyRaised, SchedInv, ScheduleTypes
    <2>3. I!DeleteAllClones
      BY <1>2, <2>1, <2>2 DEF EndFrame, EndFrameAfterException, EndFrameAfterStop, StopEverything
    <2> QED
      BY <2>3 DEF I!DeleteAllClones
  <1> QED
    BY <1>1, <1>2, OwnersHold, NextRaisesNothing, PTL DEF Spec, StopAllDeletesClones

-----------------------------------------------------------------------------
(* What holds of instances and layers alone holds in a running project.    *)

LEMMA SameNext == [I!Next]_(I!instanceVars) => [IP!Next]_(IP!instanceVars)
  <1> SUFFICES ASSUME I!Next PROVE IP!Next
    BY DEF I!instanceVars, IP!instanceVars
  <1>1. CASE \E parent \in I!Source : I!RegisterPyInstance(parent)
    BY <1>1, SameSource, SameRegister DEF IP!Next
  <1>2. CASE \E i \in I!InstanceId : I!UnregisterInstance(i)
    BY <1>2, SameNames, SameUnregister DEF IP!Next
  <1>3. CASE I!CullUnregisteredInstances \/ I!DeleteAllClones
    BY <1>3, SameCull, SameDelete DEF IP!Next
  <1>4. CASE \E i \in I!InstanceId, kind \in I!MoveKind, n \in Offset :
               objects[i].actor \in I!Sprite /\ I!MoveWithinDrawLayerGroup(i, kind, n)
    BY <1>4, SameNames, SameMove DEF IP!Next
  <1> QED
    BY <1>1, <1>2, <1>3, <1>4 DEF I!Next

(* So what is proved of one holds of the other.                            *)
LEMMA SameAgreement == IP!DrawnAreInstances => I!DrawnAreInstances
  <1>1. IP!OriginalStays => I!OriginalStays
    BY DEF I!OriginalStays, IP!OriginalStays, I!Original, IP!Original, I!Min, IP!Min, I!Actor,
       IP!Actor
  <1>2. IP!InstancesAreDrawn => I!InstancesAreDrawn
    BY SameInstance, SameNames DEF I!InstancesAreDrawn, IP!InstancesAreDrawn
  <1> QED
    BY <1>1, <1>2, SameInstance, SameNames DEF I!DrawnAreInstances, IP!DrawnAreInstances,
       I!IsInjective, IP!IsInjective, I!LayerOf, IP!LayerOf, I!Stage, IP!Stage

(* If no thread clones a sprite which has been deleted, then at every      *)
(* moment of every frame and between frames the instances of all actors    *)
(* are drawn once each, in the right layer, nothing else is drawn, and the *)
(* originals are there.                                                    *)
THEOREM ProjectDrawsItsInstances ==
  ASSUME ~CloneDeleted
  PROVE  Spec => []I!DrawnAreInstances
  <1>1. Init => IP!InstInv /\ IP!InstancesAreDrawn
    BY SameInit, InstancesAssumed, IP!InitKeepsInv DEF Init
  <1>2. IP!InstInv /\ SchedInv /\ OwnersInv /\ IP!InstancesAreDrawn /\ [Next]_vars
          => IP!InstancesAreDrawn'
    BY InstancesMove, SameNext, IP!NextKeepsDrawn
  <1>3. IP!InstInv /\ IP!InstancesAreDrawn => I!DrawnAreInstances
    BY IP!DrawnAreAsTheyShould, SameAgreement
  <1> QED
    BY <1>1, <1>2, <1>3, OwnersHold, PTL DEF Spec

LEMMA SameOrder ==
  ASSUME IP!OrderKept
  PROVE  \A l \in I!Layer :
           I!Swapped(l) # {} =>
             /\ UNCHANGED <<objects, instances>>
             /\ \E moved \in I!InstanceId : \A p \in I!Swapped(l) : moved \in {p[1], p[2]}
  <1>1. \A l : I!Swapped(l) = IP!Swapped(l)
    BY DEF I!Swapped, IP!Swapped, I!InstanceId, IP!InstanceId, I!Behind, IP!Behind, I!Drawn,
       IP!Drawn, I!IndexOf, IP!IndexOf
  <1> QED
    BY <1>1, SameNames DEF IP!OrderKept

(* Whatever else threads, frames and the client do, only a move by a       *)
(* thread exchanges front and back, and only for the instance moved.       *)
THEOREM ProjectKeepsTheOrder == Spec => I!OrderIsStable
  <1>1. IP!InstInv /\ SchedInv /\ OwnersInv /\ [Next]_vars => IP!OrderKept
    BY InstancesMove, SameNext, IP!NextKeepsOrder
  <1>2. IP!InstInv /\ SchedInv /\ OwnersInv /\ [Next]_vars =>
          [\A l \in I!Layer :
             I!Swapped(l) # {} =>
               /\ UNCHANGED <<objects, instances>>
               /\ \E moved \in I!InstanceId : \A p \in I!Swapped(l) : moved \in {p[1], p[2]}
          ]_(I!instanceVars)
    BY <1>1, SameOrder
  <1> QED
    BY <1>2, OwnersHold, PTL DEF Spec, I!OrderIsStable

(* So does what holds of the queue of questions: in a project, users are   *)
(* asked one question at a time, and answers stay as they were given.      *)
THEOREM ProjectAsksOneAtATime == Spec => QP!AskSpec /\ QP!AnswersAreFinal
  <1>1. Init => QP!Init
    BY SameQueue DEF Init
  <1>2. [Next]_vars => [QP!Next]_(QP!questionVars)
    BY QuestionsStep, SameQueue
  <1>3. Spec => QP!Spec
    BY <1>1, <1>2, PTL DEF Spec, QP!Spec
  <1> QED
    BY <1>3, QP!QueueImplementsAskOneAtATime, QP!AnswersStayFinal, ProjectAssumption

=============================================================================
