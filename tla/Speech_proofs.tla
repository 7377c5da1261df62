--------------------------- MODULE Speech_proofs ---------------------------
(***************************************************************************)
(* Proofs about speech bubbles, for any number of threads, instances,      *)
(* texts and durations: the end of a wait in say_for_seconds() does not    *)
(* remove what was said later; what was said for a time stays for that     *)
(* time; and nobody forgets a bubble.  The first rests on there always     *)
(* being an id which neither a bubble nor a thread has.                    *)
(***************************************************************************)
EXTENDS Speech, FiniteSetTheorems, WellFoundedInduction, TLAPS

Doing == {"none", "ready", "saying", "asking", "answered"}
Time == Int \cup {Unending}
CallRecord == [doing : Doing, on : Instance, id : Nat, time : Time, left : Time]
Bubble == [id : Nat, text : Text \cup {Silence}]

TypeInv == /\ exists \subseteq Instance
           /\ speech \in [Instance -> Bubble]
           /\ threads \in [Thread -> CallRecord]
           /\ running \in Thread \cup {NoThread}
           /\ latest \in [Thread -> BOOLEAN]

(* A thread whose bubble is no longer there sees another one, or none; and *)
(* a thread in say_for_seconds() does remember a bubble.                   *)
SeesOther(t) ==
  threads[t].id # 0 /\ ~latest[t] => speech[threads[t].on].id # threads[t].id
Remembers(t) == threads[t].doing = "saying" => threads[t].id # 0

SpeechInv == TypeInv /\ \A t \in Thread : SeesOther(t) /\ Remembers(t)

-----------------------------------------------------------------------------
(* New ids. *)

LEMMA FewIds ==
  ASSUME TypeInv
  PROVE  /\ IsFiniteSet(UsedIds) /\ Cardinality(UsedIds) <= MaxInstances + MaxThreads
         /\ UsedIds \subseteq Nat
  <1> DEFINE Spoken == {speech[i].id : i \in Instance}
             Remembered == {threads[t].id : t \in Thread}
             f == [i \in Instance |-> speech[i].id]
             g == [t \in Thread |-> threads[t].id]
  <1>1. /\ IsFiniteSet(Instance) /\ Cardinality(Instance) = MaxInstances
        /\ IsFiniteSet(Thread) /\ Cardinality(Thread) = MaxThreads
        /\ MaxInstances \in Nat /\ MaxThreads \in Nat
    BY FS_Interval, SpeechAssumption DEF Instance, Thread
  <1>2. IsFiniteSet(Spoken) /\ Cardinality(Spoken) <= MaxInstances
    <2>1. f \in Surjection(Instance, Spoken)
      BY DEF Surjection
    <2> HIDE DEF f, Spoken
    <2> QED
      BY <1>1, <2>1, FS_Surjection
  <1>3. IsFiniteSet(Remembered) /\ Cardinality(Remembered) <= MaxThreads
    <2>1. g \in Surjection(Thread, Remembered)
      BY DEF Surjection
    <2> HIDE DEF g, Remembered
    <2> QED
      BY <1>1, <2>1, FS_Surjection
  <1>4. Spoken \subseteq Nat /\ Remembered \subseteq Nat
    BY DEF TypeInv, Bubble, CallRecord
  <1>5. UsedIds \subseteq Spoken \cup Remembered
    BY DEF UsedIds, TypeInv
  <1> HIDE DEF Spoken, Remembered
  <1>6. /\ IsFiniteSet(Spoken \cup Remembered)
        /\ Cardinality(Spoken \cup Remembered) <= MaxInstances + MaxThreads
    <2>1. /\ IsFiniteSet(Spoken \cup Remembered)
          /\ Cardinality(Spoken \cup Remembered) =
               Cardinality(Spoken) + Cardinality(Remembered)
                 - Cardinality(Spoken \cap Remembered)
      BY <1>2, <1>3, FS_Union
    <2>2. IsFiniteSet(Spoken \cap Remembered)
      BY <1>2, FS_Subset
    <2>3. /\ Cardinality(Spoken) \in Nat /\ Cardinality(Remembered) \in Nat
          /\ Cardinality(Spoken \cap Remembered) \in Nat
      BY <1>2, <1>3, <2>2, FS_CardinalityType
    <2> QED
      BY <1>1, <1>2, <1>3, <2>1, <2>3
  <1>7. /\ IsFiniteSet(UsedIds)
        /\ Cardinality(UsedIds) <= Cardinality(Spoken \cup Remembered)
    BY <1>5, <1>6, FS_Subset
  <1>8. Cardinality(UsedIds) \in Nat /\ Cardinality(Spoken \cup Remembered) \in Nat
    BY <1>6, <1>7, FS_CardinalityType
  <1> QED
    BY <1>1, <1>4, <1>5, <1>6, <1>7, <1>8

LEMMA SmallestOne ==
  ASSUME NEW S \in SUBSET Nat, S # {}
  PROVE  \E n \in S : \A k \in S : n <= k
  <1>1. \E n \in S : \A k \in S : ~(<<k, n>> \in OpToRel(<, Nat))
    BY NatLessThanWellFounded, WFMin
  <1>2. \A k, n \in Nat : k < n => <<k, n>> \in OpToRel(<, Nat)
    BY DEF OpToRel
  <1>3. PICK n \in S : \A k \in S : ~(<<k, n>> \in OpToRel(<, Nat))
    BY <1>1
  <1>4. \A k \in S : ~(k < n) /\ k \in Nat /\ n \in Nat
    BY <1>2, <1>3
  <1>5. \A k \in S : n <= k
    BY <1>4
  <1> QED
    BY <1>5

LEMMA IdsAreNew ==
  ASSUME TypeInv
  PROVE  NewSpeechId \in Nat \ {0} /\ NewSpeechId \notin UsedIds
  <1> DEFINE N == MaxInstances + MaxThreads + 1
             Free == (1..N) \ UsedIds
  <1>1. N \in Nat \ {0} /\ MaxInstances + MaxThreads \in Nat
    BY SpeechAssumption
  <1>2. Free # {}
    <2>1. IsFiniteSet(1..N) /\ Cardinality(1..N) = N
      BY <1>1, FS_Interval
    <2>2. IsFiniteSet(UsedIds) /\ Cardinality(UsedIds) <= MaxInstances + MaxThreads
      BY FewIds
    <2>3. Cardinality(UsedIds) \in Nat
      BY <2>2, FS_CardinalityType
    <2>4. SUFFICES ASSUME 1..N \subseteq UsedIds PROVE FALSE
      OBVIOUS
    <2>5. Cardinality(1..N) <= Cardinality(UsedIds)
      BY <2>2, <2>4, FS_Subset
    <2> HIDE DEF N
    <2>6. N <= MaxInstances + MaxThreads
      BY <1>1, <2>1, <2>2, <2>3, <2>5
    <2> QED
      BY <1>1, <2>6 DEF N
  <1>3. PICK n \in Free : \A k \in Free : n <= k
    <2>1. Free \in SUBSET Nat
      BY <1>1
    <2> HIDE DEF Free
    <2> QED
      BY <1>2, <2>1, SmallestOne
  <1>4. n \in 1..N /\ n \notin UsedIds /\ \A k \in 1..(n - 1) : k \in UsedIds
    BY <1>1, <1>3
  <1> HIDE DEF Free
  <1>5. \E m \in 1..N : m \notin UsedIds /\ \A k \in 1..(m - 1) : k \in UsedIds
    BY <1>4
  <1>6. NewSpeechId \in 1..N /\ NewSpeechId \notin UsedIds
    BY <1>5 DEF NewSpeechId
  <1> QED
    BY <1>1, <1>6

LEMMA NewIdDiffers ==
  ASSUME TypeInv
  PROVE  /\ NewSpeechId \in Nat \ {0}
         /\ \A t \in Thread : threads[t].id # NewSpeechId
  BY IdsAreNew DEF UsedIds

-----------------------------------------------------------------------------
(* Steps.  Each leaves to every thread a bubble of its own, or another.    *)

LEMMA InitInv == Init => SpeechInv
  <1> SUFFICES ASSUME Init PROVE SpeechInv
    OBVIOUS
  <1>1. Original \in Instance
    BY SpeechAssumption DEF Original, Instance
  <1>2. TypeInv
    BY <1>1 DEF Init, TypeInv, Bubble, CallRecord, Doing, Time, Gone, Call, NoThread
  <1>3. \A t \in Thread : SeesOther(t) /\ Remembers(t)
    BY DEF Init, SeesOther, Remembers, Gone, Call
  <1> QED
    BY <1>2, <1>3 DEF SpeechInv

LEMMA CallTypes ==
  ASSUME NEW i \in Instance
  PROVE  /\ Ready(i) \in CallRecord /\ Ready(i).id = 0 /\ Ready(i).on = i
         /\ Ready(i).doing = "ready"
         /\ Gone \in CallRecord /\ Gone.id = 0 /\ Gone.doing = "none"
         /\ Original \in Instance
  BY SpeechAssumption
  DEF Ready, Gone, Call, CallRecord, Doing, Time, Original, Instance

(* Somebody speaks, or falls silent: the bubble of i gets a new id, and    *)
(* only the thread that remembers it may think that it is its own.         *)
LEMMA NewBubble ==
  ASSUME SpeechInv, NEW i \in Instance, NEW text \in Text \cup {Silence},
         speech' = [speech EXCEPT ![i] = [id |-> NewSpeechId, text |-> text]],
         NEW t \in Thread,
         \/ threads'[t].id = 0
         \/ threads'[t].id = NewSpeechId /\ latest'[t]
         \/ /\ threads'[t].id = threads[t].id /\ threads'[t].on = threads[t].on
            /\ latest'[t] = (latest[t] /\ threads[t].on # i)
  PROVE  SeesOther(t)'
  <1>1. /\ speech \in [Instance -> Bubble] /\ threads[t].on \in Instance
        /\ threads[t].id # NewSpeechId
    BY NewIdDiffers DEF SpeechInv, TypeInv, CallRecord
  <1>2. /\ speech'[i].id = NewSpeechId
        /\ \A j \in Instance \ {i} : speech'[j] = speech[j]
    BY <1>1
  <1>3. CASE threads'[t].id = 0
    BY <1>3 DEF SeesOther
  <1>4. CASE threads'[t].id = NewSpeechId /\ latest'[t]
    BY <1>4 DEF SeesOther
  <1>5. CASE /\ threads'[t].id = threads[t].id /\ threads'[t].on = threads[t].on
             /\ latest'[t] = (latest[t] /\ threads[t].on # i)
    <2>1. CASE threads[t].on = i
      BY <1>1, <1>2, <1>5, <2>1 DEF SeesOther
    <2>2. CASE threads[t].on # i
      BY <1>1, <1>2, <1>5, <2>2 DEF SpeechInv, SeesOther
    <2> QED
      BY <2>1, <2>2
  <1> QED
    BY <1>3, <1>4, <1>5

LEMMA NewBubbleType ==
  ASSUME SpeechInv, NEW i \in Instance, NEW text \in Text \cup {Silence}
  PROVE  [speech EXCEPT ![i] = [id |-> NewSpeechId, text |-> text]]
           \in [Instance -> Bubble]
  BY NewIdDiffers DEF SpeechInv, TypeInv, Bubble

(* Bubbles stay, or go: a thread keeps its call, or forgets its id.        *)
LEMMA NoNewBubble ==
  ASSUME SpeechInv, NEW t \in Thread,
         \/ threads'[t].id = 0
         \/ /\ threads'[t].id = threads[t].id /\ threads'[t].on = threads[t].on
            /\ latest'[t] = latest[t]
            /\ speech'[threads[t].on].id \in {speech[threads[t].on].id, 0}
  PROVE  SeesOther(t)'
  BY DEF SpeechInv, SeesOther

-----------------------------------------------------------------------------
LEMMA ClearSpeechInv ==
  ASSUME SpeechInv, NEW t \in Thread, ClearSpeech(t),
         threads' = [threads EXCEPT ![t] = Ready(@.on)]
  PROVE  /\ speech' \in [Instance -> Bubble]
         /\ latest' \in [Thread -> BOOLEAN]
         /\ \A u \in Thread : SeesOther(u)'
  <1>1. threads \in [Thread -> CallRecord] /\ latest \in [Thread -> BOOLEAN]
    BY DEF SpeechInv, TypeInv
  <1> DEFINE i == threads[t].on
  <1>2. /\ i \in Instance
        /\ speech' = [speech EXCEPT ![i] = [id |-> NewSpeechId, text |-> Silence]]
        /\ latest' = [u \in Thread |-> latest[u] /\ threads[u].on # i]
    BY <1>1 DEF ClearSpeech, CallRecord
  <1>3. threads'[t].id = 0 /\ \A u \in Thread \ {t} : threads'[u] = threads[u]
    BY <1>1, <1>2, CallTypes
  <1> HIDE DEF i
  <1>4. ASSUME NEW u \in Thread PROVE SeesOther(u)'
    <2>1. CASE u = t
      BY <1>3, <2>1 DEF SeesOther
    <2>2. CASE u # t
      <3>1. /\ threads'[u].id = threads[u].id /\ threads'[u].on = threads[u].on
            /\ latest'[u] = (latest[u] /\ threads[u].on # i)
        BY <1>2, <1>3, <2>2
      <3> QED
        BY <1>2, <3>1, NewBubble
    <2> QED
      BY <2>1, <2>2
  <1>5. speech' \in [Instance -> Bubble]
    BY <1>2, NewBubbleType
  <1>6. latest' \in [Thread -> BOOLEAN]
    BY <1>1, <1>2
  <1> QED
    BY <1>4, <1>5, <1>6

LEMMA BeginTurnInv ==
  ASSUME SpeechInv, NEW t \in Thread, BeginTurn(t)
  PROVE  SpeechInv'
  <1>1. /\ threads \in [Thread -> CallRecord] /\ latest \in [Thread -> BOOLEAN]
        /\ speech \in [Instance -> Bubble]
        /\ threads[t].on \in Instance
    BY DEF SpeechInv, TypeInv, CallRecord
  <1>2. /\ threads' = [threads EXCEPT ![t] = Ready(@.on)]
        /\ running' = t /\ UNCHANGED exists
    BY DEF BeginTurn
  <1>3. /\ threads'[t] = Ready(threads[t].on)
        /\ \A u \in Thread \ {t} : threads'[u] = threads[u]
        /\ threads' \in [Thread -> CallRecord]
    BY <1>1, <1>2, CallTypes
  <1>4. ClearSpeech(t) \/ /\ UNCHANGED speech
                          /\ latest' = latest \/ latest' = [latest EXCEPT ![t] = FALSE]
    BY DEF BeginTurn, EndOfSayForSeconds, EndOfAskAndWait
  <1>5. /\ speech' \in [Instance -> Bubble]
        /\ latest' \in [Thread -> BOOLEAN]
        /\ \A u \in Thread : SeesOther(u)'
    <2>1. CASE ClearSpeech(t)
      BY <1>2, <2>1, ClearSpeechInv
    <2>2. CASE /\ UNCHANGED speech
               /\ latest' = latest \/ latest' = [latest EXCEPT ![t] = FALSE]
      <3>1. ASSUME NEW u \in Thread PROVE SeesOther(u)'
        <4>1. CASE u = t
          BY <1>1, <1>3, <4>1, CallTypes DEF SeesOther
        <4>2. CASE u # t
          BY <1>1, <1>3, <2>2, <4>2, NoNewBubble
        <4> QED
          BY <4>1, <4>2
      <3> QED
        BY <1>1, <2>2, <3>1
    <2> QED
      BY <1>4, <2>1, <2>2
  <1>6. \A u \in Thread : Remembers(u)'
    BY <1>1, <1>3, CallTypes DEF SpeechInv, Remembers
  <1> QED
    BY <1>2, <1>3, <1>5, <1>6 DEF SpeechInv, TypeInv

-----------------------------------------------------------------------------
(* What a thread does in its turn. *)

LEMMA RunningTypes ==
  ASSUME SpeechInv, running # NoThread
  PROVE  /\ running \in Thread /\ Self \in Instance
         /\ threads \in [Thread -> CallRecord] /\ threads[running].on = Self
         /\ latest \in [Thread -> BOOLEAN] /\ speech \in [Instance -> Bubble]
         /\ exists \subseteq Instance
  BY DEF SpeechInv, TypeInv, CallRecord, Self

(* Its calls, and those of the others. *)
LEMMA EndTurnTypes ==
  ASSUME SpeechInv, running # NoThread, NEW call \in CallRecord, EndTurn(call)
  PROVE  /\ threads' \in [Thread -> CallRecord] /\ threads'[running] = call
         /\ \A u \in Thread \ {running} : threads'[u] = threads[u]
         /\ running' \in Thread \cup {NoThread}
         /\ (call.doing = "saying" => call.id # 0) => \A u \in Thread : Remembers(u)'
  <1>1. /\ threads' \in [Thread -> CallRecord] /\ threads'[running] = call
        /\ \A u \in Thread \ {running} : threads'[u] = threads[u]
        /\ running' \in Thread \cup {NoThread}
    BY RunningTypes DEF EndTurn
  <1> QED
    BY <1>1 DEF SpeechInv, Remembers

LEMMA UtterTypes ==
  ASSUME SpeechInv, running # NoThread, NEW text \in Text \cup {Silence},
         NEW why, NEW own \in BOOLEAN, Utter(text, why, own)
  PROVE  /\ speech' \in [Instance -> Bubble] /\ latest' \in [Thread -> BOOLEAN]
         /\ speech' = [speech EXCEPT ![Self] = [id |-> NewSpeechId, text |-> text]]
         /\ latest'[running] = own
         /\ \A u \in Thread \ {running} :
              latest'[u] = (latest[u] /\ threads[u].on # Self)
  <1>1. /\ speech' = [speech EXCEPT ![Self] = [id |-> NewSpeechId, text |-> text]]
        /\ latest' = [t \in Thread |-> IF t = running THEN own
                                       ELSE latest[t] /\ threads[t].on # Self]
    BY DEF Utter
  <1>2. speech' \in [Instance -> Bubble]
    BY <1>1, RunningTypes, NewBubbleType
  <1> QED
    BY <1>1, <1>2, RunningTypes

LEMMA SayInv ==
  ASSUME SpeechInv, running # NoThread, NEW text \in Text \cup {Silence}, Say(text)
  PROVE  SpeechInv'
  <1>1. Utter(text, "said", FALSE) /\ UNCHANGED <<exists, threads, running>>
    BY DEF Say
  <1>2. ASSUME NEW t \in Thread PROVE SeesOther(t)'
    <2>1. latest'[t] = (latest[t] /\ threads[t].on # Self)
      BY <1>1, RunningTypes, UtterTypes
    <2>2. threads'[t].id = threads[t].id /\ threads'[t].on = threads[t].on
      BY <1>1
    <2>3. speech' = [speech EXCEPT ![Self] = [id |-> NewSpeechId, text |-> text]]
      BY <1>1, UtterTypes
    <2> QED
      BY <2>1, <2>2, <2>3, RunningTypes, NewBubble
  <1>3. TypeInv'
    BY <1>1, UtterTypes DEF SpeechInv, TypeInv
  <1> QED
    BY <1>1, <1>2, <1>3 DEF SpeechInv, Remembers

(* Speaking, and waiting with the bubble's id. *)
LEMMA SpeakAndWaitInv ==
  ASSUME SpeechInv, running # NoThread, NEW text \in Text \cup {Silence}, NEW why,
         NEW call \in CallRecord, call.id = NewSpeechId,
         EndTurn(call), Utter(text, why, TRUE), UNCHANGED exists
  PROVE  SpeechInv'
  <1>1. call.id # 0
    BY NewIdDiffers DEF SpeechInv
  <1>2. /\ speech' = [speech EXCEPT ![Self] = [id |-> NewSpeechId, text |-> text]]
        /\ latest'[running]
        /\ \A u \in Thread \ {running} :
             latest'[u] = (latest[u] /\ threads[u].on # Self)
    BY UtterTypes
  <1>3. /\ threads'[running] = call
        /\ \A u \in Thread \ {running} : threads'[u] = threads[u]
    BY EndTurnTypes
  <1>4. ASSUME NEW t \in Thread PROVE SeesOther(t)'
    <2>1. CASE t = running
      BY <1>2, <1>3, <2>1, RunningTypes DEF SeesOther
    <2>2. CASE t # running
      <3>1. /\ threads'[t].id = threads[t].id /\ threads'[t].on = threads[t].on
            /\ latest'[t] = (latest[t] /\ threads[t].on # Self)
        BY <1>2, <1>3, <2>2
      <3> QED
        BY <1>2, <3>1, RunningTypes, NewBubble
    <2> QED
      BY <2>1, <2>2
  <1>5. TypeInv'
    BY UtterTypes, EndTurnTypes DEF SpeechInv, TypeInv
  <1> QED
    BY <1>1, <1>4, <1>5, EndTurnTypes DEF SpeechInv

LEMMA SayForSecondsInv ==
  ASSUME SpeechInv, running # NoThread, NEW text \in Text \cup {Silence},
         NEW h \in HalfFrames \cup {Unending}, SayForSeconds(text, h)
  PROVE  SpeechInv'
  <1>1. h \in Time /\ Frames(h) \in Time
    BY SpeechAssumption DEF Time, Frames
  <1> DEFINE call == Call("saying", Self, NewSpeechId, h, Frames(h))
  <1>2. call \in CallRecord /\ call.id = NewSpeechId
    BY <1>1, RunningTypes, NewIdDiffers DEF SpeechInv, Call, CallRecord, Doing
  <1>3. EndTurn(call) /\ Utter(text, "timed", TRUE) /\ UNCHANGED exists
    BY DEF SayForSeconds
  <1> HIDE DEF call
  <1> QED
    BY <1>2, <1>3, SpeakAndWaitInv

LEMMA AskAndWaitShownInv ==
  ASSUME SpeechInv, running # NoThread, NEW text \in Text, AskAndWaitShown(text)
  PROVE  SpeechInv'
  <1> DEFINE call == Call("asking", Self, NewSpeechId, 0, 0)
  <1>1. call \in CallRecord /\ call.id = NewSpeechId
    BY RunningTypes, NewIdDiffers DEF SpeechInv, Call, CallRecord, Doing, Time
  <1>2. EndTurn(call) /\ Utter(text, "prompt", TRUE) /\ UNCHANGED exists
    BY DEF AskAndWaitShown
  <1> HIDE DEF call
  <1> QED
    BY <1>1, <1>2, SpeakAndWaitInv

(* Ending a turn without saying anything. *)
LEMMA QuietEndInv ==
  ASSUME SpeechInv, running # NoThread, NEW call \in CallRecord, call.id = 0,
         call.doing # "saying", EndTurn(call), UNCHANGED <<exists, speech>>,
         latest' = latest \/ latest' = [latest EXCEPT ![running] = FALSE]
  PROVE  SpeechInv'
  <1>1. ASSUME NEW t \in Thread PROVE SeesOther(t)'
    <2>1. CASE t = running
      BY <2>1, EndTurnTypes, NoNewBubble
    <2>2. CASE t # running
      BY <2>2, EndTurnTypes, RunningTypes, NoNewBubble
    <2> QED
      BY <2>1, <2>2
  <1>2. TypeInv'
    BY EndTurnTypes, RunningTypes DEF SpeechInv, TypeInv
  <1> QED
    BY <1>1, <1>2, EndTurnTypes DEF SpeechInv

(* A clone speaks as its parent does; no thread of an earlier instance in  *)
(* its place is left.                                                      *)
LEMMA CreateCloneInv ==
  ASSUME SpeechInv, running # NoThread, CreateClone
  PROVE  SpeechInv'
  <1>1. PICK c \in Instance \ exists :
          /\ \A t \in Thread : threads[t] # Gone => threads[t].on # c
          /\ exists' = exists \cup {c}
          /\ speech' = [speech EXCEPT ![c] = speech[Self]]
          /\ EndTurn(Ready(Self))
          /\ UNCHANGED latest
    BY DEF CreateClone
  <1>2. Ready(Self) \in CallRecord /\ Ready(Self).id = 0 /\ Ready(Self).doing = "ready"
    BY RunningTypes, CallTypes
  <1>3. ASSUME NEW t \in Thread PROVE SeesOther(t)'
    <2>1. CASE t = running
      BY <1>1, <1>2, <2>1, EndTurnTypes DEF SeesOther
    <2>2. CASE t # running /\ threads[t] = Gone
      BY <1>1, <1>2, <2>2, EndTurnTypes, RunningTypes, CallTypes DEF SeesOther
    <2>3. CASE t # running /\ threads[t] # Gone
      <3>1. threads'[t] = threads[t] /\ threads[t].on \in Instance
        BY <1>1, <1>2, <2>3, EndTurnTypes, RunningTypes DEF CallRecord
      <3>2. speech'[threads[t].on] = speech[threads[t].on]
        BY <1>1, <2>3, <3>1, RunningTypes
      <3> QED
        BY <1>1, <3>1, <3>2, NoNewBubble
    <2> QED
      BY <2>1, <2>2, <2>3
  <1>4. TypeInv'
    BY <1>1, <1>2, EndTurnTypes, RunningTypes DEF SpeechInv, TypeInv
  <1> QED
    BY <1>1, <1>2, <1>3, <1>4, EndTurnTypes DEF SpeechInv

LEMMA TurnInv ==
  ASSUME SpeechInv, TurnGoesOn \/ TurnEnds
  PROVE  SpeechInv'
  <1>1. running # NoThread
    BY DEF TurnGoesOn, TurnEnds
  <1>2. /\ Ready(Self) \in CallRecord /\ Ready(Self).id = 0 /\ Ready(Self).doing = "ready"
        /\ Gone \in CallRecord /\ Gone.id = 0 /\ Gone.doing = "none"
    BY <1>1, RunningTypes, CallTypes
  <1>3. CASE TurnGoesOn
    BY <1>1, <1>3, SayInv DEF TurnGoesOn
  <1>4. CASE AskAndWaitHidden
    <2> DEFINE call == Call("asking", Self, 0, 0, 0)
    <2>1. call \in CallRecord /\ call.id = 0 /\ call.doing # "saying"
      BY <1>1, RunningTypes DEF Call, CallRecord, Doing, Time
    <2>2. EndTurn(call) /\ UNCHANGED <<exists, speech, latest>>
      BY <1>4 DEF AskAndWaitHidden
    <2> HIDE DEF call
    <2> QED
      BY <1>1, <2>1, <2>2, QuietEndInv
  <1>5. CASE DeleteThisClone
    BY <1>1, <1>2, <1>5, QuietEndInv DEF DeleteThisClone
  <1>6. CASE EndTurnAs(Ready(Self)) \/ EndTurnAs(Gone)
    BY <1>1, <1>2, <1>6, QuietEndInv DEF EndTurnAs
  <1> QED
    BY <1>1, <1>3, <1>4, <1>5, <1>6, SayForSecondsInv, AskAndWaitShownInv, CreateCloneInv
    DEF TurnEnds

-----------------------------------------------------------------------------
(* Frames, and what happens between them. *)

LEMMA WaitedKeepsId ==
  ASSUME NEW c \in CallRecord
  PROVE  /\ Waited(c) \in CallRecord
         /\ \/ Waited(c).id = 0 /\ Waited(c).doing = "none"
            \/ /\ Waited(c).id = c.id /\ Waited(c).on = c.on /\ Waited(c).doing = c.doing
               /\ c.on \in exists
  <1>1. CASE c.on \notin exists
    <2>1. Waited(c) = Gone
      BY <1>1 DEF Waited
    <2>2. c.on \in Instance
      BY DEF CallRecord
    <2> QED
      BY <2>1, <2>2, CallTypes
  <1>2. CASE c.on \in exists /\ c.doing = "saying" /\ c.left # Unending
    <2> DEFINE left == IF c.left < 0 THEN c.left ELSE c.left - 1
    <2>1. c.left \in Int /\ left \in Time
      BY <1>2 DEF CallRecord, Time
    <2>2. Waited(c) = [c EXCEPT !.left = left]
      BY <1>2 DEF Waited
    <2> HIDE DEF left
    <2> QED
      BY <1>2, <2>1, <2>2 DEF CallRecord
  <1>3. CASE c.on \in exists /\ ~(c.doing = "saying" /\ c.left # Unending)
    BY <1>3 DEF Waited
  <1> QED
    BY <1>1, <1>2, <1>3

LEMMA StartFrameInv == SpeechInv /\ StartFrame => SpeechInv'
  <1> SUFFICES ASSUME SpeechInv, StartFrame PROVE SpeechInv'
    OBVIOUS
  <1>1. /\ threads' = [t \in Thread |-> Waited(threads[t])]
        /\ threads \in [Thread -> CallRecord]
        /\ latest' = [t \in Thread |-> latest[t] /\ threads[t].on \in exists]
        /\ latest \in [Thread -> BOOLEAN]
        /\ UNCHANGED <<exists, speech, running>>
    BY DEF StartFrame, SpeechInv, TypeInv
  <1>2. ASSUME NEW t \in Thread
        PROVE  /\ threads'[t] \in CallRecord
               /\ \/ threads'[t].id = 0 /\ threads'[t].doing = "none"
                  \/ /\ threads'[t].id = threads[t].id /\ threads'[t].on = threads[t].on
                     /\ threads'[t].doing = threads[t].doing /\ latest'[t] = latest[t]
    <2>1. /\ threads'[t] = Waited(threads[t]) /\ threads[t] \in CallRecord
          /\ latest'[t] = (latest[t] /\ threads[t].on \in exists)
          /\ latest[t] \in BOOLEAN
      BY <1>1
    <2>2. threads[t].on \in exists => latest'[t] = latest[t]
      BY <2>1
    <2> QED
      BY <2>1, <2>2, WaitedKeepsId
  <1>3. ASSUME NEW t \in Thread PROVE SeesOther(t)' /\ Remembers(t)'
    <2>1. SeesOther(t)'
      BY <1>1, <1>2, NoNewBubble
    <2>2. Remembers(t)'
      BY <1>2 DEF SpeechInv, Remembers
    <2> QED
      BY <2>1, <2>2
  <1>4. threads' \in [Thread -> CallRecord]
    BY <1>1, <1>2
  <1> QED
    BY <1>1, <1>3, <1>4 DEF SpeechInv, TypeInv

LEMMA SilencedTypes ==
  ASSUME SpeechInv, NEW S, Silenced(S)
  PROVE  /\ speech' \in [Instance -> Bubble]
         /\ \A i \in Instance : speech'[i].id \in {speech[i].id, 0}
  <1>1. speech' = [i \in Instance |-> IF i \in S THEN [id |-> 0, text |-> Silence]
                                      ELSE speech[i]]
    BY DEF Silenced
  <1>2. [id |-> 0, text |-> Silence] \in Bubble
    BY DEF Bubble
  <1> QED
    BY <1>1, <1>2 DEF SpeechInv, TypeInv

LEMMA NoThreadsInv ==
  ASSUME SpeechInv, NoThreads, NEW S, Silenced(S), exists' \subseteq Instance,
         running' \in Thread \cup {NoThread}
  PROVE  SpeechInv'
  <1>1. /\ threads' = [t \in Thread |-> Gone] /\ latest' = [t \in Thread |-> FALSE]
    BY DEF NoThreads
  <1>2. Gone \in CallRecord /\ Gone.id = 0 /\ Gone.doing = "none"
    <2>1. Original \in Instance
      BY SpeechAssumption DEF Original, Instance
    <2> QED
      BY <2>1, CallTypes
  <1>3. TypeInv'
    BY <1>1, <1>2, SilencedTypes DEF TypeInv
  <1>4. ASSUME NEW t \in Thread PROVE SeesOther(t)' /\ Remembers(t)'
    BY <1>1, <1>2 DEF SeesOther, Remembers
  <1> QED
    BY <1>3, <1>4 DEF SpeechInv

LEMMA EndFrameInv == SpeechInv /\ EndFrame => SpeechInv'
  <1> SUFFICES ASSUME SpeechInv, EndFrame PROVE SpeechInv'
    OBVIOUS
  <1>1. /\ exists' = exists \ doomed /\ Silenced(doomed)
        /\ UNCHANGED <<threads, running, latest>>
    BY DEF EndFrame, CullInstances, FrameOver
  <1>2. ASSUME NEW t \in Thread PROVE SeesOther(t)' /\ Remembers(t)'
    <2>1. threads[t].on \in Instance
      BY DEF SpeechInv, TypeInv, CallRecord
    <2>2. SeesOther(t)'
      BY <1>1, <2>1, SilencedTypes, NoNewBubble
    <2> QED
      BY <1>1, <2>2 DEF SpeechInv, Remembers
  <1> QED
    BY <1>1, <1>2, SilencedTypes DEF SpeechInv, TypeInv

LEMMA StopInv ==
  ASSUME SpeechInv, OnRedStopClicked \/ EndFrameAfterStop \/ EndFrameAfterException
  PROVE  SpeechInv'
  <1>1. Original \in Instance
    BY SpeechAssumption DEF Original, Instance
  <1>2. UNCHANGED running
    BY DEF OnRedStopClicked, EndFrameAfterStop, EndFrameAfterException, FrameOver
  <1>3. CASE OnRedStopClicked \/ EndFrameAfterStop
    <2>1. NoThreads /\ exists' = {Original} /\ Silenced(Instance)
      BY <1>3 DEF OnRedStopClicked, EndFrameAfterStop, StopEverything
    <2> QED
      BY <1>1, <1>2, <2>1, NoThreadsInv DEF SpeechInv, TypeInv
  <1>4. CASE EndFrameAfterException
    <2>1. NoThreads /\ exists' = exists \ doomed /\ Silenced(doomed)
      BY <1>4 DEF EndFrameAfterException, CullInstances
    <2> QED
      BY <1>2, <2>1, NoThreadsInv DEF SpeechInv, TypeInv
  <1> QED
    BY <1>3, <1>4

LEMMA StartThreadInv ==
  ASSUME SpeechInv, NEW t \in Thread, NEW i \in Instance, StartThread(t, i)
  PROVE  SpeechInv'
  <1>1. /\ threads' = [threads EXCEPT ![t] = Ready(i)]
        /\ threads \in [Thread -> CallRecord]
        /\ UNCHANGED <<exists, speech, running, latest>>
    BY DEF StartThread, SpeechInv, TypeInv
  <1>2. /\ threads' \in [Thread -> CallRecord] /\ threads'[t] = Ready(i)
        /\ \A u \in Thread \ {t} : threads'[u] = threads[u]
    BY <1>1, CallTypes
  <1>3. ASSUME NEW u \in Thread PROVE SeesOther(u)' /\ Remembers(u)'
    <2>1. CASE u = t
      BY <1>2, <2>1, CallTypes DEF SeesOther, Remembers
    <2>2. CASE u # t
      BY <1>1, <1>2, <2>2 DEF SpeechInv, SeesOther, Remembers
    <2> QED
      BY <2>1, <2>2
  <1> QED
    BY <1>1, <1>2, <1>3 DEF SpeechInv, TypeInv

LEMMA AnswerInv ==
  ASSUME SpeechInv, NEW t \in Thread, Answer(t)
  PROVE  SpeechInv'
  <1>1. /\ threads' = [threads EXCEPT ![t] = [threads[t] EXCEPT !.doing = "answered"]]
        /\ threads \in [Thread -> CallRecord]
        /\ UNCHANGED <<exists, speech, running, latest>>
    BY DEF Answer, SpeechInv, TypeInv
  <1> DEFINE c == [threads[t] EXCEPT !.doing = "answered"]
  <1>2. /\ c \in CallRecord /\ c.doing = "answered"
        /\ c.id = threads[t].id /\ c.on = threads[t].on
    <2>1. threads[t] \in CallRecord
      BY <1>1
    <2> QED
      BY <2>1 DEF CallRecord, Doing
  <1>3. /\ threads' \in [Thread -> CallRecord] /\ threads'[t] = c
        /\ \A u \in Thread \ {t} : threads'[u] = threads[u]
    BY <1>1, <1>2
  <1> HIDE DEF c
  <1>4. ASSUME NEW u \in Thread PROVE SeesOther(u)' /\ Remembers(u)'
    <2>1. CASE u = t
      BY <1>1, <1>2, <1>3, <2>1 DEF SpeechInv, SeesOther, Remembers
    <2>2. CASE u # t
      BY <1>1, <1>3, <2>2 DEF SpeechInv, SeesOther, Remembers
    <2> QED
      BY <2>1, <2>2
  <1> QED
    BY <1>1, <1>3, <1>4 DEF SpeechInv, TypeInv

LEMMA NextInv == SpeechInv /\ [Next]_vars => SpeechInv'
  <1> SUFFICES ASSUME SpeechInv, [Next]_vars PROVE SpeechInv'
    OBVIOUS
  <1>1. CASE FrameGoesOn
    BY <1>1, StartFrameInv, BeginTurnInv, TurnInv, EndFrameInv, StopInv DEF FrameGoesOn
  <1>2. CASE TurnGoesOn \/ OnRedStopClicked
    BY <1>2, TurnInv, StopInv
  <1>3. ASSUME NEW t \in Thread, Answer(t) \/ \E i \in Instance : StartThread(t, i)
        PROVE  SpeechInv'
    BY <1>3, AnswerInv, StartThreadInv
  <1>4. CASE UNCHANGED vars
    BY <1>4 DEF vars, SpeechInv, TypeInv, SeesOther, Remembers
  <1> QED
    BY <1>1, <1>2, <1>3, <1>4 DEF Next

-----------------------------------------------------------------------------
(* A turn begins only in BeginTurn. *)
LEMMA WhoBegins ==
  ASSUME Next, NEW t \in Thread, running = NoThread, running' = t
  PROVE  BeginTurn(t)
  <1>1. running' # running
    BY DEF Thread, NoThread
  <1> QED
    BY <1>1 DEF Next, FrameGoesOn, StartFrame, BeginTurn, TurnEnds, TurnGoesOn,
                EndFrame, EndFrameAfterException, EndFrameAfterStop, FrameOver,
                OnRedStopClicked, Answer, StartThread

(* "Only erase utterance if it's ours" (src/lib/pytch/actor.py): when the  *)
(* wait of a say_for_seconds() is over, and its bubble has been replaced,  *)
(* nothing is removed, whatever the others have said and however the       *)
(* instances have come and gone meanwhile.                                 *)
THEOREM OthersSpeechStays == Spec => LaterSpeechStays
  <1> DEFINE Stays == \A t \in IsDoing("saying") :
                        running' = t /\ running = NoThread /\ ~latest[t] => UNCHANGED speech
  <1>1. SpeechInv /\ [Next]_vars => [Stays]_vars
    <2> SUFFICES ASSUME SpeechInv, Next, NEW t \in Thread, threads[t].doing = "saying",
                        running' = t, running = NoThread, ~latest[t]
                 PROVE  UNCHANGED speech
      BY DEF IsDoing
    <2>1. BeginTurn(t)
      BY WhoBegins
    <2>2. speech[threads[t].on].id # threads[t].id
      BY DEF SpeechInv, SeesOther, Remembers
    <2> QED
      BY <2>1, <2>2 DEF BeginTurn, EndOfSayForSeconds
  <1>2. Spec => []SpeechInv
    BY InitInv, NextInv, PTL DEF Spec
  <1> QED
    BY <1>1, <1>2, PTL DEF Spec, LaterSpeechStays

-----------------------------------------------------------------------------
(* Waiting for a time.                                                     *)
Waiting == {"saying", "asking", "answered"}

(* Turns are given in frames, each thread one; those to come are of the    *)
(* threads which StartFrame found ready, answered or at the end of a wait. *)
FrameShape ==
  /\ inFrame \in BOOLEAN /\ todo \subseteq Thread
  /\ ~inFrame => todo = {} /\ running = NoThread
  /\ running \notin todo
  /\ running # NoThread => threads[running].doing = "ready" /\ rendered[running] = 0
  /\ \A t \in todo : \/ threads[t].doing \in {"ready", "answered"}
                     \/ threads[t].doing = "saying" /\ threads[t].left = 0

(* Frames rendered and frames left make up the wait.  A frame that is      *)
(* being run is not yet rendered, but has been counted as waited.          *)
FramesLeft(t) ==
  /\ threads[t].time \in Int /\ threads[t].left \in Nat
  /\ rendered[t] + threads[t].left = Frames(threads[t].time) + (IF inFrame THEN 0 ELSE 1)
  /\ threads[t].left = 0 => t \in todo

CountsDown(t) == threads[t].doing = "saying" => threads[t].left = Unending \/ FramesLeft(t)

WaitInv == /\ FrameShape
           /\ rendered \in [Thread -> Nat]
           /\ \A t \in Thread : CountsDown(t)

(* Frames is the least number of frames that last long enough. *)
LEMMA FramesFacts ==
  ASSUME NEW h \in Int
  PROVE  /\ Frames(h) \in Nat /\ Frames(h) >= 1
         /\ LastsLongEnough(Frames(h), h)
         /\ \A n \in Int : n < Frames(h) => ~LastsLongEnough(n, h)
  BY SpeechAssumption DEF Frames, LastsLongEnough

LEMMA InitWait == Init => WaitInv
  <1> SUFFICES ASSUME Init PROVE WaitInv
    OBVIOUS
  <1>1. FrameShape
    BY DEF Init, FrameShape, NoThread, Thread
  <1>2. rendered \in [Thread -> Nat]
    BY DEF Init
  <1>3. \A t \in Thread : threads[t].doing = "none"
    BY DEF Init, Gone, Call
  <1> QED
    BY <1>1, <1>2, <1>3 DEF WaitInv, CountsDown

LEMMA WaitTypes ==
  ASSUME SpeechInv, WaitInv
  PROVE  /\ threads \in [Thread -> CallRecord] /\ rendered \in [Thread -> Nat]
         /\ running \in Thread \cup {NoThread} /\ NoThread \notin Thread
         /\ todo \subseteq Thread /\ inFrame \in BOOLEAN
         /\ Unending \notin Int
  BY SpeechAssumption DEF SpeechInv, TypeInv, WaitInv, FrameShape, Thread, NoThread

LEMMA BeginTurnWait ==
  ASSUME SpeechInv, WaitInv, NEW t \in Thread, BeginTurn(t)
  PROVE  WaitInv'
  <1>1. /\ threads' = [threads EXCEPT ![t] = Ready(threads[t].on)]
        /\ rendered' = [rendered EXCEPT ![t] = 0]
        /\ running' = t /\ todo' = todo \ {t} /\ inFrame /\ inFrame' = inFrame
    BY DEF BeginTurn
  <1>2. threads[t].on \in Instance
    BY WaitTypes DEF CallRecord
  <1>3. /\ threads'[t] = Ready(threads[t].on) /\ threads'[t].doing = "ready"
        /\ rendered'[t] = 0 /\ rendered' \in [Thread -> Nat]
        /\ \A u \in Thread \ {t} : threads'[u] = threads[u] /\ rendered'[u] = rendered[u]
    BY <1>1, <1>2, WaitTypes, CallTypes
  <1>4. FrameShape'
    BY <1>1, <1>3, WaitTypes DEF WaitInv, FrameShape
  <1>5. ASSUME NEW u \in Thread PROVE CountsDown(u)'
    <2>1. CASE u = t
      BY <1>3, <2>1 DEF CountsDown
    <2>2. CASE u # t
      BY <1>1, <1>3, <2>2 DEF WaitInv, CountsDown, FramesLeft
    <2> QED
      BY <2>1, <2>2
  <1> QED
    BY <1>3, <1>4, <1>5 DEF WaitInv

(* A call to say_for_seconds() waits at least one frame. *)
LEMMA EndTurnWait ==
  ASSUME SpeechInv, WaitInv, running # NoThread, NEW call \in CallRecord, EndTurn(call),
         UNCHANGED <<todo, inFrame, rendered>>,
         call.doing = "saying" =>
           \/ call.left = Unending
           \/ call.time \in Int /\ call.left = Frames(call.time)
  PROVE  WaitInv'
  <1>1. /\ inFrame /\ running \notin todo /\ rendered[running] = 0
        /\ running \in Thread
    BY WaitTypes DEF WaitInv, FrameShape
  <1>2. /\ threads'[running] = call /\ running' = NoThread
        /\ \A u \in Thread \ {running} : threads'[u] = threads[u]
    BY EndTurnTypes DEF EndTurn
  <1>3. FrameShape'
    BY <1>1, <1>2, WaitTypes DEF WaitInv, FrameShape
  <1>4. ASSUME NEW u \in Thread PROVE CountsDown(u)'
    <2>1. CASE u = running
      <3>1. ASSUME call.doing = "saying", call.left # Unending
            PROVE  /\ call.time \in Int /\ call.left \in Nat /\ call.left # 0
                   /\ 0 + call.left = Frames(call.time) + 0
        BY <3>1, FramesFacts
      <3>2. threads'[u] = call /\ rendered'[u] = 0 /\ inFrame'
        BY <1>1, <1>2, <2>1
      <3> QED
        BY <3>1, <3>2 DEF CountsDown, FramesLeft
    <2>2. CASE u # running
      BY <1>1, <1>2, <2>2 DEF WaitInv, CountsDown, FramesLeft
    <2> QED
      BY <2>1, <2>2
  <1> QED
    BY <1>3, <1>4, WaitTypes DEF WaitInv

LEMMA TurnWait ==
  ASSUME SpeechInv, WaitInv, TurnGoesOn \/ TurnEnds
  PROVE  WaitInv'
  <1>1. running # NoThread
    BY DEF TurnGoesOn, TurnEnds
  <1>2. /\ Self \in Instance
        /\ Ready(Self) \in CallRecord /\ Ready(Self).doing = "ready"
        /\ Gone \in CallRecord /\ Gone.doing = "none"
    BY <1>1, RunningTypes, CallTypes
  <1>3. CASE TurnGoesOn
    <2>1. UNCHANGED <<threads, running, todo, inFrame, rendered>>
      BY <1>3 DEF TurnGoesOn, Say
    <2> QED
      BY <2>1 DEF WaitInv, FrameShape, CountsDown, FramesLeft
  <1>4. ASSUME NEW text \in Text \cup {Silence}, NEW h \in HalfFrames \cup {Unending},
               SayForSeconds(text, h)
        PROVE  WaitInv'
    <2> DEFINE call == Call("saying", Self, NewSpeechId, h, Frames(h))
    <2>1. h \in Time /\ Frames(h) \in Time /\ (h \notin Int => Frames(h) = Unending)
      BY SpeechAssumption DEF Time, Frames
    <2>2. /\ call \in CallRecord
          /\ \/ call.left = Unending
             \/ call.time \in Int /\ call.left = Frames(call.time)
      BY <1>2, <2>1, NewIdDiffers DEF SpeechInv, Call, CallRecord, Doing
    <2>3. EndTurn(call) /\ UNCHANGED <<todo, inFrame, rendered>>
      BY <1>4 DEF SayForSeconds
    <2> HIDE DEF call
    <2> QED
      BY <1>1, <2>2, <2>3, EndTurnWait
  <1>5. ASSUME NEW id \in Nat, NEW call,
               call = Call("asking", Self, id, 0, 0), EndTurn(call),
               UNCHANGED <<todo, inFrame, rendered>>
        PROVE  WaitInv'
    <2>1. call \in CallRecord /\ call.doing = "asking"
      BY <1>2, <1>5 DEF Call, CallRecord, Doing, Time
    <2> QED
      BY <1>1, <1>5, <2>1, EndTurnWait
  <1>6. CASE (\E text \in Text : AskAndWaitShown(text)) \/ AskAndWaitHidden
    <2>1. PICK id \in Nat : /\ EndTurn(Call("asking", Self, id, 0, 0))
                            /\ UNCHANGED <<todo, inFrame, rendered>>
      BY <1>6, NewIdDiffers DEF SpeechInv, AskAndWaitShown, AskAndWaitHidden
    <2> QED
      BY <1>5, <2>1
  <1>7. CASE CreateClone \/ DeleteThisClone \/ EndTurnAs(Ready(Self)) \/ EndTurnAs(Gone)
    <2>1. /\ EndTurn(Ready(Self)) \/ EndTurn(Gone)
          /\ UNCHANGED <<todo, inFrame, rendered>>
      BY <1>7 DEF CreateClone, DeleteThisClone, EndTurnAs
    <2> QED
      BY <1>1, <1>2, <2>1, EndTurnWait
  <1> QED
    BY <1>3, <1>4, <1>6, <1>7 DEF TurnEnds

(* A call that waits has a frame less to wait, or its thread goes. *)
LEMMA WaitedFacts ==
  ASSUME NEW c \in CallRecord
  PROVE  \/ Waited(c).doing = "none"
         \/ /\ Waited(c).doing = c.doing /\ Waited(c).time = c.time
            /\ c.doing = "saying" => \/ c.left = Unending /\ Waited(c).left = Unending
                                     \/ c.left \in Int /\ c.left < 0
                                     \/ c.left \in Nat /\ Waited(c).left = c.left - 1
  <1>1. CASE c.on \notin exists
    BY <1>1 DEF Waited, Gone, Call
  <1>2. CASE c.on \in exists /\ c.doing = "saying" /\ c.left # Unending
    <2> DEFINE left == IF c.left < 0 THEN c.left ELSE c.left - 1
    <2>1. c.left \in Int
      BY <1>2 DEF CallRecord, Time
    <2>2. c.left < 0 \/ (c.left \in Nat /\ left = c.left - 1)
      BY <2>1
    <2>3. Waited(c) = [c EXCEPT !.left = left]
      BY <1>2 DEF Waited
    <2> HIDE DEF left
    <2>4. Waited(c).left = left /\ Waited(c).doing = c.doing /\ Waited(c).time = c.time
      BY <2>3 DEF CallRecord
    <2> QED
      BY <2>1, <2>2, <2>4
  <1>3. CASE c.on \in exists /\ ~(c.doing = "saying" /\ c.left # Unending)
    BY <1>3 DEF Waited
  <1> QED
    BY <1>1, <1>2, <1>3

LEMMA StartFrameWait == SpeechInv /\ WaitInv /\ StartFrame => WaitInv'
  <1> SUFFICES ASSUME SpeechInv, WaitInv, StartFrame PROVE WaitInv'
    OBVIOUS
  <1>1. /\ ~inFrame /\ inFrame' = TRUE
        /\ threads' = [t \in Thread |-> Waited(threads[t])]
        /\ todo' = {t \in Thread :
              \/ threads'[t].doing \in {"ready", "answered"}
              \/ threads'[t].doing = "saying" /\ threads'[t].left = 0}
        /\ UNCHANGED <<running, rendered>>
    BY DEF StartFrame
  <1>2. running = NoThread /\ todo = {}
    BY <1>1 DEF WaitInv, FrameShape
  <1>3. FrameShape'
    BY <1>1, <1>2, WaitTypes DEF FrameShape
  <1>4. ASSUME NEW t \in Thread, threads'[t].doing = "saying", threads'[t].left # Unending
        PROVE  FramesLeft(t)'
    <2>1. threads'[t] = Waited(threads[t]) /\ threads[t] \in CallRecord
      BY <1>1, WaitTypes
    <2>2. threads[t].doing = "saying" /\ threads'[t].time = threads[t].time
      BY <1>4, <2>1, WaitedFacts
    <2>3. CountsDown(t)
      BY DEF WaitInv
    <2>4. \/ threads[t].left = Unending /\ threads'[t].left = Unending
          \/ threads[t].left \in Int /\ threads[t].left < 0
          \/ threads[t].left \in Nat /\ threads'[t].left = threads[t].left - 1
      BY <1>4, <2>1, <2>2, WaitedFacts
    <2>5. FramesLeft(t)
      BY <1>4, <2>2, <2>3, <2>4, WaitTypes DEF CountsDown
    <2>6. threads[t].left # 0 /\ threads[t].left \in Nat
      BY <1>2, <2>5 DEF FramesLeft
    <2>7. threads'[t].left = threads[t].left - 1
      BY <2>4, <2>6, WaitTypes
    <2>8. /\ threads[t].time \in Int /\ Frames(threads[t].time) \in Nat
          /\ rendered[t] \in Nat
          /\ rendered[t] + threads[t].left = Frames(threads[t].time) + 1
      BY <1>1, <2>5, WaitTypes, FramesFacts DEF FramesLeft
    <2>9. /\ threads'[t].left \in Nat
          /\ rendered[t] + threads'[t].left = Frames(threads[t].time) + 0
      BY <2>6, <2>7, <2>8
    <2>10. threads'[t].left = 0 => t \in todo'
      BY <1>1, <1>4
    <2> QED
      BY <1>1, <2>2, <2>8, <2>9, <2>10 DEF FramesLeft
  <1> QED
    BY <1>1, <1>3, <1>4, WaitTypes DEF WaitInv, CountsDown

(* A call under way has not had its frames: none more is rendered than it  *)
(* takes.                                                                  *)
LEMMA EndFrameWait == SpeechInv /\ WaitInv /\ EndFrame => WaitInv'
  <1> SUFFICES ASSUME SpeechInv, WaitInv, EndFrame PROVE WaitInv'
    OBVIOUS
  <1>1. /\ inFrame /\ running = NoThread /\ todo = {} /\ inFrame' = FALSE
        /\ UNCHANGED <<running, todo, threads>>
        /\ rendered' = [t \in Thread |-> Rendered(t)]
    BY DEF EndFrame, FrameOver
  <1>2. FrameShape'
    BY <1>1 DEF FrameShape
  <1>3. rendered' \in [Thread -> Nat]
    BY <1>1, WaitTypes DEF Rendered
  <1>4. ASSUME NEW t \in Thread, threads[t].doing = "saying", threads[t].left # Unending
        PROVE  FramesLeft(t)'
    <2>1. /\ threads[t].time \in Int /\ threads[t].left \in Nat /\ threads[t].left # 0
          /\ rendered[t] \in Nat
          /\ rendered[t] + threads[t].left = Frames(threads[t].time) + 0
      BY <1>1, <1>4, WaitTypes DEF WaitInv, CountsDown, FramesLeft
    <2>2. Frames(threads[t].time) \in Nat /\ rendered[t] - 1 < Frames(threads[t].time)
      BY <2>1, FramesFacts
    <2>3. ~LastsLongEnough(rendered[t] - 1, threads[t].time)
      BY <2>1, <2>2, FramesFacts
    <2>4. rendered'[t] = rendered[t] + 1
      BY <1>1, <1>4, <2>3 DEF Rendered
    <2>5. rendered'[t] + threads[t].left = Frames(threads[t].time) + 1
      BY <2>1, <2>2, <2>4
    <2> QED
      BY <1>1, <2>1, <2>5 DEF FramesLeft
  <1> QED
    BY <1>1, <1>2, <1>3, <1>4 DEF WaitInv, CountsDown

LEMMA StopWait ==
  ASSUME SpeechInv, WaitInv, OnRedStopClicked \/ EndFrameAfterStop \/ EndFrameAfterException
  PROVE  WaitInv'
  <1>1. /\ running' = NoThread /\ todo' = {} /\ inFrame' = FALSE
        /\ NoThreads
    BY WaitTypes DEF OnRedStopClicked, EndFrameAfterStop, EndFrameAfterException, FrameOver,
       StopEverything, WaitInv, FrameShape
  <1>2. FrameShape'
    BY <1>1 DEF FrameShape
  <1>3. /\ rendered' \in [Thread -> Nat]
        /\ \A t \in Thread : threads'[t].doing = "none"
    BY <1>1 DEF NoThreads, Gone, Call
  <1> QED
    BY <1>2, <1>3 DEF WaitInv, CountsDown

LEMMA BetweenFramesWait ==
  ASSUME SpeechInv, WaitInv, NEW t \in Thread,
         Answer(t) \/ \E i \in Instance : StartThread(t, i)
  PROVE  WaitInv'
  <1>1. ~inFrame /\ UNCHANGED <<running, todo, inFrame, rendered>>
    BY DEF Answer, StartThread
  <1>2. threads'[t].doing # "saying" /\ \A u \in Thread \ {t} : threads'[u] = threads[u]
    <2>1. CASE Answer(t)
      <3>1. threads' = [threads EXCEPT ![t] = [threads[t] EXCEPT !.doing = "answered"]]
        BY <2>1 DEF Answer
      <3>2. threads[t] \in CallRecord /\ threads \in [Thread -> CallRecord]
        BY WaitTypes
      <3> QED
        BY <3>1, <3>2 DEF CallRecord
    <2>2. ASSUME NEW i \in Instance, StartThread(t, i)
          PROVE  threads'[t].doing # "saying" /\ \A u \in Thread \ {t} : threads'[u] = threads[u]
      BY <2>2, WaitTypes, CallTypes DEF StartThread
    <2> QED
      BY <2>1, <2>2
  <1>3. FrameShape'
    BY <1>1 DEF WaitInv, FrameShape
  <1>4. ASSUME NEW u \in Thread PROVE CountsDown(u)'
    BY <1>1, <1>2 DEF WaitInv, CountsDown, FramesLeft
  <1> QED
    BY <1>1, <1>3, <1>4 DEF WaitInv

LEMMA NextWait == SpeechInv /\ WaitInv /\ [Next]_vars => WaitInv'
  <1> SUFFICES ASSUME SpeechInv, WaitInv, [Next]_vars PROVE WaitInv'
    OBVIOUS
  <1>1. CASE FrameGoesOn
    BY <1>1, StartFrameWait, BeginTurnWait, TurnWait, EndFrameWait, StopWait DEF FrameGoesOn
  <1>2. CASE TurnGoesOn \/ OnRedStopClicked
    BY <1>2, TurnWait, StopWait
  <1>3. ASSUME NEW t \in Thread, Answer(t) \/ \E i \in Instance : StartThread(t, i)
        PROVE  WaitInv'
    BY <1>3, BetweenFramesWait
  <1>4. CASE UNCHANGED vars
    BY <1>4 DEF vars, WaitInv, FrameShape, CountsDown, FramesLeft
  <1> QED
    BY <1>1, <1>2, <1>3, <1>4 DEF Next

(* say_for_seconds() returns when the fewest whole frames that last as     *)
(* long have been rendered, but one at least: the waits of "wait-seconds"  *)
(* round up, and should_wake counts no frame twice and leaves none out,    *)
(* whatever else happens in those frames.                                  *)
THEOREM SayingTakesItsTime == Spec => SaidForItsTime
  <1> DEFINE InTime == \A t \in IsDoing("saying") : running' = t /\ running = NoThread =>
                         /\ LastsLongEnough(rendered[t], threads[t].time)
                         /\ ~LastsLongEnough(rendered[t] - 1, threads[t].time)
  <1>1. SpeechInv /\ WaitInv /\ [Next]_vars => [InTime]_vars
    <2> SUFFICES ASSUME SpeechInv, WaitInv, Next, NEW t \in Thread,
                        threads[t].doing = "saying", running' = t, running = NoThread
                 PROVE  /\ LastsLongEnough(rendered[t], threads[t].time)
                        /\ ~LastsLongEnough(rendered[t] - 1, threads[t].time)
      BY DEF IsDoing
    <2>1. BeginTurn(t)
      BY WhoBegins
    <2>2. inFrame /\ t \in todo /\ threads[t].left = 0
      BY <2>1 DEF BeginTurn, WaitInv, FrameShape
    <2>3. /\ threads[t].time \in Int /\ rendered[t] \in Nat
          /\ rendered[t] + 0 = Frames(threads[t].time) + 0
      BY <2>2, WaitTypes DEF WaitInv, CountsDown, FramesLeft
    <2>4. /\ rendered[t] = Frames(threads[t].time) /\ rendered[t] - 1 \in Int
          /\ rendered[t] - 1 < Frames(threads[t].time)
      BY <2>3, FramesFacts
    <2> QED
      BY <2>3, <2>4, FramesFacts
  <1>2. Spec => [](SpeechInv /\ WaitInv)
    BY InitInv, InitWait, NextInv, NextWait, PTL DEF Spec
  <1> QED
    BY <1>1, <1>2, PTL DEF Spec, SaidForItsTime

-----------------------------------------------------------------------------
(* Who removes a bubble.                                                   *)
Origin == {"said", "timed", "prompt", "copied", "abandoned"}

(* A thread has the latest bubble of its instance only while its call      *)
(* waits; the bubble is there, unless the instance is gone.                *)
OwnBubble(t) ==
  latest[t] => /\ threads[t].doing \in Waiting /\ threads[t].id # 0
               /\ threads[t].on \in exists => speech[threads[t].on].id = threads[t].id

Attends(t, i) == threads[t].doing \in Waiting /\ threads[t].on = i /\ latest[t]
Attended(i) == origin[i] \in {"timed", "prompt"} => \E t \in Thread : Attends(t, i)

BubbleInv == /\ origin \in [Instance -> Origin]
             /\ \A t \in Thread : OwnBubble(t)
             /\ \A i \in exists : Attended(i)

LEMMA InitBubbles == Init => BubbleInv
  <1> SUFFICES ASSUME Init PROVE BubbleInv
    OBVIOUS
  <1>1. \A t \in Thread : ~latest[t]
    BY DEF Init
  <1>2. /\ origin \in [Instance -> Origin]
        /\ \A i \in Instance : origin[i] = "said"
    BY DEF Init, Origin
  <1>3. exists \subseteq Instance
    BY SpeechAssumption DEF Init, Original, Instance
  <1> QED
    BY <1>1, <1>2, <1>3 DEF BubbleInv, OwnBubble, Attended

LEMMA BubbleTypes ==
  ASSUME SpeechInv, BubbleInv
  PROVE  /\ origin \in [Instance -> Origin] /\ latest \in [Thread -> BOOLEAN]
         /\ speech \in [Instance -> Bubble] /\ threads \in [Thread -> CallRecord]
         /\ \A t \in Thread : threads[t].on \in Instance
         /\ exists \subseteq Instance
  BY DEF SpeechInv, TypeInv, BubbleInv, CallRecord

(* The rest of a call: what was the thread's own is removed. *)
LEMMA EndOfCall ==
  ASSUME SpeechInv, WaitInv, BubbleInv, NEW t \in Thread, BeginTurn(t)
  PROVE  /\ ~latest'[t]
         /\ \/ /\ UNCHANGED <<speech, origin>>
               /\ \A u \in Thread \ {t} : latest'[u] = latest[u]
               /\ ~latest[t] \/ threads[t].on \notin exists
            \/ ClearSpeech(t)
  <1>1. t \in todo /\ threads[t].on \in Instance
    BY BubbleTypes DEF BeginTurn
  <1>2. threads[t].doing \in {"ready", "answered", "saying"} /\ latest \in [Thread -> BOOLEAN]
    BY <1>1, BubbleTypes DEF WaitInv, FrameShape
  <1>3. ClearSpeech(t) => ~latest'[t]
    BY <1>2 DEF ClearSpeech
  <1>4. CASE threads[t].doing = "ready"
    <2>1. ~latest[t]
      BY <1>4 DEF BubbleInv, OwnBubble, Waiting
    <2> QED
      BY <1>4, <2>1 DEF BeginTurn
  <1>5. CASE threads[t].doing = "answered"
    <2>1. EndOfAskAndWait(t)
      BY <1>5 DEF BeginTurn
    <2>2. threads[t].id = 0 => ~latest[t]
      BY DEF BubbleInv, OwnBubble
    <2> QED
      BY <1>3, <2>1, <2>2 DEF EndOfAskAndWait
  <1>6. CASE threads[t].doing = "saying"
    <2>1. EndOfSayForSeconds(t)
      BY <1>6 DEF BeginTurn
    <2>2. latest[t] /\ threads[t].on \in exists => speech[threads[t].on].id = threads[t].id
      BY DEF BubbleInv, OwnBubble
    <2> QED
      BY <1>2, <1>3, <2>1, <2>2 DEF EndOfSayForSeconds
  <1> QED
    BY <1>2, <1>4, <1>5, <1>6

LEMMA BeginTurnBubbles ==
  ASSUME SpeechInv, WaitInv, BubbleInv, NEW t \in Thread, BeginTurn(t)
  PROVE  BubbleInv'
  <1>1. /\ threads' = [threads EXCEPT ![t] = Ready(threads[t].on)]
        /\ UNCHANGED exists
    BY DEF BeginTurn
  <1>2. ~latest'[t] /\ \A u \in Thread \ {t} : threads'[u] = threads[u]
    BY <1>1, EndOfCall, BubbleTypes
  <1>3. CASE /\ UNCHANGED <<speech, origin>>
             /\ \A u \in Thread \ {t} : latest'[u] = latest[u]
             /\ ~latest[t] \/ threads[t].on \notin exists
    <2>1. ASSUME NEW u \in Thread PROVE OwnBubble(u)'
      BY <1>1, <1>2, <1>3 DEF BubbleInv, OwnBubble
    <2>2. ASSUME NEW i \in exists PROVE Attended(i)'
      <3>1. SUFFICES ASSUME origin[i] \in {"timed", "prompt"}
                     PROVE  \E u \in Thread : Attends(u, i)'
        BY <1>3 DEF Attended
      <3>2. PICK u \in Thread : Attends(u, i)
        BY <3>1 DEF BubbleInv, Attended
      <3>3. u # t
        BY <1>3, <3>2 DEF Attends
      <3> QED
        BY <1>2, <1>3, <3>2, <3>3 DEF Attends
    <2> QED
      BY <1>1, <1>3, <2>1, <2>2 DEF BubbleInv
  <1>4. CASE ClearSpeech(t)
    <2> DEFINE k == threads[t].on
    <2>1. /\ \A i \in Instance \ {k} : speech'[i] = speech[i] /\ origin'[i] = origin[i]
          /\ origin'[k] = "said" /\ origin' \in [Instance -> Origin] /\ k \in Instance
          /\ \A u \in Thread : latest'[u] = (latest[u] /\ threads[u].on # k)
      BY <1>4, BubbleTypes DEF ClearSpeech, Origin
    <2> HIDE DEF k
    <2>2. ASSUME NEW u \in Thread PROVE OwnBubble(u)'
      <3>1. CASE u = t
        BY <1>2, <3>1 DEF OwnBubble
      <3>2. CASE u # t
        <4>1. latest'[u] => latest[u] /\ threads[u].on # k
          BY <2>1
        <4>2. threads[u].on \in Instance /\ threads'[u] = threads[u]
          BY <1>2, <3>2, BubbleTypes
        <4> QED
          BY <1>1, <2>1, <4>1, <4>2 DEF BubbleInv, OwnBubble
      <3> QED
        BY <3>1, <3>2
    <2>3. ASSUME NEW i \in exists PROVE Attended(i)'
      <3>1. CASE i = k
        BY <2>1, <3>1 DEF Attended
      <3>2. CASE i # k
        <4>1. SUFFICES ASSUME origin[i] \in {"timed", "prompt"}
                       PROVE  \E u \in Thread : Attends(u, i)'
          BY <2>1, <3>2, BubbleTypes DEF Attended
        <4>2. PICK u \in Thread : Attends(u, i)
          BY <4>1 DEF BubbleInv, Attended
        <4>3. u # t
          BY <3>2, <4>2 DEF Attends, k
        <4> QED
          BY <1>2, <2>1, <3>2, <4>2, <4>3 DEF Attends
      <3> QED
        BY <3>1, <3>2
    <2> QED
      BY <1>1, <2>1, <2>2, <2>3 DEF BubbleInv
  <1> QED
    BY <1>3, <1>4, EndOfCall

-----------------------------------------------------------------------------
(* The running thread has no bubble to attend to. *)
LEMMA RunnerOwnsNone ==
  ASSUME WaitInv, BubbleInv, running # NoThread, running \in Thread
  PROVE  ~latest[running]
  BY DEF WaitInv, FrameShape, BubbleInv, OwnBubble, Waiting

(* Speaking: the others lose the bubble of the instance, and its new one   *)
(* is of the thread's call, if it is one that waits.                       *)
LEMMA UtterBubbles ==
  ASSUME SpeechInv, WaitInv, BubbleInv, running # NoThread,
         NEW text \in Text \cup {Silence}, NEW why \in Origin, NEW own \in BOOLEAN,
         Utter(text, why, own), UNCHANGED exists,
         NEW t, t = running,
         \A u \in Thread \ {t} : threads'[u] = threads[u],
         threads'[t].on = threads[t].on,
         own => threads'[t].doing \in Waiting /\ threads'[t].id = NewSpeechId,
         why \in {"timed", "prompt"} => own
  PROVE  BubbleInv'
  <1>1. t \in Thread /\ Self \in Instance /\ threads[t].on = Self /\ Self = threads[t].on
    BY RunningTypes
  <1>2. PICK k : k = Self
    OBVIOUS
  <1>3. /\ speech' = [speech EXCEPT ![k] = [id |-> NewSpeechId, text |-> text]]
        /\ latest'[t] = own
        /\ \A u \in Thread \ {t} : latest'[u] = (latest[u] /\ threads[u].on # k)
    BY <1>2, UtterTypes
  <1>4. /\ speech'[k].id = NewSpeechId /\ origin'[k] = why
        /\ \A i \in Instance \ {k} : speech'[i] = speech[i] /\ origin'[i] = origin[i]
        /\ origin' \in [Instance -> Origin]
    BY <1>1, <1>2, <1>3, BubbleTypes DEF Utter
  <1>5. NewSpeechId # 0
    BY NewIdDiffers DEF SpeechInv
  <1>6. ASSUME NEW u \in Thread PROVE OwnBubble(u)'
    <2>1. CASE u = t
      BY <1>1, <1>2, <1>3, <1>4, <1>5, <2>1 DEF OwnBubble
    <2>2. CASE u # t
      <3>1. latest'[u] => latest[u] /\ threads[u].on # k
        BY <1>3, <2>2
      <3>2. threads[u].on \in Instance /\ threads'[u] = threads[u]
        BY <2>2, BubbleTypes
      <3> QED
        BY <1>4, <3>1, <3>2 DEF BubbleInv, OwnBubble
    <2> QED
      BY <2>1, <2>2
  <1>7. ASSUME NEW i \in exists PROVE Attended(i)'
    <2>1. CASE i = k
      BY <1>1, <1>2, <1>3, <1>4, <2>1 DEF Attended, Attends
    <2>2. CASE i # k
      <3>1. SUFFICES ASSUME origin[i] \in {"timed", "prompt"}
                     PROVE  \E u \in Thread : Attends(u, i)'
        BY <1>4, <2>2, BubbleTypes DEF Attended
      <3>2. PICK u \in Thread : Attends(u, i)
        BY <3>1 DEF BubbleInv, Attended
      <3>3. u # t
        BY <3>2, RunnerOwnsNone, RunningTypes DEF Attends
      <3> QED
        BY <1>3, <2>2, <3>2, <3>3 DEF Attends
    <2> QED
      BY <2>1, <2>2
  <1> QED
    BY <1>4, <1>6, <1>7 DEF BubbleInv

(* Ending a turn without a word. *)
LEMMA QuietEndBubbles ==
  ASSUME SpeechInv, WaitInv, BubbleInv, running # NoThread, NEW call \in CallRecord,
         EndTurn(call), UNCHANGED <<exists, speech, origin>>,
         latest' = latest \/ latest' = [latest EXCEPT ![running] = FALSE]
  PROVE  BubbleInv'
  <1>1. PICK t : t = running
    OBVIOUS
  <1>2. /\ t \in Thread /\ ~latest[t]
        /\ \A u \in Thread : latest'[u] = latest[u]
        /\ \A u \in Thread \ {t} : threads'[u] = threads[u]
    BY <1>1, RunnerOwnsNone, RunningTypes, EndTurnTypes, BubbleTypes
  <1>3. ASSUME NEW u \in Thread PROVE OwnBubble(u)'
    BY <1>2 DEF BubbleInv, OwnBubble
  <1>4. ASSUME NEW i \in exists PROVE Attended(i)'
    <2>1. SUFFICES ASSUME origin[i] \in {"timed", "prompt"}
                   PROVE  \E u \in Thread : Attends(u, i)'
      BY DEF Attended
    <2>2. PICK u \in Thread : Attends(u, i)
      BY <2>1 DEF BubbleInv, Attended
    <2>3. u # t
      BY <1>2, <2>2 DEF Attends
    <2> QED
      BY <1>2, <2>2, <2>3 DEF Attends
  <1> QED
    BY <1>3, <1>4 DEF BubbleInv

LEMMA CreateCloneBubbles ==
  ASSUME SpeechInv, WaitInv, BubbleInv, running # NoThread, CreateClone
  PROVE  BubbleInv'
  <1>1. PICK c \in Instance \ exists :
          /\ \A t \in Thread : threads[t] # Gone => threads[t].on # c
          /\ exists' = exists \cup {c}
          /\ speech' = [speech EXCEPT ![c] = speech[Self]]
          /\ origin' = [origin EXCEPT ![c] = "copied"]
          /\ EndTurn(Ready(Self))
          /\ UNCHANGED latest
    BY DEF CreateClone
  <1>2. PICK t : t = running
    OBVIOUS
  <1>3. Ready(Self) \in CallRecord
    BY RunningTypes, CallTypes
  <1>4. /\ t \in Thread /\ ~latest[t]
        /\ \A u \in Thread \ {t} : threads'[u] = threads[u]
    BY <1>1, <1>2, <1>3, RunnerOwnsNone, RunningTypes, EndTurnTypes
  <1>5. ASSUME NEW u \in Thread, latest[u]
        PROVE  threads[u].on # c
    <2>1. threads[u].doing \in Waiting
      BY <1>5 DEF BubbleInv, OwnBubble
    <2>2. threads[u] # Gone
      BY <2>1 DEF Gone, Call, Waiting
    <2> QED
      BY <1>1, <2>2
  <1>6. /\ \A i \in Instance \ {c} : speech'[i] = speech[i] /\ origin'[i] = origin[i]
        /\ origin' \in [Instance -> Origin] /\ origin'[c] = "copied"
    BY <1>1, BubbleTypes DEF Origin
  <1>7. ASSUME NEW u \in Thread PROVE OwnBubble(u)'
    <2>1. SUFFICES ASSUME latest[u] PROVE OwnBubble(u)'
      BY <1>1 DEF OwnBubble
    <2>2. u # t /\ threads[u].on # c /\ threads[u].on \in Instance
      BY <1>4, <1>5, <2>1, BubbleTypes
    <2> QED
      BY <1>1, <1>4, <1>6, <2>2 DEF BubbleInv, OwnBubble
  <1>8. ASSUME NEW i \in exists' PROVE Attended(i)'
    <2>1. CASE i = c
      BY <1>6, <2>1 DEF Attended
    <2>2. CASE i # c
      <3>1. i \in exists /\ i \in Instance
        BY <1>1, <2>2, BubbleTypes
      <3>2. SUFFICES ASSUME origin[i] \in {"timed", "prompt"}
                     PROVE  \E u \in Thread : Attends(u, i)'
        BY <1>6, <2>2, <3>1 DEF Attended
      <3>3. PICK u \in Thread : Attends(u, i)
        BY <3>1, <3>2 DEF BubbleInv, Attended
      <3>4. u # t
        BY <1>4, <3>3 DEF Attends
      <3> QED
        BY <1>1, <1>4, <3>3, <3>4 DEF Attends
    <2> QED
      BY <2>1, <2>2
  <1> QED
    BY <1>6, <1>7, <1>8 DEF BubbleInv

LEMMA TurnBubbles ==
  ASSUME SpeechInv, WaitInv, BubbleInv, TurnGoesOn \/ TurnEnds
  PROVE  BubbleInv'
  <1>1. running # NoThread
    BY DEF TurnGoesOn, TurnEnds
  <1>2. PICK t : t = running
    OBVIOUS
  <1>3. /\ t \in Thread /\ Self \in Instance /\ threads[t].on = Self
        /\ Ready(Self) \in CallRecord /\ Gone \in CallRecord
    BY <1>1, <1>2, RunningTypes, CallTypes
  <1>4. ASSUME NEW text \in Text \cup {Silence}, Say(text)
        PROVE  BubbleInv'
    <2>1. Utter(text, "said", FALSE) /\ UNCHANGED <<exists, threads>> /\ "said" \in Origin
      BY <1>4 DEF Say, Origin
    <2> QED
      BY <1>1, <1>2, <2>1, UtterBubbles
  <1>5. ASSUME NEW text \in Text \cup {Silence}, NEW why \in {"timed", "prompt"},
               NEW call \in CallRecord, call.doing \in Waiting, call.id = NewSpeechId,
               call.on = Self, EndTurn(call), Utter(text, why, TRUE), UNCHANGED exists
        PROVE  BubbleInv'
    <2>1. threads'[t] = call /\ \A u \in Thread \ {t} : threads'[u] = threads[u]
      BY <1>1, <1>2, <1>5, EndTurnTypes
    <2>2. why \in Origin
      BY DEF Origin
    <2> QED
      BY <1>1, <1>2, <1>3, <1>5, <2>1, <2>2, UtterBubbles
  <1>6. ASSUME NEW text \in Text \cup {Silence}, NEW h \in HalfFrames \cup {Unending},
               SayForSeconds(text, h)
        PROVE  BubbleInv'
    <2> DEFINE call == Call("saying", Self, NewSpeechId, h, Frames(h))
    <2>1. h \in Time /\ Frames(h) \in Time
      BY SpeechAssumption DEF Time, Frames
    <2>2. /\ call \in CallRecord /\ call.doing \in Waiting /\ call.id = NewSpeechId
          /\ call.on = Self
      BY <1>3, <2>1, NewIdDiffers DEF SpeechInv, Call, CallRecord, Doing, Waiting
    <2>3. EndTurn(call) /\ Utter(text, "timed", TRUE) /\ UNCHANGED exists
      BY <1>6 DEF SayForSeconds
    <2> HIDE DEF call
    <2> QED
      BY <1>5, <2>2, <2>3
  <1>7. ASSUME NEW text \in Text, AskAndWaitShown(text)
        PROVE  BubbleInv'
    <2> DEFINE call == Call("asking", Self, NewSpeechId, 0, 0)
    <2>1. /\ call \in CallRecord /\ call.doing \in Waiting /\ call.id = NewSpeechId
          /\ call.on = Self
      BY <1>3, NewIdDiffers DEF SpeechInv, Call, CallRecord, Doing, Waiting, Time
    <2>2. EndTurn(call) /\ Utter(text, "prompt", TRUE) /\ UNCHANGED exists
      BY <1>7 DEF AskAndWaitShown
    <2> HIDE DEF call
    <2> QED
      BY <1>5, <2>1, <2>2
  <1>8. CASE AskAndWaitHidden
    <2> DEFINE call == Call("asking", Self, 0, 0, 0)
    <2>1. call \in CallRecord
      BY <1>3 DEF Call, CallRecord, Doing, Time
    <2>2. EndTurn(call) /\ UNCHANGED <<exists, speech, origin, latest>>
      BY <1>8 DEF AskAndWaitHidden
    <2> HIDE DEF call
    <2> QED
      BY <1>1, <2>1, <2>2, QuietEndBubbles
  <1>9. CASE DeleteThisClone \/ EndTurnAs(Ready(Self)) \/ EndTurnAs(Gone)
    <2>1. /\ EndTurn(Ready(Self)) \/ EndTurn(Gone)
          /\ UNCHANGED <<exists, speech, origin>>
          /\ latest' = latest \/ latest' = [latest EXCEPT ![running] = FALSE]
      BY <1>9 DEF DeleteThisClone, EndTurnAs
    <2> QED
      BY <1>1, <1>3, <2>1, QuietEndBubbles
  <1> QED
    BY <1>1, <1>4, <1>6, <1>7, <1>8, <1>9, CreateCloneBubbles DEF TurnGoesOn, TurnEnds

-----------------------------------------------------------------------------
LEMMA WaitedSame ==
  ASSUME NEW c \in CallRecord, c.on \in exists
  PROVE  /\ Waited(c).id = c.id /\ Waited(c).on = c.on
         /\ Waited(c).doing = c.doing
  <1>1. CASE c.doing = "saying" /\ c.left # Unending
    <2> DEFINE left == IF c.left < 0 THEN c.left ELSE c.left - 1
    <2>1. Waited(c) = [c EXCEPT !.left = left]
      BY <1>1 DEF Waited
    <2> HIDE DEF left
    <2> QED
      BY <2>1 DEF CallRecord
  <1>2. CASE ~(c.doing = "saying" /\ c.left # Unending)
    BY <1>2 DEF Waited
  <1> QED
    BY <1>1, <1>2

LEMMA StartFrameBubbles == SpeechInv /\ BubbleInv /\ StartFrame => BubbleInv'
  <1> SUFFICES ASSUME SpeechInv, BubbleInv, StartFrame PROVE BubbleInv'
    OBVIOUS
  <1>1. /\ threads' = [t \in Thread |-> Waited(threads[t])]
        /\ latest' = [t \in Thread |-> latest[t] /\ threads[t].on \in exists]
        /\ UNCHANGED <<exists, speech, origin>>
    BY DEF StartFrame
  <1>2. ASSUME NEW t \in Thread
        PROVE  /\ latest'[t] = (latest[t] /\ threads[t].on \in exists)
               /\ threads[t].on \in exists =>
                    /\ threads'[t].id = threads[t].id /\ threads'[t].on = threads[t].on
                    /\ threads'[t].doing = threads[t].doing
    <2>1. threads'[t] = Waited(threads[t]) /\ threads[t] \in CallRecord
      BY <1>1, BubbleTypes
    <2>2. threads[t].on \in exists =>
            /\ Waited(threads[t]).id = threads[t].id /\ Waited(threads[t]).on = threads[t].on
            /\ Waited(threads[t]).doing = threads[t].doing
      BY <2>1, WaitedSame
    <2> QED
      BY <1>1, <2>1, <2>2
  <1>3. ASSUME NEW t \in Thread PROVE OwnBubble(t)'
    BY <1>1, <1>2 DEF BubbleInv, OwnBubble
  <1>4. ASSUME NEW i \in exists PROVE Attended(i)'
    BY <1>1, <1>2 DEF BubbleInv, Attended, Attends
  <1> QED
    BY <1>1, <1>3, <1>4 DEF BubbleInv

LEMMA EndFrameBubbles == SpeechInv /\ BubbleInv /\ EndFrame => BubbleInv'
  <1> SUFFICES ASSUME SpeechInv, BubbleInv, EndFrame PROVE BubbleInv'
    OBVIOUS
  <1>1. /\ exists' = exists \ doomed /\ Silenced(doomed)
        /\ origin' = [i \in Instance |-> IF i \in doomed THEN "said" ELSE origin[i]]
        /\ UNCHANGED <<threads, latest>>
    BY DEF EndFrame, CullInstances
  <1>2. /\ origin' \in [Instance -> Origin]
        /\ \A i \in Instance \ doomed : speech'[i] = speech[i] /\ origin'[i] = origin[i]
    BY <1>1, BubbleTypes DEF Silenced, Origin
  <1>3. ASSUME NEW t \in Thread PROVE OwnBubble(t)'
    BY <1>1, <1>2, BubbleTypes DEF BubbleInv, OwnBubble
  <1>4. ASSUME NEW i \in exists' PROVE Attended(i)'
    BY <1>1, <1>2, BubbleTypes DEF BubbleInv, Attended, Attends
  <1> QED
    BY <1>2, <1>3, <1>4 DEF BubbleInv

(* When all threads go, nothing that was said is still to be removed. *)
LEMMA StopBubbles ==
  ASSUME SpeechInv, BubbleInv,
         OnRedStopClicked \/ EndFrameAfterStop \/ EndFrameAfterException
  PROVE  BubbleInv'
  <1>1. latest' = [t \in Thread |-> FALSE]
    BY DEF OnRedStopClicked, EndFrameAfterStop, EndFrameAfterException, StopEverything,
       NoThreads
  <1>2. \A i \in Instance : origin'[i] \in Origin \ {"timed", "prompt"}
    BY BubbleTypes DEF OnRedStopClicked, EndFrameAfterStop, EndFrameAfterException,
       StopEverything, Origin
  <1>3. origin' \in [Instance -> Origin]
    <2>1. \/ origin' = [i \in Instance |-> "said"]
          \/ origin' = [i \in Instance |-> IF i \in doomed THEN "said"
                                   ELSE IF origin[i] \in {"timed", "prompt"} THEN "abandoned"
                                   ELSE origin[i]]
      BY DEF OnRedStopClicked, EndFrameAfterStop, EndFrameAfterException, StopEverything
    <2> QED
      BY <1>2, <2>1
  <1>4. exists' \subseteq Instance
    BY SpeechAssumption, BubbleTypes DEF OnRedStopClicked, EndFrameAfterStop,
       EndFrameAfterException, StopEverything, CullInstances, Original, Instance
  <1> QED
    BY <1>1, <1>2, <1>3, <1>4 DEF BubbleInv, OwnBubble, Attended

LEMMA BetweenFramesBubbles ==
  ASSUME SpeechInv, BubbleInv, NEW t \in Thread,
         Answer(t) \/ \E i \in Instance : StartThread(t, i)
  PROVE  BubbleInv'
  <1>1. UNCHANGED <<exists, speech, origin, latest>>
    BY DEF Answer, StartThread
  <1>2. /\ \A u \in Thread \ {t} : threads'[u] = threads[u]
        /\ latest[t] => /\ threads'[t].doing \in Waiting
                        /\ threads'[t].id = threads[t].id /\ threads'[t].on = threads[t].on
    <2>1. CASE Answer(t)
      <3>1. threads' = [threads EXCEPT ![t] = [threads[t] EXCEPT !.doing = "answered"]]
        BY <2>1 DEF Answer
      <3>2. threads[t] \in CallRecord /\ threads \in [Thread -> CallRecord]
        BY BubbleTypes
      <3> QED
        BY <3>1, <3>2 DEF CallRecord, Waiting
    <2>2. ASSUME NEW i \in Instance, StartThread(t, i)
          PROVE  ~latest[t] /\ \A u \in Thread \ {t} : threads'[u] = threads[u]
      <3>1. threads[t].doing = "none" /\ threads' = [threads EXCEPT ![t] = Ready(i)]
        BY <2>2 DEF StartThread, Gone, Call
      <3> QED
        BY <3>1, BubbleTypes DEF BubbleInv, OwnBubble, Waiting
    <2> QED
      BY <2>1, <2>2
  <1>3. ASSUME NEW u \in Thread PROVE OwnBubble(u)'
    BY <1>1, <1>2 DEF BubbleInv, OwnBubble
  <1>4. ASSUME NEW i \in exists PROVE Attended(i)'
    BY <1>1, <1>2 DEF BubbleInv, Attended, Attends
  <1> QED
    BY <1>1, <1>3, <1>4 DEF BubbleInv

LEMMA NextBubbles == SpeechInv /\ WaitInv /\ BubbleInv /\ [Next]_vars => BubbleInv'
  <1> SUFFICES ASSUME SpeechInv, WaitInv, BubbleInv, [Next]_vars PROVE BubbleInv'
    OBVIOUS
  <1>1. CASE FrameGoesOn
    BY <1>1, StartFrameBubbles, BeginTurnBubbles, TurnBubbles, EndFrameBubbles, StopBubbles
    DEF FrameGoesOn
  <1>2. CASE TurnGoesOn \/ OnRedStopClicked
    BY <1>2, TurnBubbles, StopBubbles
  <1>3. ASSUME NEW t \in Thread, Answer(t) \/ \E i \in Instance : StartThread(t, i)
        PROVE  BubbleInv'
    BY <1>3, BetweenFramesBubbles
  <1>4. CASE UNCHANGED vars
    BY <1>4 DEF vars, BubbleInv, OwnBubble, Attended, Attends
  <1> QED
    BY <1>1, <1>2, <1>3, <1>4 DEF Next

(* Nobody forgets a bubble: what was said for a time, or to ask, has a     *)
(* thread whose call will remove it, unless an exception took all threads  *)
(* away; also when clones copy bubbles, and stop and go meanwhile.         *)
THEOREM NobodyForgetsABubble == Spec => []TimedBubblesAreAttended
  <1>1. BubbleInv => TimedBubblesAreAttended
    BY DEF BubbleInv, Attended, Attends, TimedBubblesAreAttended, IsDoing, Waiting
  <1>2. Spec => [](SpeechInv /\ WaitInv /\ BubbleInv)
    BY InitInv, InitWait, InitBubbles, NextInv, NextWait, NextBubbles, PTL DEF Spec
  <1> QED
    BY <1>1, <1>2, PTL

=============================================================================
