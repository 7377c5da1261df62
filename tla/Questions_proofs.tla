-------------------------- MODULE Questions_proofs --------------------------
(***************************************************************************)
(* Proofs about the question queue: its inductive invariant, that answers  *)
(* are final, and that it implements AskOneAtATime, for any set of answers *)
(* and any bound on the number of questions.                               *)
(***************************************************************************)
EXTENDS Questions, SequenceTheorems, TLAPS

(* The four facts about the queue hold together or not at all: whose turn  *)
(* it is to be asked depends on which questions the queue holds.           *)
QueueInv == TypeOK /\ QueueIsSuffix /\ HeadAlone /\ RepliesMatch

(* The state of the question at position i of the queue. *)
LEMMA QueuedIsAsked ==
  ASSUME QueueInv
  PROVE  /\ \A i \in 1..Len(queue) : queue[i] \in QuestionId
         /\ queue # <<>> => /\ Head(queue) = Len(questions) - Len(queue) + 1
                            /\ Head(queue) \in QuestionId
                            /\ questions[Head(queue)].state \in {Asking, Answered}
  <1>1. /\ questions \in Seq(UserQuestion) /\ queue \in Seq(Nat)
        /\ Len(questions) \in Nat /\ Len(queue) \in Nat
    BY DEF QueueInv, TypeOK
  <1>2. \A i \in 1..Len(queue) : queue[i] \in QuestionId
    BY <1>1 DEF QueueInv, QueueIsSuffix, QuestionId
  <1>3. ASSUME queue # <<>>
        PROVE  /\ Head(queue) = Len(questions) - Len(queue) + 1
               /\ Head(queue) \in QuestionId
               /\ questions[Head(queue)].state # Waiting
    BY <1>1, <1>2, <1>3 DEF QueueInv, QueueIsSuffix, HeadAlone
  <1>4. \A j \in QuestionId : questions[j].state \in QuestionState
    <2>1. ASSUME NEW j \in QuestionId PROVE questions[j] \in UserQuestion
      BY <1>1, <2>1 DEF QuestionId
    <2> QED
      BY <2>1 DEF UserQuestion
  <1> QED
    BY <1>2, <1>3, <1>4 DEF QuestionState

LEMMA InitInv == Init => QueueInv
  BY DEF Init, QueueInv, TypeOK, QueueIsSuffix, HeadAlone, RepliesMatch, QuestionId

LEMMA EnqueueInv == QueueInv /\ EnqueueQuestion => QueueInv'
  <1> SUFFICES ASSUME QueueInv, EnqueueQuestion PROVE QueueInv'
    OBVIOUS
  <1> DEFINE q == Len(questions) + 1
             new == [state |-> IF queue = <<>> THEN Asking ELSE Waiting, value |-> NoReply]
  <1>1. new \in UserQuestion /\ new.value.to = 0 /\ new.state # Answered
    BY DEF UserQuestion, QuestionState, Asking, Waiting, Answered, NoReply
  <1>2. /\ questions' = Append(questions, new)
        /\ queue' = Append(queue, q)
    BY DEF EnqueueQuestion
  <1> HIDE DEF new
  <1>3. /\ questions \in Seq(UserQuestion) /\ queue \in Seq(Nat)
        /\ Len(questions) \in Nat /\ Len(queue) \in Nat
    BY DEF QueueInv, TypeOK
  <1>4. TypeOK'
    BY <1>1, <1>2, <1>3 DEF TypeOK
  <1>5. /\ Len(questions') = q
        /\ Len(queue') = Len(queue) + 1
        /\ \A i \in 1..Len(questions) : questions'[i] = questions[i]
        /\ \A i \in 1..Len(queue) : queue'[i] = queue[i]
        /\ questions'[q] = new
        /\ queue'[Len(queue) + 1] = q
    BY <1>1, <1>2, <1>3
  <1>6. QueueIsSuffix'
    <2>1. /\ Len(queue) <= Len(questions)
          /\ \A i \in 1..Len(queue) : queue[i] = Len(questions) - Len(queue) + i
      BY DEF QueueInv, QueueIsSuffix
    <2>2. ASSUME NEW i \in 1..Len(queue')
          PROVE  queue'[i] = Len(questions') - Len(queue') + i
      <3>1. CASE i \in 1..Len(queue)
        BY <3>1, <2>1, <1>3, <1>5
      <3>2. CASE i = Len(queue) + 1
        BY <3>2, <1>3, <1>5
      <3> QED
        BY <3>1, <3>2, <1>3, <1>5
    <2> QED
      BY <2>1, <2>2, <1>3, <1>5 DEF QueueIsSuffix
  <1>7. HeadAlone'
    <2> SUFFICES ASSUME NEW i \in 1..Len(queue')
                 PROVE  questions'[queue'[i]].state = Waiting <=> i > 1
      BY DEF HeadAlone
    <2>1. CASE i \in 1..Len(queue)
      BY <2>1, <1>3, <1>5, QueuedIsAsked DEF QueueInv, HeadAlone, QuestionId
    <2>2. CASE i = Len(queue) + 1
      <3>1. queue = <<>> <=> i = 1
        BY <2>2, <1>3
      <3> QED
        BY <2>2, <3>1, <1>3, <1>5 DEF new, Asking, Waiting
    <2> QED
      BY <2>1, <2>2, <1>3, <1>5
  <1>8. RepliesMatch'
    BY <1>1, <1>3, <1>5 DEF QueueInv, RepliesMatch, QuestionId, IsAnswered
  <1> QED
    BY <1>4, <1>6, <1>7, <1>8 DEF QueueInv

LEMMA AcceptInv ==
  ASSUME QueueInv, NEW id \in QuestionId, NEW text \in Answer,
         AcceptQuestionAnswer(id, text)
  PROVE  QueueInv'
  <1> DEFINE done == [state |-> Answered, value |-> [to |-> id, text |-> text]]
  <1>1. done \in UserQuestion /\ done.value.to = id /\ done.state = Answered
    BY DEF UserQuestion, QuestionState, Reply, QuestionId
  <1>2. /\ queue # <<>> /\ id = Head(queue) /\ queue' = queue
        /\ questions' = [questions EXCEPT ![id] = done]
    BY DEF AcceptQuestionAnswer, CanAccept
  <1> HIDE DEF done
  <1>3. /\ questions \in Seq(UserQuestion) /\ queue \in Seq(Nat)
        /\ Len(questions) \in Nat /\ Len(queue) \in Nat
    BY DEF QueueInv, TypeOK
  <1>4. /\ questions' \in Seq(UserQuestion)
        /\ Len(questions') = Len(questions)
        /\ \A i \in QuestionId : questions'[i] = IF i = id THEN done ELSE questions[i]
    BY <1>1, <1>2, <1>3, ExceptSeq DEF QuestionId
  <1>5. TypeOK' /\ QueueIsSuffix'
    BY <1>2, <1>3, <1>4 DEF QueueInv, TypeOK, QueueIsSuffix
  <1>6. HeadAlone'
    <2> SUFFICES ASSUME NEW i \in 1..Len(queue)
                 PROVE  questions'[queue[i]].state = Waiting <=> i > 1
      BY <1>2 DEF HeadAlone
    <2>1. queue[i] \in QuestionId /\ (queue[i] = id <=> i = 1)
      BY <1>2, <1>3, QueuedIsAsked DEF QueueInv, QueueIsSuffix
    <2> QED
      BY <2>1, <1>1, <1>3, <1>4 DEF QueueInv, HeadAlone, Waiting, Answered
  <1>7. RepliesMatch'
    BY <1>1, <1>4 DEF QueueInv, RepliesMatch, QuestionId, IsAnswered
  <1> QED
    BY <1>5, <1>6, <1>7 DEF QueueInv

LEMMA RetireInv == QueueInv /\ RetireAnsweredQuestion => QueueInv'
  <1> SUFFICES ASSUME QueueInv, RetireAnsweredQuestion PROVE QueueInv'
    OBVIOUS
  <1>1. /\ questions \in Seq(UserQuestion) /\ queue \in Seq(Nat)
        /\ Len(questions) \in Nat /\ Len(queue) \in Nat /\ queue # <<>>
    BY DEF QueueInv, TypeOK, RetireAnsweredQuestion
  <1>2. /\ queue' = Tail(queue) /\ queue' \in Seq(Nat)
        /\ Len(queue') = Len(queue) - 1
        /\ \A i \in 1..Len(queue') : queue'[i] = queue[i + 1]
    BY <1>1 DEF RetireAnsweredQuestion
  <1>3. CASE queue' = <<>>
    <2>1. UNCHANGED questions
      BY <1>2, <1>3 DEF RetireAnsweredQuestion
    <2> QED
      BY <1>1, <1>2, <1>3, <2>1
      DEF QueueInv, TypeOK, QueueIsSuffix, HeadAlone, RepliesMatch, QuestionId, IsAnswered
  <1>4. CASE queue' # <<>>
    <2> DEFINE next == Head(queue')
               asked == [questions[next] EXCEPT !.state = Asking]
    <2>1. /\ next = queue[2] /\ 2 \in 1..Len(queue)
          /\ next \in QuestionId
          /\ questions[next].state = Waiting
      BY <1>1, <1>2, <1>4, QueuedIsAsked DEF QueueInv, HeadAlone
    <2>2. questions' = [questions EXCEPT ![next] = asked]
      BY <1>2, <1>4 DEF RetireAnsweredQuestion
    <2>3. /\ questions[next] \in UserQuestion /\ asked \in UserQuestion
          /\ asked.state = Asking /\ asked.value = questions[next].value
      <3>1. questions[next] \in UserQuestion
        BY <1>1, <2>1 DEF QuestionId
      <3> HIDE DEF next
      <3> QED
        BY <3>1 DEF UserQuestion, QuestionState
    <2> HIDE DEF asked, next
    <2>4. /\ questions' \in Seq(UserQuestion)
          /\ Len(questions') = Len(questions)
          /\ \A i \in QuestionId :
               questions'[i] = IF i = next THEN asked ELSE questions[i]
      BY <1>1, <2>1, <2>2, <2>3, ExceptSeq DEF QuestionId
    <2>5. TypeOK' /\ QueueIsSuffix'
      <3>1. /\ Len(queue) <= Len(questions)
            /\ \A i \in 1..Len(queue) : queue[i] = Len(questions) - Len(queue) + i
        BY DEF QueueInv, QueueIsSuffix
      <3>2. QueueIsSuffix'
        BY <1>1, <1>2, <2>4, <3>1 DEF QueueIsSuffix
      <3> QED
        BY <1>2, <2>4, <3>2 DEF TypeOK
    <2>6. HeadAlone'
      <3> SUFFICES ASSUME NEW i \in 1..Len(queue')
                   PROVE  questions'[queue'[i]].state = Waiting <=> i > 1
        BY DEF HeadAlone
      <3>1. /\ i + 1 \in 1..Len(queue) /\ queue'[i] = queue[i + 1]
            /\ queue[i + 1] \in QuestionId
            /\ questions[queue[i + 1]].state = Waiting
        BY <1>1, <1>2, QueuedIsAsked DEF QueueInv, HeadAlone
      <3>2. queue[i + 1] = next <=> i = 1
        BY <3>1, <2>1, <1>1, <1>2 DEF QueueInv, QueueIsSuffix
      <3> QED
        BY <3>1, <3>2, <2>3, <2>4 DEF Waiting, Asking
    <2>7. RepliesMatch'
      BY <2>1, <2>3, <2>4
      DEF QueueInv, RepliesMatch, QuestionId, IsAnswered, Waiting, Asking, Answered
    <2> QED
      BY <2>5, <2>6, <2>7 DEF QueueInv
  <1> QED
    BY <1>3, <1>4

LEMMA DiscardInv == QueueInv /\ DiscardQuestions => QueueInv'
  BY DEF QueueInv, DiscardQuestions, TypeOK, QueueIsSuffix, HeadAlone, RepliesMatch,
         QuestionId, IsAnswered

LEMMA NextInv == QueueInv /\ [Next]_questionVars => QueueInv'
  <1> SUFFICES ASSUME QueueInv, [Next]_questionVars PROVE QueueInv'
    OBVIOUS
  <1>1. CASE UNCHANGED questionVars
    BY <1>1 DEF questionVars, QueueInv, TypeOK, QueueIsSuffix, HeadAlone, RepliesMatch,
                QuestionId, IsAnswered
  <1> QED
    BY <1>1, EnqueueInv, AcceptInv, RetireInv, DiscardInv DEF Next

(* In every state of every behaviour the queue is typed, is a window of    *)
(* consecutive questions, shows only its head, and replies match.          *)
THEOREM QueueInvariant == Spec => [](TypeOK /\ QueueIsSuffix /\ HeadAlone /\ RepliesMatch)
  <1>1. Spec => []QueueInv
    BY InitInv, NextInv, PTL DEF Spec
  <1>2. QueueInv => TypeOK /\ QueueIsSuffix /\ HeadAlone /\ RepliesMatch
    BY DEF QueueInv
  <1> QED
    BY <1>1, <1>2, PTL

(* In particular accept_question_answer() gives no question the answer to  *)
(* another, however late it is called.                                     *)
THEOREM AnswersReachTheirQuestions == Spec => []RepliesMatch
  BY QueueInvariant, PTL DEF QueueInv

-----------------------------------------------------------------------------

LEMMA SecondIsHeadOfTail ==
  ASSUME NEW w \in Seq(Nat), w # <<>>, Tail(w) # <<>>
  PROVE  Head(Tail(w)) = w[2] /\ 2 \in 1..Len(w)
  <1>1. PICK rest : rest = Tail(w)
    OBVIOUS
  <1>2. /\ rest \in Seq(Nat) /\ Len(rest) = Len(w) - 1
        /\ \A i \in 1..Len(rest) : rest[i] = w[i + 1]
    BY <1>1
  <1>3. Len(rest) \in Nat /\ Len(rest) # 0
    BY <1>1, <1>2, EmptySeq
  <1>4. Head(rest) = rest[1] /\ 1 \in 1..Len(rest)
    BY <1>2, <1>3
  <1> QED
    BY <1>1, <1>2, <1>3, <1>4

LEMMA FinalStep ==
  ASSUME QueueInv, [Next]_questionVars, NEW q \in QuestionId, IsAnswered(q)
  PROVE  questions'[q] = questions[q]
  <1>1. /\ questions \in Seq(UserQuestion) /\ queue \in Seq(Nat)
        /\ Len(questions) \in Nat /\ Len(queue) \in Nat
    BY DEF QueueInv, TypeOK
  <1>2. CASE EnqueueQuestion
    BY <1>1, <1>2 DEF EnqueueQuestion, QuestionId
  <1>3. ASSUME NEW id \in QuestionId, NEW text \in Answer, AcceptQuestionAnswer(id, text)
        PROVE  questions'[q] = questions[q]
    <2>1. Head(queue) # q
      BY <1>3 DEF AcceptQuestionAnswer, CanAccept, IsAnswered, Asking, Answered
    <2> QED
      BY <1>1, <1>3, <2>1 DEF AcceptQuestionAnswer, QuestionId
  <1>4. CASE RetireAnsweredQuestion
    <2>1. CASE Tail(queue) = <<>>
      BY <1>4, <2>1 DEF RetireAnsweredQuestion
    <2>2. CASE Tail(queue) # <<>>
      <3>2. Head(Tail(queue)) = queue[2] /\ 2 \in 1..Len(queue)
        BY <1>1, <1>4, <2>2, SecondIsHeadOfTail DEF RetireAnsweredQuestion
      <3>3. Head(Tail(queue)) # q
        BY <3>2 DEF QueueInv, HeadAlone, IsAnswered, Waiting, Answered
      <3> QED
        <4> DEFINE next == Head(Tail(queue))
                   asked == [questions[next] EXCEPT !.state = Asking]
        <4>1. questions' = [questions EXCEPT ![next] = asked]
          BY <1>4, <2>2 DEF RetireAnsweredQuestion
        <4>2. next # q
          BY <3>3
        <4> HIDE DEF asked, next
        <4> QED
          BY <4>1, <4>2, <1>1 DEF QuestionId
    <2> QED
      BY <2>1, <2>2
  <1> QED
    BY <1>2, <1>3, <1>4 DEF Next, DiscardQuestions, questionVars

(* No later call of accept_question_answer, whatever id it is given,       *)
(* replaces an answer.                                                     *)
THEOREM AnswersStayFinal == Spec => AnswersAreFinal
  <1>1. QueueInv /\ [Next]_questionVars
        => [\A q \in QuestionId : IsAnswered(q) => questions'[q] = questions[q]]_questionVars
    BY FinalStep
  <1>2. Spec => []QueueInv
    BY InitInv, NextInv, PTL DEF Spec
  <1> QED
    BY <1>1, <1>2, PTL DEF Spec, AnswersAreFinal

-----------------------------------------------------------------------------
(* The refinement.  status and reply, the abstract state, are sequences as *)
(* long as questions; each step moves at most one question, except for a   *)
(* discard, which drops all of the queue.                                  *)

absStatus == [q \in QuestionId |-> StatusOf(q)]
absReply  == [q \in QuestionId |-> questions[q].value]

LEMMA AbsShape ==
  ASSUME QueueInv
  PROVE  /\ absStatus \in Seq(Ask!Status) /\ Len(absStatus) = Len(questions)
         /\ DOMAIN absStatus = QuestionId
         /\ Len(absReply) = Len(questions) /\ DOMAIN absReply = QuestionId
         /\ absReply \in Seq(Reply \cup {NoReply})
  <1>1. questions \in Seq(UserQuestion) /\ Len(questions) \in Nat
    BY DEF QueueInv, TypeOK
  <1>2. \A q \in QuestionId : questions[q] \in UserQuestion
    BY <1>1 DEF QuestionId
  <1>3. \A q \in QuestionId : questions[q].value \in Reply \cup {NoReply}
    BY <1>2 DEF UserQuestion
  <1>4. \A q \in QuestionId : StatusOf(q) \in Ask!Status
    BY DEF StatusOf, Ask!Status
  <1> QED
    BY <1>1, <1>3, <1>4, IsASeq DEF absStatus, absReply, QuestionId

(* Membership in a window of consecutive numbers. *)
LEMMA Window ==
  ASSUME NEW m \in Nat, NEW w \in Seq(Nat), Len(w) <= m,
         \A i \in 1..Len(w) : w[i] = m - Len(w) + i,
         NEW q \in 1..m
  PROVE  (\E i \in 1..Len(w) : w[i] = q) <=> q > m - Len(w)
  <1>1. Len(w) \in Nat
    OBVIOUS
  <1>2. ASSUME NEW i \in 1..Len(w), w[i] = q
        PROVE  q > m - Len(w)
    BY <1>1, <1>2
  <1>3. ASSUME q > m - Len(w)
        PROVE  \E i \in 1..Len(w) : w[i] = q
    <2>1. PICK i \in 1..Len(w) : q = m - Len(w) + i
      <3>1. q - (m - Len(w)) \in 1..Len(w)
        BY <1>1, <1>3
      <3> QED
        BY <3>1, <1>1
    <2>2. w[i] = q
      BY <2>1
    <2> QED
      BY <2>2
  <1> QED
    BY <1>2, <1>3

(* Which question is live, and which are unsettled, in terms of the queue. *)
LEMMA StatusFacts ==
  ASSUME QueueInv, NEW q \in QuestionId
  PROVE  /\ StatusOf(q) = "done" <=> IsAnswered(q)
         /\ StatusOf(q) = "live" <=> InQueue(q) /\ questions[q].state = Asking
         /\ StatusOf(q) = "pending" <=> InQueue(q) /\ questions[q].state = Waiting
         /\ StatusOf(q) \in {"done", "live", "pending", "dropped"}
         /\ InQueue(q) <=> q > Len(questions) - Len(queue)
  <1>1. /\ questions \in Seq(UserQuestion) /\ queue \in Seq(Nat)
        /\ Len(questions) \in Nat /\ Len(queue) \in Nat
    BY DEF QueueInv, TypeOK
  <1>2. questions[q] \in UserQuestion
    BY <1>1 DEF QuestionId
  <1>3. questions[q].state \in QuestionState
    BY <1>2 DEF UserQuestion
  <1>4. InQueue(q) <=> q > Len(questions) - Len(queue)
    BY <1>1, Window DEF QueueInv, QueueIsSuffix, QuestionId, InQueue
  <1> QED
    BY <1>3, <1>4
    DEF StatusOf, IsAnswered, QuestionState, Waiting, Asking, Answered

(* How a state function which is one longer is recognised as an Append. *)
LEMMA AppendAsFunction ==
  ASSUME NEW S, NEW f \in Seq(S), NEW e \in S, NEW g,
         g = [q \in 1..(Len(f) + 1) |-> g[q]],
         \A q \in 1..Len(f) : g[q] = f[q],
         g[Len(f) + 1] = e
  PROVE  g = Append(f, e)
  <1> DEFINE h == Append(f, e)
  <1>1. Len(f) \in Nat /\ \A q \in 1..Len(f) : f[q] \in S
    OBVIOUS
  <1>2. ASSUME NEW q \in 1..(Len(f) + 1) PROVE g[q] \in S
    <2>1. CASE q \in 1..Len(f)
      BY <1>1, <2>1
    <2>2. CASE q = Len(f) + 1
      BY <2>2
    <2> QED
      BY <1>1, <2>1, <2>2
  <1>3. g \in Seq(S) /\ Len(g) = Len(f) + 1
    BY <1>1, <1>2, IsASeq
  <1>4. /\ h \in Seq(S) /\ Len(h) = Len(f) + 1
        /\ \A q \in 1..Len(f) : h[q] = f[q]
        /\ h[Len(f) + 1] = e
    OBVIOUS
  <1>5. \A q \in 1..Len(g) : g[q] = h[q]
    BY <1>1, <1>3, <1>4
  <1> HIDE DEF h
  <1>6. g = h
    BY <1>3, <1>4, <1>5, SeqEqual
  <1> QED
    BY <1>6 DEF h

LEMMA AbsEnqueue == QueueInv /\ EnqueueQuestion => Ask!Ask
  <1> SUFFICES ASSUME QueueInv, EnqueueQuestion PROVE Ask!Ask
    OBVIOUS
  <1>0. PICK n : n = Len(questions) + 1
    OBVIOUS
  <1> DEFINE new == [state |-> IF queue = <<>> THEN Asking ELSE Waiting, value |-> NoReply]
             s == IF queue = <<>> THEN "live" ELSE "pending"
  <1>1. /\ questions \in Seq(UserQuestion) /\ queue \in Seq(Nat)
        /\ Len(questions) \in Nat /\ Len(queue) \in Nat
    BY DEF QueueInv, TypeOK
  <1>2. /\ questions' = Append(questions, new) /\ new \in UserQuestion
        /\ queue' = Append(queue, n)
    BY <1>0 DEF EnqueueQuestion, UserQuestion, QuestionState
  <1>3. QueueInv'
    BY EnqueueInv
  <1>4. new.state = (IF queue = <<>> THEN Asking ELSE Waiting) /\ new.value = NoReply
    OBVIOUS
  <1> HIDE DEF new
  <1>5. /\ QuestionId' = 1..n
        /\ QuestionId = 1..Len(questions)
        /\ \A q \in QuestionId : questions'[q] = questions[q]
        /\ questions'[n] = new
        /\ Len(questions') - Len(queue') = Len(questions) - Len(queue)
    BY <1>0, <1>1, <1>2 DEF QuestionId
  <1>6. ASSUME NEW q \in QuestionId
        PROVE  StatusOf(q)' = StatusOf(q)
    <2>1. q \in QuestionId'
      BY <1>0, <1>1, <1>5
    <2>2. InQueue(q)' <=> InQueue(q)
      <3>1. InQueue(q)' <=> q > Len(questions') - Len(queue')
        <4>1. /\ queue' \in Seq(Nat) /\ Len(questions') \in Nat
              /\ Len(queue') <= Len(questions')
              /\ \A i \in 1..Len(queue') :
                   queue'[i] = Len(questions') - Len(queue') + i
          BY <1>3 DEF QueueInv, TypeOK, QueueIsSuffix
        <4> QED
          BY <4>1, <2>1, Window DEF QuestionId, InQueue
      <3> QED
        BY <3>1, <1>3, <1>5, StatusFacts
    <2> QED
      BY <2>2, <1>5 DEF StatusOf, IsAnswered
  <1>7. StatusOf(n)' = s
    <2>1. InQueue(n)'
      BY <1>0, <1>1, <1>2 DEF InQueue
    <2> QED
      BY <2>1, <1>4, <1>5 DEF StatusOf, IsAnswered, Asking, Waiting, Answered
  <1>8. absStatus' = Append(absStatus, s)
    BY <1>0, <1>1, <1>5, <1>6, <1>7, AbsShape, AppendAsFunction
      DEF absStatus, Ask!Status
  <1>9. absReply' = Append(absReply, NoReply)
    BY <1>0, <1>1, <1>4, <1>5, AbsShape, AppendAsFunction DEF absReply
  <1>10. s = "live" => Ask!Unsettled = {}
    <2> SUFFICES ASSUME queue = <<>>, NEW q \in QuestionId
                 PROVE  StatusOf(q) \notin {"pending", "live"}
      BY AbsShape DEF Ask!Unsettled, Ask!Asked, absStatus
    <2> QED
      BY StatusFacts DEF InQueue
  <1> QED
    BY <1>8, <1>9, <1>10 DEF Ask!Ask, absStatus, absReply

LEMMA AbsAccept ==
  ASSUME QueueInv, NEW id \in QuestionId, NEW text \in Answer,
         AcceptQuestionAnswer(id, text)
  PROVE  Ask!ReplyTo(id, text)
  <1> DEFINE done == [state |-> Answered, value |-> [to |-> id, text |-> text]]
  <1>1. /\ questions \in Seq(UserQuestion) /\ queue \in Seq(Nat)
        /\ Len(questions) \in Nat /\ Len(queue) \in Nat
    BY DEF QueueInv, TypeOK
  <1>2. /\ queue # <<>> /\ id = Head(queue) /\ queue' = queue
        /\ questions' = [questions EXCEPT ![id] = done]
        /\ questions[id].state = Asking
    BY DEF AcceptQuestionAnswer, CanAccept
  <1>3. done.state = Answered /\ done.value = [to |-> id, text |-> text]
    OBVIOUS
  <1> HIDE DEF done
  <1>4. /\ QuestionId' = QuestionId
        /\ \A q \in QuestionId : questions'[q] = IF q = id THEN done ELSE questions[q]
    BY <1>1, <1>2 DEF QuestionId
  <1>5. InQueue(id)
    BY <1>1, <1>2 DEF InQueue
  <1>6. absStatus[id] = "live"
    BY <1>2, <1>5, StatusFacts DEF absStatus
  <1>7. \A q \in QuestionId : StatusOf(q)' = IF q = id THEN "done" ELSE StatusOf(q)
    BY <1>2, <1>3, <1>4 DEF StatusOf, IsAnswered, InQueue
  <1>8. absStatus' = [absStatus EXCEPT ![id] = "done"]
    BY <1>4, <1>7 DEF absStatus
  <1>9. absReply' = [absReply EXCEPT ![id] = [to |-> id, text |-> text]]
    BY <1>3, <1>4 DEF absReply
  <1> QED
    BY <1>6, <1>8, <1>9 DEF Ask!ReplyTo, absStatus, absReply

(* Retiring the last question changes nothing the user can see; retiring   *)
(* another presents its successor.                                         *)
LEMMA AbsRetire ==
  ASSUME QueueInv, RetireAnsweredQuestion
  PROVE  (\E q \in QuestionId : Ask!Present(q)) \/ UNCHANGED <<absStatus, absReply>>
  <1>1. /\ questions \in Seq(UserQuestion) /\ queue \in Seq(Nat) /\ queue # <<>>
        /\ Len(questions) \in Nat /\ Len(queue) \in Nat
    BY DEF QueueInv, TypeOK, RetireAnsweredQuestion
  <1>2. /\ queue' = Tail(queue) /\ queue' \in Seq(Nat)
        /\ Len(queue') = Len(queue) - 1
        /\ \A i \in 1..Len(queue') : queue'[i] = queue[i + 1]
    BY <1>1 DEF RetireAnsweredQuestion
  <1>3. PICK last : last = Head(queue)
    OBVIOUS
  <1>4. /\ last \in QuestionId /\ IsAnswered(last)
        /\ last = Len(questions) - Len(queue) + 1
    BY <1>1, <1>3, QueuedIsAsked DEF RetireAnsweredQuestion
  <1>5. ASSUME NEW q \in QuestionId, q # last
        PROVE  InQueue(q)' <=> InQueue(q)
    <2>1. ASSUME InQueue(q) PROVE InQueue(q)'
      <3>1. PICK i \in 1..Len(queue) : queue[i] = q
        BY <2>1 DEF InQueue
      <3>2. i # 1
        BY <3>1, <1>1, <1>3, <1>5
      <3>3. i - 1 \in 1..Len(queue') /\ queue'[i - 1] = q
        BY <3>1, <3>2, <1>1, <1>2
      <3> QED
        BY <3>3 DEF InQueue
    <2>2. ASSUME InQueue(q)' PROVE InQueue(q)
      BY <1>1, <1>2, <2>2 DEF InQueue
    <2> QED
      BY <2>1, <2>2
  <1>6. CASE queue' = <<>>
    <2>1. UNCHANGED questions
      BY <1>2, <1>6 DEF RetireAnsweredQuestion
    <2>2. \A q \in QuestionId : StatusOf(q)' = StatusOf(q)
      BY <2>1, <1>4, <1>5 DEF StatusOf, IsAnswered
    <2> QED
      BY <2>1, <2>2 DEF absStatus, absReply, QuestionId
  <1>7. CASE queue' # <<>>
    <2>1. PICK next : next = Head(queue')
      OBVIOUS
    <2> DEFINE asked == [questions[next] EXCEPT !.state = Asking]
    <2>2. /\ next = queue[2] /\ 2 \in 1..Len(queue)
          /\ next \in QuestionId /\ next = last + 1
          /\ questions[next].state = Waiting
      BY <1>1, <1>2, <1>4, <1>7, <2>1, QueuedIsAsked
      DEF QueueInv, HeadAlone, QueueIsSuffix
    <2>3. questions' = [questions EXCEPT ![next] = asked]
      BY <1>2, <1>7, <2>1 DEF RetireAnsweredQuestion
    <2>4. /\ questions[next] \in UserQuestion
          /\ asked.state = Asking /\ asked.value = questions[next].value
      <3>1. questions[next] \in UserQuestion
        BY <1>1, <2>2 DEF QuestionId
      <3> QED
        BY <3>1 DEF UserQuestion
    <2> HIDE DEF asked
    <2>5. /\ QuestionId' = QuestionId
          /\ \A q \in QuestionId :
               questions'[q] = IF q = next THEN asked ELSE questions[q]
      BY <1>1, <2>3 DEF QuestionId
    <2>6. next # last /\ InQueue(next)
      <3>1. queue[2] = next /\ last \in Nat /\ next \in Nat
        BY <1>1, <1>4, <2>2 DEF QuestionId
      <3> QED
        BY <3>1, <2>2 DEF InQueue
    <2>7. StatusOf(next) = "pending" /\ StatusOf(next)' = "live"
      BY <1>5, <2>2, <2>4, <2>5, <2>6
      DEF StatusOf, IsAnswered, Waiting, Asking, Answered
    <2>8. \A q \in QuestionId : StatusOf(q)' = IF q = next THEN "live" ELSE StatusOf(q)
      BY <1>4, <1>5, <2>5, <2>6, <2>7 DEF StatusOf, IsAnswered
    <2>9. \A q \in Ask!Unsettled : next <= q
      <3> SUFFICES ASSUME NEW q \in QuestionId, StatusOf(q) \in {"pending", "live"}
                   PROVE  next <= q
        BY AbsShape DEF Ask!Unsettled, Ask!Asked, absStatus
      <3>1. q > Len(questions) - Len(queue) /\ ~IsAnswered(q)
        BY StatusFacts
      <3>2. q # last
        BY <3>1, <1>4
      <3> QED
        BY <3>1, <3>2, <1>1, <1>4, <2>2 DEF QuestionId
    <2>10. absStatus[next] = "pending"
      BY <2>2, <2>7 DEF absStatus
    <2>11. absStatus' = [absStatus EXCEPT ![next] = "live"]
      BY <2>5, <2>8 DEF absStatus
    <2>12. absReply' = absReply
      BY <2>4, <2>5 DEF absReply
    <2>13. Ask!Present(next)
      BY <2>9, <2>10, <2>11, <2>12 DEF Ask!Present, absStatus, absReply
    <2> QED
      BY <2>2, <2>13
  <1> QED
    BY <1>6, <1>7

LEMMA AbsDiscard == QueueInv /\ DiscardQuestions => Ask!DropAll
  <1> SUFFICES ASSUME QueueInv, DiscardQuestions PROVE Ask!DropAll
    OBVIOUS
  <1>1. queue' = <<>> /\ questions' = questions /\ QuestionId' = QuestionId
    BY DEF DiscardQuestions, QuestionId
  <1>2. ASSUME NEW q \in QuestionId
        PROVE  StatusOf(q)' = IF StatusOf(q) \in {"pending", "live"} THEN "dropped"
                                                                     ELSE StatusOf(q)
    <2>1. ~InQueue(q)'
      BY <1>1 DEF InQueue
    <2> QED
      BY <1>1, <2>1, StatusFacts DEF StatusOf, IsAnswered
  <1>3. Ask!Asked = QuestionId
    BY AbsShape DEF Ask!Asked, absStatus, QuestionId
  <1>4. absStatus' = [q \in QuestionId |-> IF q \in Ask!Unsettled THEN "dropped"
                                                                  ELSE absStatus[q]]
    BY <1>1, <1>2, <1>3 DEF absStatus, Ask!Unsettled
  <1>5. absReply' = absReply
    BY <1>1 DEF absReply
  <1> QED
    BY <1>3, <1>4, <1>5 DEF Ask!DropAll, absStatus, absReply

(* The queue of questions gives its users what AskOneAtATime promises.     *)
THEOREM QueueImplementsAskOneAtATime == Spec => AskSpec
  <1>1. Init => Ask!Init
    <2> SUFFICES ASSUME Init PROVE absStatus = <<>> /\ absReply = <<>>
      BY DEF Ask!Init, absStatus, absReply
    <2>1. QuestionId = {} /\ QuestionId = 1..0
      BY DEF Init, QuestionId
    <2> QED
      BY <2>1 DEF absStatus, absReply
  <1>2. QueueInv /\ [Next]_questionVars => [Ask!Next]_(Ask!askVars)
    <2> SUFFICES ASSUME QueueInv, [Next]_questionVars
                 PROVE  Ask!Next \/ UNCHANGED <<absStatus, absReply>>
      BY DEF Ask!askVars, absStatus, absReply
    <2>1. Ask!Asked = QuestionId
      BY AbsShape DEF Ask!Asked, absStatus, QuestionId
    <2>2. CASE UNCHANGED questionVars
      BY <2>2 DEF questionVars, absStatus, absReply, StatusOf, IsAnswered, InQueue,
                  QuestionId
    <2>3. CASE EnqueueQuestion
      BY <2>3, AbsEnqueue DEF Ask!Next
    <2>4. ASSUME NEW id \in QuestionId, NEW text \in Answer,
                 AcceptQuestionAnswer(id, text)
          PROVE  Ask!Next
      BY <2>1, <2>4, AbsAccept DEF Ask!Next
    <2>5. CASE RetireAnsweredQuestion
      BY <2>1, <2>5, AbsRetire DEF Ask!Next
    <2>6. CASE DiscardQuestions
      BY <2>6, AbsDiscard DEF Ask!Next
    <2> QED
      BY <2>2, <2>3, <2>4, <2>5, <2>6 DEF Next
  <1>3. Spec => []QueueInv
    BY InitInv, NextInv, PTL DEF Spec
  <1> QED
    BY <1>1, <1>2, <1>3, PTL DEF Spec, AskSpec, Ask!Spec

(* Which questions come before the head, and which is the head.            *)
LEMMA BeforeTheHead ==
  ASSUME QueueInv, NEW p \in QuestionId, NEW q \in QuestionId
  PROVE  /\ StatusOf(q) = "live" => q = Len(questions) - Len(queue) + 1
         /\ StatusOf(q) \in {"live", "done"} => q <= Len(questions) - Len(queue) + 1
         /\ p <= Len(questions) - Len(queue) => StatusOf(p) \in {"done", "dropped"}
  <1>1. /\ questions \in Seq(UserQuestion) /\ queue \in Seq(Nat)
        /\ Len(questions) \in Nat /\ Len(queue) \in Nat /\ q \in Nat /\ p \in Nat
    BY DEF QueueInv, TypeOK, QuestionId
  <1>2. ASSUME InQueue(q), questions[q].state # Waiting
        PROVE  q = Len(questions) - Len(queue) + 1
    <2>1. PICK i \in 1..Len(queue) : queue[i] = q
      BY <1>2 DEF InQueue
    <2>2. i = 1
      BY <1>2, <2>1 DEF QueueInv, HeadAlone
    <2> QED
      BY <1>1, <2>1, <2>2 DEF QueueInv, QueueIsSuffix
  <1>3. ~InQueue(q) => q <= Len(questions) - Len(queue)
    BY <1>1, StatusFacts
  <1>4. StatusOf(q) = "live" => q = Len(questions) - Len(queue) + 1
    BY <1>2, StatusFacts DEF Asking, Waiting
  <1>5. StatusOf(q) = "done" => q <= Len(questions) - Len(queue) + 1
    BY <1>1, <1>2, <1>3, StatusFacts DEF IsAnswered, Answered, Waiting
  <1>6. p <= Len(questions) - Len(queue) => ~InQueue(p)
    BY <1>1, StatusFacts
  <1>7. ~InQueue(p) => StatusOf(p) \in {"done", "dropped"}
    BY StatusFacts
  <1> QED
    BY <1>1, <1>4, <1>5, <1>6, <1>7

(* What AskOneAtATime says its users may rely on holds of the queue: the   *)
(* user is shown one question at a time, in the order of asking.           *)
THEOREM ShownInTurn == Spec => [](Ask!OneLive /\ Ask!AskedInOrder)
  <1>1. ASSUME QueueInv PROVE Ask!OneLive /\ Ask!AskedInOrder
    <2>1. /\ Ask!Asked = QuestionId /\ Len(questions) \in Nat /\ Len(queue) \in Nat
          /\ QuestionId \subseteq Nat
      BY <1>1, AbsShape DEF Ask!Asked, absStatus, QuestionId, QueueInv, TypeOK
    <2>2. ASSUME NEW p \in QuestionId, NEW q \in QuestionId,
                 StatusOf(p) = "live", StatusOf(q) = "live"
          PROVE  p = q
      BY <1>1, <2>2, BeforeTheHead
    <2>3. ASSUME NEW p \in QuestionId, NEW q \in QuestionId, p < q,
                 StatusOf(q) \in {"live", "done"}
          PROVE  StatusOf(p) \in {"done", "dropped"}
      <3>1. q <= Len(questions) - Len(queue) + 1
        BY <1>1, <2>3, BeforeTheHead
      <3>2. p <= Len(questions) - Len(queue)
        BY <2>1, <2>3, <3>1
      <3> QED
        BY <1>1, <3>2, BeforeTheHead
    <2> QED
      BY <2>1, <2>2, <2>3 DEF Ask!OneLive, Ask!AskedInOrder
  <1> QED
    BY <1>1, InitInv, NextInv, PTL DEF Spec

=============================================================================
