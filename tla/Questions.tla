----------------------------- MODULE Questions -----------------------------
(***************************************************************************)
(* The project's queue of questions: UserQuestion and the question methods *)
(* of Project in src/lib/pytch/project.js.  A thread which calls           *)
(* ask_and_wait() enqueues a question; the question at the head of the     *)
(* queue is the one the VM's client puts to the user; the client answers   *)
(* it between frames with accept_question_answer(); the end of the next    *)
(* frame retires it and asks the next one.  Stopping all threads empties   *)
(* the queue.                                                              *)
(*                                                                         *)
(* questions holds every UserQuestion ever constructed: ids are handed out *)
(* by a counter which is never reset, so the n-th question has id n here.  *)
(* A question outlives its place in the queue, because the thread asking   *)
(* it keeps a reference to it until it wakes.                              *)
(***************************************************************************)
EXTENDS Naturals, Sequences

CONSTANTS Answer,        \* strings the user can type
          MaxQuestions   \* bound: questions constructed in a behaviour

ASSUME MaxQuestionsAssumption == MaxQuestions \in Nat

VARIABLES questions,  \* every UserQuestion constructed, in order of id
          queue       \* Project.unanswered_questions, as a sequence of ids

questionVars == <<questions, queue>>

Waiting  == "waiting-to-be-asked"
Asking   == "waiting-for-answer"
Answered == "answered"
QuestionState == {Waiting, Asking, Answered}

QuestionId == 1..Len(questions)

(* What the client hands over: an answer, and the question which the user  *)
(* was looking at when giving it.  The program sees only the text.         *)
Reply == [to : Nat, text : Answer]
NoReply == [to |-> 0]

UserQuestion == [state : QuestionState, value : Reply \cup {NoReply}]

Init == /\ questions = <<>>
        /\ queue = <<>>

-----------------------------------------------------------------------------

IsAnswered(q) == questions[q].state = Answered

InQueue(q) == \E i \in 1..Len(queue) : queue[i] = q

(* A bug: every question is asked at once. *)
EnqueueAndAskAtOnce ==
  /\ Len(questions) < MaxQuestions
  /\ questions' = Append(questions, [state |-> Asking, value |-> NoReply])
  /\ queue' = Append(queue, Len(questions) + 1)

(* Project.enqueue_question: the question is asked at once if it is alone. *)
EnqueueQuestion ==
  /\ Len(questions) < MaxQuestions
  /\ LET first == IF queue = <<>> THEN Asking ELSE Waiting
     IN  questions' = Append(questions, [state |-> first, value |-> NoReply])
  /\ queue' = Append(queue, Len(questions) + 1)

(* Bugs: the id of the answered question is not compared with that of the  *)
(* live one; an answer is accepted twice.                                  *)
CanAcceptAnyId(id) == queue # <<>> /\ questions[Head(queue)].state = Asking

CanAcceptTwice(id) == queue # <<>> /\ id = Head(queue)

(* Project.accept_question_answer does not throw. *)
CanAccept(id) ==
  /\ queue # <<>>
  /\ id = Head(queue)
  /\ questions[Head(queue)].state = Asking

(* The client hands in the user's answer to question id, which may since   *)
(* have been answered, retired or thrown away; then the call throws and    *)
(* changes nothing.                                                        *)
AcceptQuestionAnswer(id, text) ==
  /\ CanAccept(id)
  /\ questions' = [questions EXCEPT
        ![Head(queue)] = [state |-> Answered,
                          value |-> [to |-> id, text |-> text]]]
  /\ UNCHANGED queue

(* A bug: the next question is never asked. *)
RetireWithoutAskingNext ==
  /\ queue # <<>>
  /\ IsAnswered(Head(queue))
  /\ queue' = Tail(queue)
  /\ UNCHANGED questions

(* Project.maybe_retire_answered_question, when there is one to retire. *)
RetireAnsweredQuestion ==
  /\ queue # <<>>
  /\ IsAnswered(Head(queue))
  /\ queue' = Tail(queue)
  /\ questions' = IF Tail(queue) = <<>> THEN questions
                  ELSE [questions EXCEPT ![Head(Tail(queue))].state = Asking]

MaybeRetireAnsweredQuestion ==
  IF queue # <<>> /\ IsAnswered(Head(queue)) THEN RetireAnsweredQuestion
                                             ELSE UNCHANGED <<questions, queue>>

(* Project.kill_all_threads_and_extras, as far as questions go. *)
DiscardQuestions ==
  /\ queue' = <<>>
  /\ UNCHANGED questions

Next ==
  \/ EnqueueQuestion
  \/ \E id \in QuestionId, text \in Answer : AcceptQuestionAnswer(id, text)
  \/ RetireAnsweredQuestion
  \/ DiscardQuestions

(* The frame loop keeps running, and so retires answered questions.  The   *)
(* user answers a question that stays on the screen.                       *)
UserAnswers == \E id \in QuestionId, text \in Answer : AcceptQuestionAnswer(id, text)

Spec == Init /\ [][Next]_questionVars

FairSpec == Spec /\ WF_questionVars(RetireAnsweredQuestion)
                 /\ WF_questionVars(UserAnswers)

-----------------------------------------------------------------------------
(* What could go wrong.                                                    *)

(* Types, for accept_question_answer, enqueue_question and the class.      *)
TypeOK == /\ questions \in Seq(UserQuestion)
          /\ queue \in Seq(Nat)

(* The queue is a window of consecutive questions which ends at the        *)
(* youngest: the code's FIFO discipline (push, shift, reset to []).        *)
QueueIsSuffix ==
  /\ Len(queue) <= Len(questions)
  /\ \A i \in 1..Len(queue) :
       queue[i] = Len(questions) - Len(queue) + i

(* Only the head of the queue has been shown to the user and the others    *)
(* wait to be asked.  Otherwise maybe_live_question would throw its        *)
(* "internal error", or the client would show two questions.               *)
HeadAlone ==
  \A i \in 1..Len(queue) :
    questions[queue[i]].state = Waiting <=> i > 1

(* An answer typed for one question never becomes the answer of another,   *)
(* however late it arrives: accept_question_answer compares ids.           *)
RepliesMatch ==
  \A q \in QuestionId : questions[q].value.to = IF IsAnswered(q) THEN q ELSE 0

(* A duplicated answer does not replace the first: once answered, a        *)
(* question keeps its value, which its thread will return to Python.       *)
AnswersAreFinal ==
  [][\A q \in QuestionId : IsAnswered(q) => questions'[q] = questions[q]]_questionVars

(* Every question in the queue leaves it, answered or discarded, if frames *)
(* keep running and the user keeps answering what is on the screen.        *)
EveryQuestionSettles == \A q \in 1..MaxQuestions : InQueue(q) ~> ~InQueue(q)

(* The queue implements AskOneAtATime: a question is live while it is at   *)
(* the head and unanswered, and dropped when the queue was discarded under *)
(* it.                                                                     *)
StatusOf(q) ==
  IF IsAnswered(q) THEN "done"
  ELSE IF ~InQueue(q) THEN "dropped"
  ELSE IF questions[q].state = Asking THEN "live" ELSE "pending"

Ask == INSTANCE AskOneAtATime WITH
         Unanswered <- NoReply,
         status <- [q \in QuestionId |-> StatusOf(q)],
         reply <- [q \in QuestionId |-> questions[q].value]

AskSpec == Ask!Spec

=============================================================================
