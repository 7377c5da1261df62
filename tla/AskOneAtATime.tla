--------------------------- MODULE AskOneAtATime ---------------------------
(***************************************************************************)
(* What the question queue promises to the threads that ask and to the     *)
(* user who answers, with no queue in sight: every question is pending,    *)
(* then live (on the user's screen), then done; a question not yet done    *)
(* may be dropped; the user sees one question at a time, in the order in   *)
(* which they were asked; a reply reaches the question it was meant for    *)
(* and is never changed.                                                   *)
(***************************************************************************)
EXTENDS Naturals, Sequences

CONSTANTS Answer, Unanswered

VARIABLES status,  \* of each question asked so far, in order
          reply    \* [to, text] for a question that is done

askVars == <<status, reply>>

Status == {"pending", "live", "done", "dropped"}

Asked == 1..Len(status)

Unsettled == {q \in Asked : status[q] \in {"pending", "live"}}

Init == status = <<>> /\ reply = <<>>

(* A new question goes live at once only if nobody is ahead of it. *)
Ask == \E s \in {"pending", "live"} :
         /\ s = "live" => Unsettled = {}
         /\ status' = Append(status, s)
         /\ reply' = Append(reply, Unanswered)

Present(q) ==
  /\ status[q] = "pending"
  /\ \A p \in Unsettled : q <= p
  /\ status' = [status EXCEPT ![q] = "live"]
  /\ UNCHANGED reply

ReplyTo(q, text) ==
  /\ status[q] = "live"
  /\ status' = [status EXCEPT ![q] = "done"]
  /\ reply' = [reply EXCEPT ![q] = [to |-> q, text |-> text]]

DropAll ==
  /\ status' = [q \in Asked |-> IF q \in Unsettled THEN "dropped" ELSE status[q]]
  /\ UNCHANGED reply

Next == \/ Ask
        \/ \E q \in Asked : Present(q)
        \/ \E q \in Asked, text \in Answer : ReplyTo(q, text)
        \/ DropAll

Spec == Init /\ [][Next]_askVars

-----------------------------------------------------------------------------

(* The user is shown one question at a time: no two are live. *)
OneLive == \A p, q \in Asked : status[p] = "live" /\ status[q] = "live" => p = q

(* First come, first asked: when a question is live or done, every         *)
(* question asked before it has been settled.                              *)
AskedInOrder ==
  \A p, q \in Asked :
    p < q /\ status[q] \in {"live", "done"} => status[p] \in {"done", "dropped"}

=============================================================================
