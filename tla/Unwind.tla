------------------------------- MODULE Unwind -------------------------------
(***************************************************************************)
(* How control leaves statements: the code src/compile.js makes of loops,  *)
(* try, with, break, continue, return and raise in one call of a function. *)
(*                                                                         *)
(* The call keeps a stack $exc of the blocks to which an exception jumps,  *)
(* and in $postfinally what is to be done after a finally block.  The      *)
(* program is not fixed: where is the nest of statements, from the outside *)
(* in, in which control is, and its next statement is any.                 *)
(***************************************************************************)
EXTENDS Naturals, Sequences, SequencesExt

CONSTANTS Exception,   \* exceptions the program raises
          MaxDepth,    \* bound: statements in each other
          MaxHandlers, \* bound: blocks on $exc
          Jumps,       \* which of break, continue and return the program has
          GoesOn       \* do statements follow them in a block, or exceptions?

VARIABLES
  where,   \* the statements and in which part of each control is
  exc,     \* $exc
  err,     \* $err
  post,    \* $postfinally
  saved,   \* a suspension of the call
  status   \* what the call is doing

vars == <<where, exc, err, post, saved, status>>

Nothing == "undefined"

(* $postfinally: undefined, a place to jump to, or a value to return. *)
NoJump == [does |-> "nothing", place |-> <<>>]
Jump(place) == [does |-> "jump", place |-> place]
Returning == [does |-> "return", place |-> <<>>]

(* The variables of a call that has just begun. *)
NotSaved == [where |-> <<>>, exc |-> <<>>, err |-> Nothing, post |-> NoJump]

(* A statement, in its body; a try statement goes on to the part except,   *)
(* for any of its clauses, or else, and to finally; with calls __exit__()  *)
(* in its part finally.  pending is finally_reraise.                       *)
Statement(kind, handlers, final) ==
  [kind |-> kind, part |-> "body", handlers |-> handlers, final |-> final,
   pending |-> Nothing]

Loop == Statement("loop", FALSE, FALSE)
With == Statement("with", FALSE, TRUE)
Try == {Statement("try", h, f) : h, f \in BOOLEAN} \ {Statement("try", FALSE, FALSE)}

Depth == Len(where)
Here == where[Depth]
Outside(k) == SubSeq(where, 1, k - 1)
InPart(place, part, e) ==
  [place EXCEPT ![Len(place)].part = part, ![Len(place)].pending = e]

(* Compiler.u.finallyBlocks and breakBlocks at a place in the program.     *)
Finallies(place) == {k \in DOMAIN place : place[k].final /\ place[k].part # "finally"}
Loops(place) == {k \in DOMAIN place : place[k].kind = "loop"}
Innermost(S) == CHOOSE k \in S : \A j \in S : j <= k

(* What a statement pushes on $exc: a place to be in when an exception is  *)
(* raised.                                                                 *)
Setup(place) ==
  LET s == place[Len(place)]
      To(part) == <<InPart(place, part, Nothing)>>
  IN  (IF s.final /\ s.part # "finally" THEN To("finally") ELSE <<>>)
      \o (IF s.handlers /\ s.part = "body" THEN To("except") ELSE <<>>)

Init == /\ where = <<>>
        /\ exc = <<>>
        /\ err = Nothing
        /\ post = NoJump
        /\ saved = NotSaved
        /\ status = "running"

Running == status = "running"

(* Any statement can be next, but not in the middle of a call of           *)
(* __exit__().  A jump in a try statement is only noted, see LeaveTo.      *)
InProgram == Running /\ ~(Depth > 0 /\ Here.kind = "with" /\ Here.part = "finally")
MayGoOn == GoesOn \/ post = NoJump

End(result) == /\ status' = result
               /\ where' = <<>>
               /\ exc' = <<>>

-----------------------------------------------------------------------------
(* Exceptions.                                                             *)

(* The catch clause around the blocks of a function. *)
Throw(e) ==
  /\ IF exc = <<>>
     THEN /\ End("raised")
          /\ UNCHANGED err
     ELSE LET to == Last(exc)
          IN  /\ err' = e
              /\ exc' = Front(exc)
              /\ where' = IF to[Len(to)].part = "finally" THEN InPart(to, "finally", e) ELSE to
              /\ UNCHANGED status
  /\ UNCHANGED <<post, saved>>

(* craise, or a call raises, of __exit__() too. *)
Raise(e) == Running /\ MayGoOn /\ Throw(e)

(* No clause is for this exception, or the handler says "raise". *)
NotHandled == /\ InProgram /\ MayGoOn
              /\ Depth > 0 /\ Here.part = "except"
              /\ Throw(err)

(* endExcept pops whatever is on top. *)
AfterPop == IF exc = <<>> THEN exc ELSE Front(exc)

-----------------------------------------------------------------------------
(* Statements that end where they should.                                  *)

Enter(s) ==
  /\ InProgram /\ MayGoOn
  /\ Depth < MaxDepth
  /\ where' = Append(where, s)
  /\ exc' = exc \o Setup(where')
  /\ Len(exc') <= MaxHandlers
  /\ UNCHANGED <<err, post, saved, status>>

EndLoop ==
  /\ InProgram
  /\ Depth > 0 /\ Here.kind = "loop"
  /\ where' = Outside(Depth)
  /\ UNCHANGED <<exc, err, post, saved, status>>

EndTryBody ==
  /\ InProgram
  /\ Depth > 0 /\ Here.kind = "try" /\ Here.part = "body"
  /\ where' = InPart(where, "else", Nothing)
  /\ exc' = IF Here.handlers THEN AfterPop ELSE exc
  /\ UNCHANGED <<err, post, saved, status>>

(* "End of the try/catch/else segment" of ctry; the end of the body of a   *)
(* with statement.                                                         *)
EndSegment ==
  /\ InProgram
  /\ Depth > 0
  /\ Here.part \in {"except", "else"} \/ (Here.kind = "with" /\ Here.part = "body")
  /\ IF Here.final
     THEN /\ where' = InPart(where, "finally", Nothing)
          /\ exc' = AfterPop
     ELSE /\ where' = Outside(Depth)
          /\ UNCHANGED exc
  /\ UNCHANGED <<err, post, saved, status>>

(* The finally block raises again what it was entered with; __exit__() has *)
(* returned something false.                                               *)
FinallyReraises ==
  /\ Running
  /\ Depth > 0 /\ Here.part = "finally" /\ Here.pending # Nothing
  /\ Throw(Here.pending)

(* __exit__() has returned something true. *)
ExitSwallows ==
  /\ Running
  /\ Depth > 0 /\ Here.kind = "with" /\ Here.part = "finally" /\ Here.pending # Nothing
  /\ where' = Outside(Depth)
  /\ UNCHANGED <<exc, err, post, saved, status>>

(* outputFinallyCascade: control goes on, or to where $postfinally says;   *)
(* first to the finally block around this one if that is left, too.        *)
AtFinallyEnd == Running /\ Depth > 0 /\ Here.part = "finally" /\ Here.pending = Nothing

LeavesOuterFinally ==
  LET out == Outside(Depth)
  IN  /\ Finallies(out) # {}
      /\ post = Returning \/ \A k \in Loops(out) : k < Innermost(Finallies(out))

EndFinally ==
  /\ AtFinallyEnd
  /\ post = NoJump
  /\ where' = Outside(Depth)
  /\ UNCHANGED <<exc, err, post, saved, status>>

ToOuterFinally ==
  /\ AtFinallyEnd
  /\ post # NoJump /\ LeavesOuterFinally
  /\ where' = InPart(SubSeq(where, 1, Innermost(Finallies(Outside(Depth)))), "finally", Nothing)
  /\ UNCHANGED <<exc, err, post, saved, status>>

ReturnAtLast ==
  /\ AtFinallyEnd
  /\ post = Returning /\ ~LeavesOuterFinally
  /\ End("returned")
  /\ UNCHANGED <<err, post, saved>>

JumpAtLast ==
  /\ AtFinallyEnd
  /\ post.does = "jump" /\ ~LeavesOuterFinally
  /\ where' = post.place
  /\ post' = NoJump
  /\ UNCHANGED <<exc, err, saved, status>>

-----------------------------------------------------------------------------
(* Statements that jump.                                                   *)

(* cbreak, ccontinue: when there is a finally block in the loop only       *)
(* $postfinally is set, and control goes on.  An exception follows also    *)
(* where a finally block in the loop will raise one again.                 *)
LeaveTo(place, loop) ==
  /\ IF \E k \in Finallies(where) : k > loop
     THEN /\ GoesOn \/ \A k \in DOMAIN where : k > loop => where[k].pending = Nothing
          /\ post' = Jump(place)
          /\ UNCHANGED where
     ELSE /\ where' = place
          /\ UNCHANGED post
  /\ UNCHANGED <<exc, err, saved, status>>

Break == /\ "break" \in Jumps
         /\ InProgram /\ MayGoOn
         /\ Loops(where) # {}
         /\ LET loop == Innermost(Loops(where)) IN LeaveTo(Outside(loop), loop)

Continue == /\ "continue" \in Jumps
            /\ InProgram /\ MayGoOn
            /\ Loops(where) # {}
            /\ LET loop == Innermost(Loops(where)) IN LeaveTo(Outside(loop + 1), loop)

(* The case of vstmt for return. *)
ReturnStatement ==
  /\ "return" \in Jumps
  /\ InProgram /\ MayGoOn
  /\ IF Finallies(where) = {}
     THEN /\ End("returned")
          /\ UNCHANGED post
     ELSE /\ post' = Returning
          /\ where' = InPart(SubSeq(where, 1, Innermost(Finallies(where))), "finally", Nothing)
          /\ UNCHANGED <<exc, status>>
  /\ UNCHANGED <<err, saved>>

-----------------------------------------------------------------------------
(* A call in the function suspends: $saveSuspension; later the function is *)
(* called again, with its variables as at the start of any call, and takes *)
(* them from the suspension: $wakeFromSuspension.                          *)

Suspend ==
  /\ Running
  /\ saved' = [where |-> where, exc |-> exc, err |-> err, post |-> post]
  /\ where' = <<>> /\ exc' = <<>> /\ err' = Nothing /\ post' = NoJump
  /\ status' = "suspended"

(* A bug: $exc is not restored. *)
WakeWithoutHandlers ==
  /\ status = "suspended"
  /\ where' = saved.where /\ err' = saved.err /\ post' = saved.post
  /\ exc' = <<>>
  /\ saved' = NotSaved
  /\ status' = "running"

Wake ==
  /\ status = "suspended"
  /\ where' = saved.where /\ exc' = saved.exc /\ err' = saved.err /\ post' = saved.post
  /\ saved' = NotSaved
  /\ status' = "running"

Next == \/ \E e \in Exception : Raise(e)
        \/ NotHandled \/ FinallyReraises \/ ExitSwallows
        \/ \E s \in {Loop, With} \cup Try : Enter(s)
        \/ EndLoop \/ EndTryBody \/ EndSegment \/ EndFinally \/ ToOuterFinally \/ ReturnAtLast \/ JumpAtLast
        \/ Break \/ Continue \/ ReturnStatement
        \/ Suspend \/ Wake

Spec == Init /\ [][Next]_vars

-----------------------------------------------------------------------------
(* What could go wrong.                                                    *)

(* Where the statements around a place, in whose bodies it is, want an     *)
(* exception to go: their numbers, from the outside in, and their parts.   *)
Needs(place) ==
  {<<k, "finally">> : k \in Finallies(place)}
  \cup {<<k, "except">> : k \in {k \in DOMAIN place : place[k].handlers /\ place[k].part = "body"}}
Before(m, n) == m[1] < n[1] \/ (m[1] = n[1] /\ m[2] = "finally" /\ n[2] = "except")
Block(place, n) == InPart(SubSeq(place, 1, n[1]), n[2], Nothing)

Kept(place, blocks) ==
  \E at \in [Needs(place) -> DOMAIN blocks] :
    \A n \in Needs(place) : /\ blocks[at[n]] = Block(place, n)
                           /\ \A m \in Needs(place) : Before(m, n) => at[m] < at[n]

(* However control got to a place, by jumps, exceptions and suspensions,   *)
(* the handlers and finally blocks around it are on $exc, in their order:  *)
(* no exception skips all of them, no try statement pops another's.        *)
HandlersStay == Running => Kept(where, exc)

(* Nothing else is: no jump out of a try statement leaves a handler behind *)
(* for a later exception ("continue inside try called except block",       *)
(* test/unit3/test_grammar.py).                                            *)
NoOtherHandlers == Running => \A i \in DOMAIN exc : \E n \in Needs(where) : exc[i] = Block(where, n)

=============================================================================
