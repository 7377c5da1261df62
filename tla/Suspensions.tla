----------------------------- MODULE Suspensions -----------------------------
(***************************************************************************)
(* Functions of the VM that call other functions which may suspend         *)
(* (src/misceval.js): chain, tryCatch, iterFor, and calls that may not     *)
(* suspend.  One that calls a function which suspends returns a suspension *)
(* of its own, which holds the other's and how to go on from there; the    *)
(* outermost one is given to asyncToPromise.                               *)
(*                                                                         *)
(* A program is a tree of such calls.  Its leaves are functions which      *)
(* suspend a number of times, and then return or raise.                    *)
(***************************************************************************)
EXTENDS Naturals, Sequences, SequencesExt

CONSTANT Suspends   \* how often leaves suspend

VARIABLES
  program,
  outcome   \* what the outermost call returned: a value, an exception or a
            \* suspension, and the calls of leaves that have ended by then

vars == <<program, outcome>>

-----------------------------------------------------------------------------
(* Trees.  Functions are called with a value, and for iterFor's with the   *)
(* previous value too.  Break is a value like others, but to iterFor.      *)

Nothing == 0
SuspensionError == 99
Leaf(id, suspends, optional, ends) ==
  [op |-> "leaf", id |-> id, suspends |-> suspends, optional |-> optional, ends |-> ends]
Chain(fns) == [op |-> "chain", fns |-> fns]
TryCatch(try, catch) == [op |-> "tryCatch", try |-> try, catch |-> catch]
IterFor(items, for) == [op |-> "iterFor", items |-> items, for |-> for]
NoSuspend(fn) == [op |-> "noSuspend", fn |-> fn]

(* Programs of four or five leaves, of which some raise, break out of a    *)
(* loop, or suspend optionally.                                            *)
Leaves(id, ends) == {Leaf(id, s, FALSE, e) : s \in Suspends, e \in ends}
OptionalLeaf(id, ends) == Leaf(id, 1, TRUE, ends)
Either == {"returns", "raises"}

Programs ==
  {Chain(<<a, TryCatch(Chain(<<b, c>>), h), e>>) :
     a \in Leaves(1, {"returns"}), b \in Leaves(2, Either), c \in Leaves(3, Either),
     h \in Leaves(4, Either), e \in Leaves(5, {"returns"})}
  \cup
  {TryCatch(IterFor(<<i, j>>, Chain(<<a, b>>)), h) :
     i \in Leaves(1, {"returns"}), j \in Leaves(2, Either), a \in Leaves(3, {"returns"}),
     b \in Leaves(4, Either \cup {"breaks"}), h \in Leaves(5, Either)}
  \cup
  {TryCatch(NoSuspend(Chain(<<a, TryCatch(b, c)>>)), h) :
     a \in Leaves(1, {"returns"}) \cup {OptionalLeaf(1, "returns")},
     b \in Leaves(2, Either) \cup {OptionalLeaf(2, "raises")},
     c \in Leaves(3, Either), h \in Leaves(4, Either)}

Value(v, log) == [is |-> "value", val |-> v, break |-> FALSE, log |-> log]
Raised(v, log) == [is |-> "exception", val |-> v, break |-> FALSE, log |-> log]
Suspended(susp, log) == [is |-> "suspension", susp |-> susp, log |-> log]

(* A leaf which ends: what it was called with shows in the log. *)
Ended(leaf, input, log) ==
  LET log2 == Append(log, <<leaf.id>> \o input)
  IN IF leaf.ends = "raises" THEN Raised(leaf.id, log2)
     ELSE [Value(leaf.id, log2) EXCEPT !.break = leaf.ends = "breaks"]

RECURSIVE IsOptional(_)
IsOptional(susp) == IF susp.op = "leaf" THEN susp.optional ELSE IsOptional(susp.child)

-----------------------------------------------------------------------------
(* What calls return, and suspensions that are resumed.  A frame is how a  *)
(* call goes on when one that it made returns r.                           *)

(* A bug: the chain goes on with the function after the next one. *)
SkipsOne(frame, susp) ==
  [child |-> susp] @@ IF frame.op = "chain" /\ frame.fns # <<>>
                      THEN [frame EXCEPT !.fns = Tail(@)] ELSE frame

(* A bug: what is resumed is no longer within the tryCatch. *)
Bare(frame, susp) == IF frame.op = "tryCatch" THEN susp ELSE [child |-> susp] @@ frame

Holding(frame, susp) == [child |-> susp] @@ frame

RECURSIVE Call(_, _, _), Resume(_, _), GoOn(_, _), Iterate(_, _, _, _)

Call(f, input, log) ==
  CASE f.op = "leaf" ->
         IF f.suspends = 0 THEN Ended(f, input, log) ELSE Suspended([input |-> input] @@ f, log)
    [] f.op = "chain" -> GoOn([op |-> "chain", fns |-> Tail(f.fns)], Call(f.fns[1], input, log))
    [] f.op = "tryCatch" -> GoOn([op |-> "tryCatch", catch |-> f.catch], Call(f.try, input, log))
    [] f.op = "iterFor" -> Iterate(f.items, f.for, Nothing, log)
    [] f.op = "noSuspend" -> GoOn([op |-> "noSuspend"], Call(f.fn, input, log))

Iterate(items, for, prev, log) ==
  IF items = <<>> THEN Value(prev, log)
  ELSE GoOn([op |-> "next", items |-> Tail(items), for |-> for, prev |-> prev],
            Call(items[1], <<Nothing, Nothing>>, log))

Resume(susp, log) ==
  CASE susp.op # "leaf" -> GoOn(susp, Resume(susp.child, log))
    [] susp.op = "leaf" /\ susp.suspends = 1 -> Ended(susp, susp.input, log)
    [] OTHER -> Suspended([susp EXCEPT !.suspends = @ - 1], log)

GoOn(frame, r) ==
  CASE r.is = "suspension" ->
         IF frame.op # "noSuspend" THEN Suspended(Holding(frame, r.susp), r.log)
         ELSE IF IsOptional(r.susp) THEN GoOn(frame, Resume(r.susp, r.log))
         ELSE Raised(SuspensionError, r.log)
    [] r.is = "exception" ->
         IF frame.op = "tryCatch" THEN Call(frame.catch, <<r.val, Nothing>>, r.log) ELSE r
    [] r.is = "value" ->
         CASE frame.op = "chain" /\ frame.fns # <<>> ->
                GoOn([op |-> "chain", fns |-> Tail(frame.fns)],
                     Call(frame.fns[1], <<r.val, Nothing>>, r.log))
           [] frame.op = "next" ->
                GoOn([op |-> "for", items |-> frame.items, for |-> frame.for],
                     Call(frame.for, <<r.val, frame.prev>>, r.log))
           [] frame.op = "for" ->
                IF r.break THEN Value(r.val, r.log)
                ELSE Iterate(frame.items, frame.for, r.val, r.log)
           [] OTHER -> r

-----------------------------------------------------------------------------
Init == /\ program \in Programs
        /\ outcome = Call(program, <<Nothing, Nothing>>, <<>>)

(* asyncToPromise resumes what it is given, at once or when the promise is *)
(* settled.                                                                *)
HandleResponse ==
  /\ outcome.is = "suspension"
  /\ outcome' = Resume(outcome.susp, outcome.log)
  /\ UNCHANGED program

Next == HandleResponse

Spec == Init /\ [][Next]_vars

-----------------------------------------------------------------------------
(* What a program comes to if nothing is said of suspensions, except that  *)
(* a leaf may block where it must not.                                     *)
RECURSIVE Meaning(_, _, _, _)
Meaning(f, input, log, mayBlock) ==
  CASE f.op = "leaf" ->
         IF f.suspends > 0 /\ ~f.optional /\ ~mayBlock
         THEN [Raised(SuspensionError, log) EXCEPT !.is = "blocked"]
         ELSE Ended(f, input, log)
    [] f.op = "chain" ->
         FoldLeft(LAMBDA r, g : IF r.is # "value" THEN r
                                ELSE Meaning(g, <<r.val, Nothing>>, r.log, mayBlock),
                  Meaning(f.fns[1], input, log, mayBlock), Tail(f.fns))
    [] f.op = "tryCatch" ->
         LET r == Meaning(f.try, input, log, mayBlock)
         IN IF r.is = "exception" THEN Meaning(f.catch, <<r.val, Nothing>>, r.log, mayBlock)
            ELSE r
    [] f.op = "iterFor" ->
         [FoldLeft(LAMBDA r, item :
                     IF r.is # "value" \/ r.break THEN r
                     ELSE LET i == Meaning(item, <<Nothing, Nothing>>, r.log, mayBlock)
                          IN IF i.is # "value" THEN i
                             ELSE Meaning(f.for, <<i.val, r.val>>, i.log, mayBlock),
                   Value(Nothing, log), f.items) EXCEPT !.break = FALSE]
    [] f.op = "noSuspend" ->
         LET r == Meaning(f.fn, input, log, FALSE)
         IN IF r.is = "blocked" THEN Raised(SuspensionError, r.log) ELSE r

(* Wherever a program suspends, and however often, it comes to the same:   *)
(* functions are called once each, in order and with the right values, and *)
(* exceptions go to the tryCatch around them.                              *)
SuspensionsDoNotShow ==
  LET meaning == Meaning(program, <<Nothing, Nothing>>, <<>>, TRUE)
  IN IF outcome.is = "suspension" THEN IsPrefix(outcome.log, meaning.log) ELSE outcome = meaning

=============================================================================
