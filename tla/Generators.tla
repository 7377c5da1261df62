----------------------------- MODULE Generators -----------------------------
(***************************************************************************)
(* Generators (src/generator.js, and yield and yield from in               *)
(* src/compile.js), which the threads of a program share.  A generator     *)
(* keeps in gi$resumeat which yield its body was left at, and in           *)
(* gi$running that it runs: also while a function that it called is        *)
(* suspended, when other threads may ask for its next value.               *)
(*                                                                         *)
(* A body is a sequence of statements: "yield", "from" (yield from the     *)
(* generator Delegate), "wait" (a call that suspends), "raise", and "try"  *)
(* and "end" around statements whose exceptions are caught, after which    *)
(* the body goes on behind "end".  At its end it returns the number of the *)
(* generator.                                                              *)
(***************************************************************************)
EXTENDS Naturals, Sequences, SequencesExt

CONSTANTS Thread,
          Bodies,    \* choices of the bodies of all generators
          Delegate,
          MaxAsked   \* bound: values asked for

VARIABLES
  body,
  giRunning, giResumeAt, giSentValue,
  frames,   \* by thread: the generators that run or wait; the last one was
            \* asked by the one before it, the first one by the program
  active,   \* the thread that is running generators, or 0
  asked,    \* how many values programs asked for
  trace     \* by generator: the statements that have ended

vars == <<body, giRunning, giResumeAt, giSentValue, frames, active, asked, trace>>

-----------------------------------------------------------------------------
Generator == DOMAIN body
None == 0

(* Where an exception raised at pc is caught: behind the "end" of "try". *)
InTry(g, pc) == /\ \E i \in 1..(pc - 1) : body[g][i] = "try"
                /\ \E i \in (pc + 1)..Len(body[g]) : body[g][i] = "end"
Handler(g) == 1 + CHOOSE i \in DOMAIN body[g] : body[g][i] = "end"

Init == /\ body \in Bodies
        /\ giRunning = [g \in Generator |-> FALSE]
        /\ giResumeAt = [g \in Generator |-> 0]
        /\ giSentValue = [g \in Generator |-> None]
        /\ frames = [t \in Thread |-> <<>>]
        /\ active = 0
        /\ asked = 0
        /\ trace = [g \in Generator |-> <<>>]

-----------------------------------------------------------------------------
LeftAt(g, statement) == giResumeAt[g] # 0 /\ body[g][giResumeAt[g]] = statement
EntryBlock(g) == IF LeftAt(g, "from") THEN giResumeAt[g] ELSE giResumeAt[g] + 1

(* due is what the statement should give that the generator goes on with;  *)
(* canSuspend, whether it was asked by code that may suspend.              *)
Frame(g, due, canSuspend) ==
  [gen |-> g, pc |-> EntryBlock(g), exc |-> <<>>, due |-> due, canSuspend |-> canSuspend]

Ended(pc, got, due) == [pc |-> pc, got |-> got, due |-> due, raised |-> "nothing"]
Plainly(f) == Ended(f.pc, None, None)
Raised(f, caught) == [Plainly(f) EXCEPT !.raised = IF caught THEN "caught" ELSE "uncaught"]

Log(g, entry) == trace' = [trace EXCEPT ![g] = Append(@, entry)]

(* A bug: a generator that runs is asked all the same. *)
EntersAnyway(g) == TRUE

CanEnter(g) == ~giRunning[g]

(* iternext: the statement which the body was left at ends with the value  *)
(* sent; but "from" asks its delegate once more.                           *)
Enter(t, below, g, value, due, canSuspend) ==
  /\ giRunning' = [giRunning EXCEPT ![g] = TRUE]
  /\ giSentValue' = [giSentValue EXCEPT ![g] = value]
  /\ frames' = [frames EXCEPT ![t] = Append(below, Frame(g, due, canSuspend))]
  /\ IF LeftAt(g, "yield")
     THEN Log(g, Ended(giResumeAt[g], value, due))
     ELSE UNCHANGED trace
  /\ UNCHANGED <<body, giResumeAt>>

(* next(g), g.send(value), or a loop over g; to ask while g runs raises an *)
(* exception in the program, and nothing else.                             *)
Ask(t, g) ==
  /\ active = 0 /\ frames[t] = <<>> /\ asked < MaxAsked
  /\ CanEnter(g)
  /\ \E value \in {None, asked + 1}, canSuspend \in BOOLEAN :
       /\ value # None => canSuspend
       /\ Enter(t, <<>>, g, value, value, canSuspend)
  /\ active' = t
  /\ asked' = asked + 1

Top == Last(frames[active])
Below == Front(frames[active])
At(statement) ==
  /\ active # 0
  /\ Top.pc \in DOMAIN body[Top.gen] /\ body[Top.gen][Top.pc] = statement

GoesOn(exc) ==
  frames' = [frames EXCEPT ![active] =
    Append(Below, [Top EXCEPT !.pc = Top.pc + 1, !.due = None, !.exc = exc])]

(* A "try", and the end of one without an exception. *)
Try == /\ At("try")
       /\ GoesOn(Append(Top.exc, Handler(Top.gen)))
       /\ Log(Top.gen, Plainly(Top))
       /\ UNCHANGED <<body, giRunning, giResumeAt, giSentValue, active, asked>>

EndTry == /\ At("end")
          /\ GoesOn(IF Top.exc = <<>> THEN <<>> ELSE Front(Top.exc))
          /\ Log(Top.gen, Plainly(Top))
          /\ UNCHANGED <<body, giRunning, giResumeAt, giSentValue, active, asked>>

(* An exception goes to the innermost handler of those that run; what it   *)
(* passes stays gi$running.                                                *)
Throw ==
  LET stack == frames[active]
      catching == {k \in DOMAIN stack : stack[k].exc # <<>>}
      k == CHOOSE k \in catching : \A j \in catching : j <= k
      passed == IF catching = {} THEN DOMAIN stack ELSE k..Len(stack)
  IN  /\ trace' = [g \in Generator |->
           IF \E j \in passed : stack[j].gen = g
           THEN LET j == CHOOSE j \in passed : stack[j].gen = g
                IN Append(trace[g], Raised(stack[j], j \in catching))
           ELSE trace[g]]
      /\ IF catching = {}
         THEN frames' = [frames EXCEPT ![active] = <<>>] /\ active' = 0
         ELSE /\ frames' = [frames EXCEPT ![active] = Append(SubSeq(@, 1, k - 1),
                   [stack[k] EXCEPT !.pc = Last(stack[k].exc), !.exc = Front(@), !.due = None])]
              /\ UNCHANGED active
      /\ UNCHANGED <<body, giRunning, giResumeAt, giSentValue, asked>>

Raise == At("raise") /\ Throw

(* cyield: a pair is returned; those below return pairs as well, and go on *)
(* at "from".                                                              *)
Yield ==
  /\ At("yield")
  /\ LET stack == frames[active]
         Gives(g) == \E k \in DOMAIN stack : stack[k].gen = g
         Block(g) == stack[CHOOSE k \in DOMAIN stack : stack[k].gen = g].pc
     IN /\ giRunning' = [g \in Generator |-> giRunning[g] /\ ~Gives(g)]
        /\ giResumeAt' = [g \in Generator |->
             IF Gives(g) THEN Block(g) ELSE giResumeAt[g]]
  /\ frames' = [frames EXCEPT ![active] = <<>>]
  /\ active' = 0
  /\ UNCHANGED <<body, giSentValue, asked, trace>>

(* A bug: values sent do not reach the delegate. *)
PassesNone(g) == None

PassedOn(g) == giSentValue[g]

(* cyieldfrom: the delegate is asked, with what is in gi$sentvalue also    *)
(* when it is asked for the first time.                                    *)
Begun == 99
YieldFrom ==
  /\ At("from")
  /\ IF CanEnter(Delegate)
     THEN /\ Enter(active, frames[active], Delegate, PassedOn(Top.gen),
                   IF Top.pc = giResumeAt[Top.gen] THEN Top.due ELSE Begun, TRUE)
          /\ UNCHANGED <<active, asked>>
     ELSE Throw

(* Return: gi$resumeat stays; yield from has the value that is returned. *)
Return ==
  /\ active # 0 /\ Top.pc > Len(body[Top.gen])
  /\ giRunning' = [giRunning EXCEPT ![Top.gen] = FALSE]
  /\ IF Below = <<>>
     THEN /\ frames' = [frames EXCEPT ![active] = <<>>]
          /\ active' = 0
          /\ Log(Top.gen, Plainly(Top))
          /\ UNCHANGED giSentValue
     ELSE LET f == Last(Below)
          IN /\ frames' = [frames EXCEPT ![active] =
                  Append(Front(Below), [f EXCEPT !.pc = @ + 1, !.due = None])]
             /\ giSentValue' = [giSentValue EXCEPT ![f.gen] = Top.gen]
             /\ trace' = [trace EXCEPT ![Top.gen] = Append(@, Plainly(Top)),
                                       ![f.gen] = Append(@, Ended(f.pc, giSentValue'[f.gen], Top.gen))]
             /\ UNCHANGED active
  /\ UNCHANGED <<body, giResumeAt, asked>>

(* A call suspends.  If it may not, an exception is raised in the program  *)
(* that asked, and those that ran stay gi$running.                         *)
Wait == /\ At("wait")
        /\ frames' = IF frames[active][1].canSuspend THEN frames
                     ELSE [frames EXCEPT ![active] = <<>>]
        /\ active' = 0
        /\ UNCHANGED <<body, giRunning, giResumeAt, giSentValue, asked, trace>>

(* A bug: what is woken starts as if it were asked for a value. *)
WokenAsAsked(f) == [f EXCEPT !.pc = EntryBlock(f.gen), !.due = None]

(* $wakeFromSuspension *)
Woken(f) == [f EXCEPT !.pc = @ + 1, !.due = None]

Wake(t) ==
  /\ active = 0 /\ frames[t] # <<>>
  /\ active' = t
  /\ LET f == Last(frames[t])
     IN /\ frames' = [frames EXCEPT ![t] = Append(Front(@), Woken(f))]
        /\ Log(f.gen, Plainly(f))
  /\ UNCHANGED <<body, giRunning, giResumeAt, giSentValue, asked>>

Next == \/ \E t \in Thread : Wake(t) \/ \E g \in Generator : Ask(t, g)
        \/ Try \/ EndTry \/ Raise \/ Yield \/ YieldFrom \/ Return \/ Wait

Spec == Init /\ [][Next]_vars

-----------------------------------------------------------------------------
(* What could go wrong.                                                    *)

(* Two things which the code does otherwise than Python: asked after its   *)
(* end, a generator runs what is behind its last yield again; and a "try"  *)
(* does not outlast a value given inside of it.                            *)
ByPython(g, e) == e.pc <= Len(body[g])
GivesWithin(g, pc) == \E i \in 1..pc : InTry(g, i) /\ body[g][i] \in {"yield", "from"}

(* However threads ask for values and are suspended, a generator runs the  *)
(* statements of its body once each and in order, exceptions go to the     *)
(* handlers around them, and a yield has the value sent by whoever asked,  *)
(* through any yield from, and yield from the value that was returned.     *)
GeneratorsGoOn ==
  \A g \in Generator : \A i \in DOMAIN trace[g] :
    LET e == trace[g][i]
    IN /\ e.due # Begun => e.got = e.due
       /\ IF i = 1 THEN e.pc = 1
          ELSE LET before == trace[g][i - 1]
               IN ByPython(g, before) =>
                    IF before.raised = "nothing" THEN e.pc = before.pc + 1
                    ELSE before.raised = "caught" /\ e.pc = Handler(g)
       /\ (e.raised = "uncaught" /\ InTry(g, e.pc)) => GivesWithin(g, e.pc)

=============================================================================
