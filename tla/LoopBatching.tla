---------------------------- MODULE LoopBatching ----------------------------
(***************************************************************************)
(* How many iterations of its loops a thread runs in a frame:              *)
(* LoopIterationBatchingState and the should_yield, push and pop methods   *)
(* of Thread in src/lib/pytch/project.js, used by yield_until_next_frame() *)
(* (syscalls.js) and LoopIterationsPerFrame (loop_iteration_control.py).   *)
(*                                                                         *)
(* The compiler puts a call of yield_until_next_frame() at the start of    *)
(* every loop body.  The program is any nest of loops and with-blocks      *)
(* LoopIterationsPerFrame(n): straight-line code between two loop          *)
(* iterations has bounded length, so that a body enters at most one block  *)
(* between two iterations here.                                            *)
(***************************************************************************)
EXTENDS Naturals, Sequences, SequencesExt

CONSTANTS BatchSize,  \* numbers of iterations per frame asked for
          MaxDepth,   \* bound: batching states on the stack
          CallsYield  \* does the program call yield_until_next_frame() itself?

ASSUME LoopBatchingAssumption ==
  /\ BatchSize \subseteq Nat \ {0}
  /\ MaxDepth \in Nat
  /\ CallsYield \in BOOLEAN

VARIABLES
  batches,  \* Thread.loop_iteration_batching_states, the last one on top
  paused    \* has the thread's turn in this frame ended?

vars == <<batches, paused>>

(* perFrame is iterations_per_frame.  Two fields are history: ran counts   *)
(* the iterations begun in the frame in which the thread runs (or, when it *)
(* is paused, will run), and mayEnter says whether a with-block can follow. *)
Batch(n) == [perFrame |-> n, credits |-> n, ran |-> 0, mayEnter |-> TRUE]

(* The thread has been made, and will run in the next frame. *)
Init == /\ batches = <<Batch(1)>>
        /\ paused = TRUE

-----------------------------------------------------------------------------

Depth == Len(batches)
Top == batches[Depth]

(* LoopIterationBatchingState.should_yield: what it returns, and what it   *)
(* does to the credits.                                                    *)
ShouldYield(b) == b.credits = 0

(* A bug: new credits are not charged for the iteration about to start. *)
CreditsWithoutCharge(b) == IF b.credits = 0 THEN b.perFrame ELSE b.credits - 1

CreditsLeft(b) == (IF b.credits = 0 THEN b.perFrame ELSE b.credits) - 1

(* In a new frame no iteration has run yet. *)
InNewFrame(b) == [b EXCEPT !.ran = 0]

(* n iterations start: 1 when the compiler has put the call of             *)
(* yield_until_next_frame() into a loop body, 0 when the program calls it. *)
(* One iteration too many is as bad as more: ran stops there.              *)
Charged(b, n) ==
  [b EXCEPT !.credits = CreditsLeft(b),
            !.ran = IF b.ran > b.perFrame THEN @ ELSE @ + n,
            !.mayEnter = @ \/ n = 1]

Yield(n) ==
  LET yields == ShouldYield(Top)
  IN  /\ ~paused
      /\ paused' = yields
      /\ batches' = [k \in 1..Depth |->
            LET b == IF yields THEN InNewFrame(batches[k]) ELSE batches[k]
            IN  IF k < Depth THEN b ELSE Charged(b, n)]

StartIteration == Yield(1)

CallYield == CallsYield /\ Yield(0)

(* Any other system call which suspends the thread for a frame or more     *)
(* leaves the credits alone.                                               *)
Suspend == /\ ~paused
           /\ paused' = TRUE
           /\ batches' = [k \in 1..Depth |-> InNewFrame(batches[k])]

(* Thread.one_frame, when the thread is runnable again. *)
Resume == /\ paused
          /\ paused' = FALSE
          /\ UNCHANGED batches

(* LoopIterationsPerFrame.__enter__, push_loop_iterations_per_frame *)
Push(n) ==
  /\ ~paused
  /\ Depth < MaxDepth
  /\ Top.mayEnter
  /\ batches' = Append([batches EXCEPT ![Depth].mayEnter = FALSE], Batch(n))
  /\ UNCHANGED paused

(* A bug: leaving a block gives the enclosing loop new credits. *)
PopAndRefill ==
  /\ ~paused
  /\ Depth > 1
  /\ batches' = [SubSeq(batches, 1, Depth - 1) EXCEPT
                   ![Depth - 1].credits = batches[Depth - 1].perFrame]
  /\ UNCHANGED paused

(* LoopIterationsPerFrame.__exit__, also when an exception leaves the      *)
(* block; pop_loop_iterations_per_frame throws when only the base is left. *)
Pop ==
  /\ ~paused
  /\ Depth > 1
  /\ batches' = SubSeq(batches, 1, Depth - 1)
  /\ UNCHANGED paused

Next == \/ StartIteration \/ CallYield \/ Suspend \/ Resume
        \/ \E n \in BatchSize : Push(n)
        \/ Pop

Spec == Init /\ [][Next]_vars

(* A thread in a loop runs on: JavaScript does not interrupt it. *)
FairSpec == Spec /\ WF_vars(~paused /\ Next)

-----------------------------------------------------------------------------
(* What could go wrong.                                                    *)

(* However loops and blocks are nested, and wherever frames end in them,   *)
(* a loop runs no more iterations in a frame than its block allows, one    *)
(* when it is in no block.                                                 *)
IterationsWithinBatch ==
  \A k \in 1..Depth : batches[k].ran <= batches[k].perFrame

(* No nest of loops and blocks keeps the thread, and with it every other   *)
(* thread and the client, from the next frame.                             *)
LoopsReachNextFrame == []<>paused

=============================================================================
