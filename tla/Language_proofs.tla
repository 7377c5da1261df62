------------------------ MODULE Language_proofs ------------------------
(***************************************************************************)
(* Proofs about what the language does for a program: the iterations of    *)
(* its loops in a frame, handlers of exceptions around statements that     *)
(* jump, imports, and generators, for any values of the constants.         *)
(***************************************************************************)
EXTENDS Program, SequenceTheorems, WellFoundedInduction, TLAPS

-----------------------------------------------------------------------------
(* Loops (LoopBatching).                                                   *)

State == [perFrame : Nat \ {0}, credits : Nat, ran : Nat, mayEnter : BOOLEAN]

(* Every iteration of the frame has been paid for with a credit of the     *)
(* batch's own, and credits come back only when a frame ends.              *)
PaidFor(b) == b.ran + b.credits <= b.perFrame

BatchInv == /\ batches \in Seq(State)
            /\ Depth > 0
            /\ \A k \in 1..Depth : PaidFor(batches[k])

LEMMA NewBatchInv ==
  ASSUME NEW n \in Nat \ {0}
  PROVE  Batch(n) \in State /\ PaidFor(Batch(n))
  BY DEF Batch, State, PaidFor

LEMMA NewFrameInv ==
  ASSUME NEW b \in State, PaidFor(b)
  PROVE  InNewFrame(b) \in State /\ PaidFor(InNewFrame(b))
  BY DEF InNewFrame, State, PaidFor

Updated(b, x, y, m) == [b EXCEPT !.credits = x, !.ran = y, !.mayEnter = m]

LEMMA UpdatedInv ==
  ASSUME NEW b \in State, NEW x \in Nat, NEW y \in Nat, NEW m \in BOOLEAN,
         y + x <= b.perFrame
  PROVE  Updated(b, x, y, m) \in State /\ PaidFor(Updated(b, x, y, m))
  BY DEF Updated, State, PaidFor

(* One more iteration, or none, for one credit: when there is no credit    *)
(* left the iteration is the first one of a new frame.                     *)
LEMMA ChargedInv ==
  ASSUME NEW b \in State, PaidFor(b), ShouldYield(b) => b.ran = 0, NEW n \in {0, 1}
  PROVE  Charged(b, n) \in State /\ PaidFor(Charged(b, n))
  <1>1. /\ CreditsLeft(b) \in Nat /\ b.ran + n \in Nat
        /\ (b.ran + n) + CreditsLeft(b) <= b.perFrame
        /\ ~(b.ran > b.perFrame)
    BY DEF State, PaidFor, CreditsLeft, ShouldYield
  <1>2. (b.mayEnter \/ n = 1) \in BOOLEAN
    OBVIOUS
  <1>3. Charged(b, n) = Updated(b, CreditsLeft(b), b.ran + n, b.mayEnter \/ n = 1)
    BY <1>1 DEF Charged, Updated
  <1> QED
    BY <1>1, <1>2, <1>3, UpdatedInv, Zenon

LEMMA YieldKeepsInv ==
  ASSUME BatchInv, NEW n \in {0, 1}, Yield(n)
  PROVE  BatchInv'
  <1> DEFINE old(k) == IF ShouldYield(Top) THEN InNewFrame(batches[k]) ELSE batches[k]
             new(k) == IF k < Depth THEN old(k) ELSE Charged(old(k), n)
  <1>1. Depth \in Nat \ {0} /\ \A k \in 1..Depth : batches[k] \in State /\ PaidFor(batches[k])
    BY DEF BatchInv, Depth
  <1>2. batches' = [k \in 1..Depth |-> new(k)]
    BY DEF Yield
  <1>3. \A k \in 1..Depth : old(k) \in State /\ PaidFor(old(k))
    BY <1>1, NewFrameInv
  <1>4. ShouldYield(old(Depth)) => old(Depth).ran = 0
    BY <1>1 DEF ShouldYield, Top, InNewFrame, State
  <1> HIDE DEF old
  <1>5. \A k \in 1..Depth : new(k) \in State /\ PaidFor(new(k))
    <2> SUFFICES ASSUME NEW k \in 1..Depth PROVE new(k) \in State /\ PaidFor(new(k))
      OBVIOUS
    <2>1. CASE k < Depth
      BY <1>3, <2>1
    <2>2. CASE k = Depth
      BY <1>1, <1>3, <1>4, <2>2, ChargedInv
    <2> QED
      BY <1>1, <2>1, <2>2
  <1> HIDE DEF new
  <1> QED
    BY <1>1, <1>2, <1>5 DEF BatchInv, Depth

LEMMA SuspendKeepsInv ==
  ASSUME BatchInv, Suspend
  PROVE  BatchInv'
  <1>1. Depth \in Nat \ {0} /\ \A k \in 1..Depth : batches[k] \in State /\ PaidFor(batches[k])
    BY DEF BatchInv, Depth
  <1>2. \A k \in 1..Depth : InNewFrame(batches[k]) \in State /\ PaidFor(InNewFrame(batches[k]))
    BY <1>1, NewFrameInv
  <1> QED
    BY <1>1, <1>2 DEF BatchInv, Depth, Suspend

LEMMA PushKeepsInv ==
  ASSUME BatchInv, NEW n \in BatchSize, Push(n)
  PROVE  BatchInv'
  <1> DEFINE top == [Top EXCEPT !.mayEnter = FALSE]
             old == [batches EXCEPT ![Depth] = top]
  <1>1. Depth \in Nat \ {0} /\ \A k \in 1..Depth : batches[k] \in State /\ PaidFor(batches[k])
    BY DEF BatchInv, Depth
  <1>2. Top \in State /\ PaidFor(Top)
    BY <1>1 DEF Top
  <1>3. top \in State /\ PaidFor(top)
    BY <1>2 DEF State, PaidFor
  <1>4. Batch(n) \in State /\ PaidFor(Batch(n))
    BY NewBatchInv, LoopBatchingAssumption
  <1>5. batches' = Append(old, Batch(n))
    BY DEF Push, Top
  <1> HIDE DEF top
  <1>6. old \in Seq(State) /\ Len(old) = Depth /\ \A k \in 1..Depth : PaidFor(old[k])
    BY <1>1, <1>3 DEF BatchInv, Depth
  <1> HIDE DEF old
  <1> QED
    BY <1>1, <1>4, <1>5, <1>6 DEF BatchInv, Depth

LEMMA PopKeepsInv ==
  ASSUME BatchInv, Pop
  PROVE  BatchInv'
  <1>1. Depth \in Nat /\ Depth > 1
    BY DEF BatchInv, Depth, Pop
  <1>2. /\ batches' \in Seq(State) /\ Len(batches') = Depth - 1
        /\ \A k \in 1..(Depth - 1) : batches'[k] = batches[k]
    BY <1>1 DEF BatchInv, Depth, Pop
  <1> QED
    BY <1>1, <1>2 DEF BatchInv, Depth

(* No loop runs more iterations in a frame than the block which it is in   *)
(* allows, however blocks are nested and wherever the thread is suspended. *)
THEOREM LoopsKeepToTheirBatch == Spec => []IterationsWithinBatch
  <1>1. Init => BatchInv
    <2> SUFFICES ASSUME Init PROVE BatchInv
      OBVIOUS
    <2>1. Batch(1) \in State /\ PaidFor(Batch(1))
      BY NewBatchInv
    <2>2. batches = <<Batch(1)>>
      BY DEF Init
    <2> QED
      BY <2>1, <2>2 DEF BatchInv, Depth
  <1>2. BatchInv /\ [Next]_vars => BatchInv'
    <2> SUFFICES ASSUME BatchInv, [Next]_vars PROVE BatchInv'
      OBVIOUS
    <2>1. CASE StartIteration
      BY <2>1, YieldKeepsInv DEF StartIteration
    <2>2. CASE CallYield
      BY <2>2, YieldKeepsInv DEF CallYield
    <2>3. CASE Suspend
      BY <2>3, SuspendKeepsInv
    <2>4. CASE \E n \in BatchSize : Push(n)
      BY <2>4, PushKeepsInv
    <2>5. CASE Pop
      BY <2>5, PopKeepsInv
    <2>6. CASE Resume \/ UNCHANGED vars
      BY <2>6 DEF Resume, vars, BatchInv, Depth
    <2> QED
      BY <2>1, <2>2, <2>3, <2>4, <2>5, <2>6 DEF Next
  <1>3. BatchInv => IterationsWithinBatch
    <2> SUFFICES ASSUME BatchInv, NEW k \in 1..Depth
                 PROVE  batches[k].ran <= batches[k].perFrame
      BY DEF IterationsWithinBatch
    <2>1. batches[k] \in State /\ PaidFor(batches[k])
      BY DEF BatchInv, Depth
    <2> QED
      BY <2>1 DEF State, PaidFor
  <1> QED
    BY <1>1, <1>2, <1>3, PTL DEF Spec

-----------------------------------------------------------------------------
(* Jumps (Unwind).                                                         *)

(* The statements of a program, in any part of them.                       *)
StatementRecord ==
  {s \in [kind : {"loop", "with", "try"}, part : {"body", "except", "else", "finally"},
          handlers : BOOLEAN, final : BOOLEAN, pending : Exception \cup {J!Nothing}] :
     /\ s.kind = "loop" => ~s.final /\ ~s.handlers
     /\ s.kind = "with" => ~s.handlers}
Place == Seq(StatementRecord)
Moved(s, part, e) == [s EXCEPT !.part = part, !.pending = e]

(* q is a place that control can leave p for: in the same statements, but  *)
(* possibly not in all of them, and in some part of the last one.          *)
Leaves(q, p) ==
  /\ Len(q) <= Len(p)
  /\ \A k \in DOMAIN q : k < Len(q) => q[k] = p[k]
  /\ Len(q) > 0 => /\ q[Len(q)].kind = p[Len(q)].kind
                   /\ q[Len(q)].handlers = p[Len(q)].handlers
                   /\ q[Len(q)].final = p[Len(q)].final

-----------------------------------------------------------------------------
(* Places.                                                                 *)
LEMMA InPartIsPlace ==
  ASSUME NEW p \in Place, p # <<>>, NEW part \in {"body", "except", "else", "finally"},
         NEW e \in Exception \cup {J!Nothing}
  PROVE  /\ J!InPart(p, part, e) \in Place
         /\ Len(J!InPart(p, part, e)) = Len(p)
         /\ \A k \in DOMAIN p : k < Len(p) => J!InPart(p, part, e)[k] = p[k]
         /\ J!InPart(p, part, e)[Len(p)] = Moved(p[Len(p)], part, e)
  <1> DEFINE n == Len(p)
             q == J!InPart(p, part, e)
             r == Moved(p[n], part, e)
  <1>1. n \in Nat \ {0} /\ DOMAIN p = 1..n /\ p[n] \in StatementRecord
    BY DEF Place
  <1>2. r \in StatementRecord
    <2> PICK s : s = p[n]
      OBVIOUS
    <2>1. [s EXCEPT !.part = part, !.pending = e] \in StatementRecord
      BY <1>1 DEF StatementRecord
    <2> QED
      BY <2>1 DEF Moved
  <1>3. q = [p EXCEPT ![n] = r]
    BY <1>1 DEF J!InPart, StatementRecord, Moved
  <1> HIDE DEF q, r
  <1>4. q \in Place /\ Len(q) = n
    BY <1>1, <1>2, <1>3 DEF Place
  <1>5. q[n] = r /\ \A k \in DOMAIN p : k < n => q[k] = p[k]
    BY <1>1, <1>3
  <1> QED
    BY <1>4, <1>5 DEF q, r

LEMMA PrefixIsPlace ==
  ASSUME NEW p \in Place, NEW k \in 0..Len(p)
  PROVE  /\ SubSeq(p, 1, k) \in Place
         /\ Len(SubSeq(p, 1, k)) = k
         /\ \A j \in 1..k : SubSeq(p, 1, k)[j] = p[j]
  BY DEF Place

LEMMA StatementChanged ==
  ASSUME NEW s \in StatementRecord, NEW part, NEW e
  PROVE  /\ Moved(s, part, e).kind = s.kind
         /\ Moved(s, part, e).handlers = s.handlers
         /\ Moved(s, part, e).final = s.final
         /\ Moved(s, part, e).part = part
         /\ Moved(s, part, e).pending = e
  BY DEF StatementRecord, Moved

LEMMA PrefixLeaves ==
  ASSUME NEW p \in Place, NEW k \in 0..Len(p)
  PROVE  Leaves(SubSeq(p, 1, k), p)
  BY PrefixIsPlace DEF Leaves, Place

LEMMA PartLeaves ==
  ASSUME NEW p \in Place, NEW k \in 1..Len(p), NEW part \in {"body", "except", "else", "finally"},
         NEW e \in Exception \cup {J!Nothing}
  PROVE  /\ Leaves(J!InPart(SubSeq(p, 1, k), part, e), p)
         /\ J!InPart(SubSeq(p, 1, k), part, e) \in Place
         /\ Len(J!InPart(SubSeq(p, 1, k), part, e)) = k
         /\ J!InPart(SubSeq(p, 1, k), part, e)[k].part = part
         /\ J!InPart(SubSeq(p, 1, k), part, e)[k].pending = e
  <1> DEFINE s == SubSeq(p, 1, k)
             q == J!InPart(s, part, e)
  <1>1. s \in Place /\ Len(s) = k /\ s # <<>> /\ \A j \in 1..k : s[j] = p[j]
    BY PrefixIsPlace DEF Place
  <1>2. p[k] \in StatementRecord
    BY DEF Place
  <1> HIDE DEF s
  <1>3. /\ q \in Place /\ Len(q) = k
        /\ \A j \in DOMAIN s : j < k => q[j] = s[j]
        /\ q[k] = Moved(s[k], part, e)
    BY <1>1, InPartIsPlace
  <1> HIDE DEF q
  <1>4. DOMAIN s = 1..k /\ DOMAIN q = 1..k
    BY <1>1, <1>3 DEF Place
  <1>5. q[k] = Moved(p[k], part, e)
    BY <1>1, <1>3
  <1>6. /\ q[k].kind = p[k].kind /\ q[k].handlers = p[k].handlers /\ q[k].final = p[k].final
        /\ q[k].part = part /\ q[k].pending = e
    BY <1>2, <1>5, StatementChanged
  <1>7. Leaves(q, p)
    BY <1>1, <1>3, <1>4, <1>6 DEF Leaves, Place
  <1> QED
    BY <1>3, <1>6, <1>7 DEF q, s

(* The block of a statement is the same from all places in it.             *)
LEMMA SameBlock ==
  ASSUME NEW p \in Place, NEW q \in Place, Leaves(q, p), NEW k \in DOMAIN q,
         NEW part \in {"except", "finally"}
  PROVE  J!Block(q, <<k, part>>) = J!Block(p, <<k, part>>)
  <1> DEFINE a == SubSeq(q, 1, k)
             b == SubSeq(p, 1, k)
  <1>1. k \in 1..Len(q) /\ k \in 1..Len(p)
    BY DEF Leaves, Place
  <1>2. /\ a \in Place /\ Len(a) = k /\ \A j \in 1..k : a[j] = q[j]
        /\ b \in Place /\ Len(b) = k /\ \A j \in 1..k : b[j] = p[j]
    BY <1>1, PrefixIsPlace
  <1>3. a # <<>> /\ b # <<>> /\ DOMAIN a = 1..k /\ DOMAIN b = 1..k
    BY <1>1, <1>2 DEF Place
  <1> HIDE DEF a, b
  <1> DEFINE A == J!InPart(a, part, J!Nothing)
             B == J!InPart(b, part, J!Nothing)
  <1>4. /\ A \in Place /\ Len(A) = k /\ \A j \in 1..k : j < k => A[j] = a[j]
        /\ A[k] = Moved(a[k], part, J!Nothing)
        /\ B \in Place /\ Len(B) = k /\ \A j \in 1..k : j < k => B[j] = b[j]
        /\ B[k] = Moved(b[k], part, J!Nothing)
    BY <1>2, <1>3, InPartIsPlace
  <1> HIDE DEF A, B
  <1>5. q[k] \in StatementRecord /\ p[k] \in StatementRecord
    BY <1>1 DEF Place
  <1>6. q[k].kind = p[k].kind /\ q[k].handlers = p[k].handlers /\ q[k].final = p[k].final
    BY <1>1 DEF Leaves, Place
  <1>7. A[k] = B[k]
    <2> PICK s \in StatementRecord, t \in StatementRecord : s = q[k] /\ t = p[k]
      BY <1>5
    <2>1. s.kind = t.kind /\ s.handlers = t.handlers /\ s.final = t.final
      BY <1>6
    <2>2. Moved(s, part, J!Nothing) = Moved(t, part, J!Nothing)
      BY <2>1 DEF StatementRecord, Moved
    <2>3. a[k] = q[k] /\ b[k] = p[k]
      BY <1>1, <1>2
    <2> QED
      BY <1>4, <2>2, <2>3
  <1>8. ASSUME NEW j \in 1..k, j < k PROVE A[j] = B[j]
    <2>1. q[j] = p[j]
      BY <1>1, <1>8 DEF Leaves, Place
    <2> QED
      BY <1>2, <1>4, <1>8, <2>1
  <1>9. A = B
    BY <1>1, <1>4, <1>7, <1>8 DEF Place
  <1> QED
    BY <1>9 DEF J!Block, A, B, a, b

(* What a place needs.                                                     *)
LEMMA NeedsAre ==
  ASSUME NEW p, NEW n
  PROVE  n \in J!Needs(p) <=>
           \E k \in DOMAIN p :
             \/ n = <<k, "finally">> /\ p[k].final /\ p[k].part # "finally"
             \/ n = <<k, "except">> /\ p[k].handlers /\ p[k].part = "body"
  BY DEF J!Needs, J!Finallies

LEMMA NeedsFewer ==
  ASSUME NEW p \in Place, NEW q \in Place, Leaves(q, p),
         Len(q) > 0 => \/ q[Len(q)].part = "finally"
                       \/ q[Len(q)].part = p[Len(q)].part
                       \/ q[Len(q)].part = "else" /\ p[Len(q)].part # "finally"
  PROVE  /\ J!Needs(q) \subseteq J!Needs(p)
         /\ \A n \in J!Needs(q) : J!Block(q, n) = J!Block(p, n)
  <1> SUFFICES ASSUME NEW n \in J!Needs(q)
               PROVE  n \in J!Needs(p) /\ J!Block(q, n) = J!Block(p, n)
    OBVIOUS
  <1>1. PICK k \in DOMAIN q :
             \/ n = <<k, "finally">> /\ q[k].final /\ q[k].part # "finally"
             \/ n = <<k, "except">> /\ q[k].handlers /\ q[k].part = "body"
    BY NeedsAre
  <1>2. J!Block(q, n) = J!Block(p, n)
    BY <1>1, SameBlock
  <1>3. k \in DOMAIN p /\ k \in 1..Len(q) /\ Len(q) \in Nat
    BY DEF Leaves, Place
  <1>4. CASE k < Len(q)
    <2>1. q[k] = p[k]
      BY <1>4 DEF Leaves
    <2> QED
      BY <1>1, <1>2, <1>3, <2>1, NeedsAre
  <1>5. CASE k = Len(q)
    <2>1. q[k].handlers = p[k].handlers /\ q[k].final = p[k].final
      BY <1>3, <1>5 DEF Leaves
    <2> QED
      BY <1>1, <1>2, <1>3, <1>5, <2>1, NeedsAre
  <1> QED
    BY <1>3, <1>4, <1>5
-----------------------------------------------------------------------------
(* Keeping what a place needs.                                             *)
KeptBy(p, e, at) ==
  /\ at \in [J!Needs(p) -> DOMAIN e]
  /\ \A n \in J!Needs(p) : /\ e[at[n]] = J!Block(p, n)
                         /\ \A m \in J!Needs(p) : J!Before(m, n) => at[m] < at[n]

LEMMA KeptIs ==
  ASSUME NEW p, NEW e
  PROVE  J!Kept(p, e) <=> \E at : KeptBy(p, e, at)
  BY DEF J!Kept, KeptBy

(* A place that needs less needs nothing else; other blocks do no harm.    *)
LEMMA KeptFewer ==
  ASSUME NEW p, NEW q, NEW e, NEW d, J!Kept(p, e),
         J!Needs(q) \subseteq J!Needs(p), \A n \in J!Needs(q) : J!Block(q, n) = J!Block(p, n),
         DOMAIN e \subseteq DOMAIN d, \A i \in DOMAIN e : d[i] = e[i]
  PROVE  J!Kept(q, d)
  <1>1. PICK at : KeptBy(p, e, at)
    BY KeptIs
  <1> DEFINE by == [n \in J!Needs(q) |-> at[n]]
  <1>2. KeptBy(q, d, by)
    BY <1>1 DEF KeptBy
  <1> QED
    BY <1>2, KeptIs

(* The block needed last can be popped, with all above it. *)
LEMMA KeptPopped ==
  ASSUME NEW p, NEW q, NEW e \in Seq(Place), J!Kept(p, e), NEW last \in J!Needs(p),
         J!Needs(q) \subseteq J!Needs(p) \ {last}, \A n \in J!Needs(q) : J!Block(q, n) = J!Block(p, n),
         \A n \in J!Needs(q) : J!Before(n, last)
  PROVE  e # <<>> /\ J!Kept(q, J!Front(e))
  <1>1. PICK at : KeptBy(p, e, at)
    BY KeptIs
  <1>2. at[last] \in 1..Len(e) /\ Len(e) \in Nat
    BY <1>1 DEF KeptBy
  <1>3. e # <<>>
    BY <1>2
  <1>4. /\ DOMAIN J!Front(e) = 1..(Len(e) - 1)
        /\ \A i \in 1..(Len(e) - 1) : J!Front(e)[i] = e[i]
    BY <1>2 DEF J!Front
  <1> DEFINE by == [n \in J!Needs(q) |-> at[n]]
             d == J!Front(e)
  <1> HIDE DEF d
  <1>5. ASSUME NEW n \in J!Needs(q)
        PROVE  at[n] \in 1..(Len(e) - 1)
    <2>1. n \in J!Needs(p) /\ at[n] \in 1..Len(e) /\ at[n] < at[last]
      BY <1>1 DEF KeptBy
    <2> QED
      BY <1>2, <2>1
  <1>6. KeptBy(q, d, by)
    BY <1>1, <1>4, <1>5 DEF KeptBy, d
  <1> QED
    BY <1>3, <1>6, KeptIs DEF d

(* The block needed next is pushed. *)
LEMMA KeptPushed ==
  ASSUME NEW p, NEW q, NEW e \in Seq(Place), J!Kept(p, e), NEW next \in J!Needs(q),
         J!Needs(q) \subseteq J!Needs(p) \cup {next},
         \A n \in J!Needs(q) : n # next => J!Block(q, n) = J!Block(p, n),
         \A n \in J!Needs(q) : ~J!Before(next, n),
         NEW d, d = Append(e, J!Block(q, next))
  PROVE  J!Kept(q, d)
  <1>1. PICK at : KeptBy(p, e, at)
    BY KeptIs
  <1> DEFINE by == [n \in J!Needs(q) |-> IF n = next THEN Len(e) + 1 ELSE at[n]]
  <1>2. /\ DOMAIN d = 1..(Len(e) + 1) /\ Len(e) \in Nat /\ DOMAIN e = 1..Len(e)
        /\ d[Len(e) + 1] = J!Block(q, next)
        /\ \A i \in 1..Len(e) : d[i] = e[i]
    <2> PICK b : b = J!Block(q, next)
      OBVIOUS
    <2> QED
      OBVIOUS
  <1>3. ASSUME NEW n \in J!Needs(q), n # next
        PROVE  /\ at[n] \in 1..Len(e) /\ d[at[n]] = J!Block(q, n)
               /\ \A m \in J!Needs(q) : m # next /\ J!Before(m, n) => at[m] < at[n]
    BY <1>1, <1>2, <1>3 DEF KeptBy
  <1>4. by \in [J!Needs(q) -> DOMAIN d]
    BY <1>2, <1>3
  <1>5. ASSUME NEW n \in J!Needs(q)
        PROVE  /\ d[by[n]] = J!Block(q, n)
               /\ \A m \in J!Needs(q) : J!Before(m, n) => by[m] < by[n]
    BY <1>2, <1>3
  <1>6. KeptBy(q, d, by)
    BY <1>4, <1>5 DEF KeptBy
  <1> QED
    BY <1>6, KeptIs

(* $exc: each block on it is a place whose own blocks are below it.        *)
Stacked(e) ==
  /\ e \in Seq(Place)
  /\ \A i \in DOMAIN e : e[i] # <<>> /\ J!Kept(e[i], SubSeq(e, 1, i - 1))

LEMMA StackedEmpty ==
  Stacked(<<>>) /\ J!Kept(<<>>, <<>>)
  <1>1. J!Needs(<<>>) = {}
    BY NeedsAre
  <1> DEFINE at == [n \in J!Needs(<<>>) |-> 0]
  <1>2. KeptBy(<<>>, <<>>, at)
    BY <1>1 DEF KeptBy
  <1> QED
    BY <1>2, KeptIs DEF Stacked

LEMMA StackedPushed ==
  ASSUME NEW e, Stacked(e), NEW b \in Place, b # <<>>, J!Kept(b, e)
  PROVE  Stacked(Append(e, b))
  <1> DEFINE d == Append(e, b)
  <1>1. e \in Seq(Place) /\ Len(e) \in Nat
    BY DEF Stacked
  <1>2. d \in Seq(Place) /\ DOMAIN d = 1..(Len(e) + 1)
    BY <1>1
  <1>3. ASSUME NEW i \in DOMAIN d
        PROVE  d[i] # <<>> /\ J!Kept(d[i], SubSeq(d, 1, i - 1))
    <2>1. CASE i = Len(e) + 1
      <3>1. SubSeq(d, 1, i - 1) = e /\ d[i] = b
        BY <1>1, <2>1
      <3> QED
        BY <3>1
    <2>2. CASE i # Len(e) + 1
      <3>1. i \in 1..Len(e)
        BY <1>1, <1>2, <2>2
      <3>2. SubSeq(d, 1, i - 1) = SubSeq(e, 1, i - 1) /\ d[i] = e[i]
        BY <1>1, <3>1
      <3>3. i \in DOMAIN e
        BY <1>1, <3>1
      <3>4. e[i] # <<>> /\ J!Kept(e[i], SubSeq(e, 1, i - 1))
        BY <3>3 DEF Stacked
      <3> QED
        BY <3>2, <3>4
    <2> QED
      BY <2>1, <2>2
  <1> QED
    BY <1>2, <1>3 DEF Stacked

LEMMA StackedPopped ==
  ASSUME NEW e, Stacked(e), e # <<>>
  PROVE  /\ Stacked(J!Front(e))
         /\ J!Last(e) \in Place /\ J!Last(e) # <<>>
         /\ J!Kept(J!Last(e), J!Front(e))
  <1> DEFINE d == J!Front(e)
             n == Len(e)
  <1>1. e \in Seq(Place) /\ n \in Nat \ {0}
    BY DEF Stacked
  <1>2. d = SubSeq(e, 1, n - 1) /\ J!Last(e) = e[n]
    BY <1>1 DEF J!Front, J!Last
  <1>3. d \in Seq(Place) /\ DOMAIN d = 1..(n - 1)
    BY <1>1, <1>2
  <1>4. ASSUME NEW i \in DOMAIN d
        PROVE  d[i] # <<>> /\ J!Kept(d[i], SubSeq(d, 1, i - 1))
    <2>1. i \in 1..n /\ d[i] = e[i]
      BY <1>1, <1>2, <1>3
    <2>2. SubSeq(d, 1, i - 1) = SubSeq(e, 1, i - 1)
      BY <1>1, <1>2, <1>3
    <2>3. i \in DOMAIN e
      BY <1>1, <2>1
    <2>4. e[i] # <<>> /\ J!Kept(e[i], SubSeq(e, 1, i - 1))
      BY <2>3 DEF Stacked
    <2> QED
      BY <2>1, <2>2, <2>4
  <1>5. Stacked(d)
    BY <1>3, <1>4 DEF Stacked
  <1>6. e[n] \in Place /\ e[n] # <<>> /\ J!Kept(e[n], SubSeq(e, 1, n - 1))
    BY <1>1 DEF Stacked
  <1> QED
    BY <1>2, <1>5, <1>6

-----------------------------------------------------------------------------
(* The steps, for any call with a place, blocks and a postponed jump.      *)
Coherent(p, e) == p \in Place /\ Stacked(e) /\ J!Kept(p, e)

LEMMA CoherentFewer ==
  ASSUME NEW p, NEW e, Coherent(p, e), NEW q \in Place, Leaves(q, p),
         Len(q) > 0 => \/ q[Len(q)].part = "finally"
                       \/ q[Len(q)].part = p[Len(q)].part
                       \/ q[Len(q)].part = "else" /\ p[Len(q)].part # "finally"
  PROVE  Coherent(q, e)
  <1>1. p \in Place /\ J!Kept(p, e)
    BY DEF Coherent
  <1>2. /\ J!Needs(q) \subseteq J!Needs(p)
        /\ \A n \in J!Needs(q) : J!Block(q, n) = J!Block(p, n)
    BY <1>1, NeedsFewer
  <1>3. J!Kept(q, e)
    BY <1>1, <1>2, KeptFewer
  <1> QED
    BY <1>3 DEF Coherent

(* Out of statements, or to the finally part of one. *)
LEMMA CoherentPrefix ==
  ASSUME NEW p, NEW e, Coherent(p, e), NEW k \in 0..Len(p)
  PROVE  Coherent(SubSeq(p, 1, k), e)
  <1> DEFINE q == SubSeq(p, 1, k)
  <1>1. p \in Place
    BY DEF Coherent
  <1>2. q \in Place /\ Len(q) = k /\ \A j \in 1..k : q[j] = p[j]
    BY <1>1, PrefixIsPlace
  <1>3. Leaves(q, p)
    BY <1>1, PrefixLeaves
  <1> HIDE DEF q
  <1>4. Len(q) > 0 => q[Len(q)].part = p[Len(q)].part
    BY <1>2
  <1>5. Coherent(q, e)
    BY <1>2, <1>3, <1>4, CoherentFewer
  <1> QED
    BY <1>5 DEF q

LEMMA CoherentFinally ==
  ASSUME NEW p, NEW e, Coherent(p, e), NEW k \in 1..Len(p),
         NEW x \in Exception \cup {J!Nothing}
  PROVE  Coherent(J!InPart(SubSeq(p, 1, k), "finally", x), e)
  <1> DEFINE q == J!InPart(SubSeq(p, 1, k), "finally", x)
  <1>1. p \in Place
    BY DEF Coherent
  <1>2. q \in Place /\ Len(q) = k /\ q[k].part = "finally" /\ Leaves(q, p)
    BY <1>1, PartLeaves
  <1> HIDE DEF q
  <1>3. Coherent(q, e)
    BY <1>2, CoherentFewer
  <1> QED
    BY <1>3 DEF q

LEMMA WholePrefix ==
  ASSUME NEW p \in Place
  PROVE  SubSeq(p, 1, Len(p)) = p
  BY DEF Place

(* An exception. *)
LEMMA CoherentThrow ==
  ASSUME NEW p, NEW e, Coherent(p, e), e # <<>>, NEW x \in Exception \cup {J!Nothing}
  PROVE  /\ Coherent(J!Last(e), J!Front(e))
         /\ Coherent(J!InPart(J!Last(e), "finally", x), J!Front(e))
  <1> DEFINE to == J!Last(e)
             d == J!Front(e)
  <1>1. to \in Place /\ to # <<>> /\ J!Kept(to, d) /\ Stacked(d)
    BY StackedPopped DEF Coherent
  <1> HIDE DEF to, d
  <1>2. Coherent(to, d)
    BY <1>1 DEF Coherent
  <1>3. Len(to) \in 1..Len(to) /\ SubSeq(to, 1, Len(to)) = to
    BY <1>1, WholePrefix DEF Place
  <1>4. Coherent(J!InPart(SubSeq(to, 1, Len(to)), "finally", x), d)
    BY <1>2, <1>3, CoherentFinally
  <1> QED
    BY <1>2, <1>3, <1>4 DEF to, d

(* A try statement, or the end of a body, pops what it has pushed. *)
LEMMA CoherentPop ==
  ASSUME NEW p, NEW e, Coherent(p, e), NEW q \in Place, Leaves(q, p), Len(q) = Len(p), Len(p) > 0,
         NEW last \in J!Needs(p), last \notin J!Needs(q), last[1] = Len(p),
         q[Len(q)].part = "finally" \/ (q[Len(q)].part = "else" /\ p[Len(p)].part # "finally")
  PROVE  e # <<>> /\ Coherent(q, J!Front(e))
  <1>1. p \in Place /\ Stacked(e) /\ e \in Seq(Place) /\ J!Kept(p, e)
    BY DEF Coherent, Stacked
  <1>2. /\ J!Needs(q) \subseteq J!Needs(p)
        /\ \A n \in J!Needs(q) : J!Block(q, n) = J!Block(p, n)
    BY <1>1, NeedsFewer
  <1>3. ASSUME NEW n \in J!Needs(q)
        PROVE  J!Before(n, last)
    <2>1. PICK k \in DOMAIN q :
             \/ n = <<k, "finally">> /\ q[k].final /\ q[k].part # "finally"
             \/ n = <<k, "except">> /\ q[k].handlers /\ q[k].part = "body"
      BY NeedsAre
    <2>2. k \in 1..Len(p) /\ Len(p) \in Nat /\ n[1] = k
      BY <1>1, <2>1 DEF Place
    <2>3. CASE k < Len(p)
      BY <2>2, <2>3 DEF J!Before
    <2>4. CASE k = Len(p)
      <3>1. n = <<k, "finally">> /\ q[k].part = "else"
        BY <2>1, <2>4
      <3>2. PICK j \in DOMAIN p :
             \/ last = <<j, "finally">> /\ p[j].final /\ p[j].part # "finally"
             \/ last = <<j, "except">> /\ p[j].handlers /\ p[j].part = "body"
        BY NeedsAre
      <3>3. last # n
        OBVIOUS
      <3>4. last[2] = "except"
        BY <2>4, <3>1, <3>2, <3>3
      <3> QED
        BY <2>2, <2>4, <3>1, <3>4 DEF J!Before
    <2> QED
      BY <2>2, <2>3, <2>4
  <1>4. e # <<>> /\ J!Kept(q, J!Front(e))
    BY <1>1, <1>2, <1>3, KeptPopped
  <1>5. Stacked(J!Front(e))
    BY <1>1, <1>4, StackedPopped
  <1> QED
    BY <1>4, <1>5 DEF Coherent

(* A statement that begins. *)
LEMMA Deeper ==
  ASSUME NEW p \in Place, NEW s \in StatementRecord
  PROVE  /\ Append(p, s) \in Place /\ Append(p, s) # <<>>
         /\ Len(Append(p, s)) = Len(p) + 1
         /\ Append(p, s)[Len(p) + 1] = s
         /\ DOMAIN Append(p, s) = 1..(Len(p) + 1)
         /\ \A j \in 1..Len(p) : Append(p, s)[j] = p[j]
         /\ Len(p) \in Nat /\ DOMAIN p = 1..Len(p)
         /\ SubSeq(Append(p, s), 1, Len(p)) = p
  <1> DEFINE k == Len(p) + 1
             q == Append(p, s)
  <1>1. p \in Seq(StatementRecord) /\ Len(p) \in Nat /\ DOMAIN p = 1..Len(p)
    BY DEF Place
  <1>2. q \in Seq(StatementRecord) /\ Len(q) = k /\ DOMAIN q = 1..k
    BY <1>1
  <1>3. q[k] = s /\ \A j \in 1..Len(p) : q[j] = p[j]
    BY <1>1
  <1>4. SubSeq(q, 1, Len(p)) = p
    BY <1>1, <1>2, <1>3
  <1> QED
    BY <1>1, <1>2, <1>3, <1>4 DEF Place

LEMMA BothPushed ==
  ASSUME NEW S, NEW e \in Seq(S), NEW f \in S, NEW x \in S
  PROVE  e \o (<<f>> \o <<x>>) = Append(Append(e, f), x)
  <1>1. <<f>> \in Seq(S) /\ <<x>> \in Seq(S)
    OBVIOUS
  <1>2. Append(e, f) = e \o <<f>> /\ Append(e, f) \in Seq(S)
    BY AppendIsConcat, AppendProperties
  <1>3. Append(Append(e, f), x) = Append(e, f) \o <<x>>
    BY <1>2, AppendIsConcat
  <1>4. (e \o <<f>>) \o <<x>> = e \o (<<f>> \o <<x>>)
    BY <1>1, ConcatAssociative
  <1> QED
    BY <1>2, <1>3, <1>4

LEMMA CoherentDeeper ==
  ASSUME NEW p, NEW e, Coherent(p, e), NEW s \in StatementRecord, s.part = "body",
         NEW k \in Nat \ {0}, k = Len(p) + 1, NEW q \in Place,
         Len(q) = k, q[k] = s, q # <<>>, DOMAIN q = 1..k,
         \A j \in 1..Len(p) : q[j] = p[j],
         Len(p) \in Nat, DOMAIN p = 1..Len(p), SubSeq(q, 1, Len(p)) = p
  PROVE  Coherent(q, e \o J!Setup(q))
  <1>1. p \in Place /\ Stacked(e) /\ e \in Seq(Place) /\ J!Kept(p, e)
    BY DEF Coherent, Stacked
  <1>2. /\ q \in Place /\ Len(q) = k /\ k \in Nat \ {0} /\ q[k] = s /\ q # <<>>
        /\ DOMAIN q = 1..k /\ k \in 1..Len(q)
        /\ \A j \in 1..Len(p) : q[j] = p[j]
        /\ Len(p) \in Nat /\ DOMAIN p = 1..Len(p) /\ Len(p) \in 0..Len(q)
        /\ SubSeq(q, 1, Len(p)) = p
    OBVIOUS
  <1>21. k = Len(p) + 1
    OBVIOUS
  <1> DEFINE f == J!InPart(q, "finally", J!Nothing)
             x == J!InPart(q, "except", J!Nothing)
             d == IF s.final THEN Append(e, f) ELSE e
  <1>3. SubSeq(q, 1, k) = q
    BY <1>2, WholePrefix
  <1>4. Leaves(p, q)
    BY <1>2, PrefixLeaves
  <1>5. /\ Leaves(f, q) /\ f \in Place /\ Len(f) = k /\ f[k].part = "finally"
        /\ Leaves(x, q) /\ x \in Place /\ Len(x) = k /\ x[k].part = "except"
    <2>1. f = J!InPart(SubSeq(q, 1, k), "finally", J!Nothing) /\ x = J!InPart(SubSeq(q, 1, k), "except", J!Nothing)
      BY <1>3
    <2> HIDE DEF f, x
    <2>2. /\ Leaves(f, q) /\ f \in Place /\ Len(f) = k /\ f[k].part = "finally"
      BY <1>2, <2>1, PartLeaves
    <2>3. /\ Leaves(x, q) /\ x \in Place /\ Len(x) = k /\ x[k].part = "except"
      BY <1>2, <2>1, PartLeaves
    <2> QED
      BY <2>2, <2>3
  <1>6. /\ \A j \in 1..Len(p) : f[j] = p[j]
        /\ \A j \in 1..Len(p) : x[j] = p[j]
        /\ x[k].final = s.final
    <2> HIDE DEF f, x
    <2>1. DOMAIN f = 1..k /\ DOMAIN x = 1..k
      BY <1>2, <1>5 DEF Place
    <2>2. \A j \in 1..Len(p) : j \in 1..k /\ j < k
      BY <1>21, <1>2
    <2> QED
      BY <1>2, <1>5, <2>1, <2>2 DEF Leaves
  <1>7. Leaves(p, f) /\ Leaves(p, x)
    BY <1>21, <1>2, <1>5, <1>6 DEF Leaves
  <1>8. f # <<>> /\ x # <<>> /\ DOMAIN f = 1..k /\ DOMAIN x = 1..k
    BY <1>2, <1>5 DEF Place
  <1>9. f = J!Block(q, <<k, "finally">>) /\ x = J!Block(q, <<k, "except">>)
    BY <1>3 DEF J!Block
  <1> HIDE DEF f, x
  \* What is needed in each of them, other than what is needed around.
  <1>10. ASSUME NEW n, n \in J!Needs(f) \/ n \in J!Needs(x) \/ n \in J!Needs(q),
                n # <<k, "finally">>, n # <<k, "except">>
         PROVE  n \in J!Needs(p) /\ n[1] \in 1..Len(p) /\ n[2] \in {"except", "finally"} /\ n = <<n[1], n[2]>>
    <2>1. PICK j \in 1..k, part \in {"except", "finally"} :
            /\ n = <<j, part>>
            /\ \/ f[j].final /\ part = "finally" /\ f[j].part # "finally"
               \/ f[j].handlers /\ part = "except" /\ f[j].part = "body"
               \/ x[j].final /\ part = "finally" /\ x[j].part # "finally"
               \/ x[j].handlers /\ part = "except" /\ x[j].part = "body"
               \/ q[j].final /\ part = "finally" /\ q[j].part # "finally"
               \/ q[j].handlers /\ part = "except" /\ q[j].part = "body"
      BY <1>2, <1>8, <1>10, NeedsAre
    <2>2. j \in 1..Len(p)
      BY <1>21, <1>2, <1>10, <2>1
    <2>3. f[j] = p[j] /\ x[j] = p[j] /\ q[j] = p[j]
      BY <1>2, <1>6, <2>2
    <2> QED
      BY <1>2, <2>1, <2>2, <2>3, NeedsAre
  <1>11. ASSUME NEW n \in J!Needs(p)
         PROVE  /\ n[1] \in 1..Len(p)
                /\ J!Block(p, n) = J!Block(q, n) /\ J!Block(p, n) = J!Block(f, n) /\ J!Block(p, n) = J!Block(x, n)
    <2>1. PICK j \in DOMAIN p, part \in {"except", "finally"} : n = <<j, part>>
      BY NeedsAre
    <2> QED
      BY <1>1, <1>2, <1>4, <1>5, <1>7, <2>1, SameBlock
  \* The finally block.
  <1>12. J!Needs(f) \subseteq J!Needs(p)
    <2>1. <<k, "finally">> \notin J!Needs(f) /\ <<k, "except">> \notin J!Needs(f)
      BY <1>5, NeedsAre
    <2> QED
      BY <1>10, <2>1
  <1>13. J!Kept(f, e)
    BY <1>1, <1>11, <1>12, KeptFewer
  <1>14. Stacked(d)
    BY <1>1, <1>5, <1>8, <1>13, StackedPushed
  <1>15. d \in Seq(Place)
    BY <1>14 DEF Stacked
  \* Another part, with the finally block pushed.
  <1>16. ASSUME NEW r \in Place, r = x \/ r = q,
                J!Needs(r) \subseteq J!Needs(p) \cup {<<k, "finally">>}
         PROVE  J!Kept(r, d)
    <2>1. ASSUME NEW n \in J!Needs(p)
          PROVE  J!Block(r, n) = J!Block(p, n) /\ n[1] < k /\ ~J!Before(<<k, "finally">>, n)
      <3>1. J!Block(r, n) = J!Block(p, n)
        BY <1>11, <1>16
      <3>2. n[1] < k /\ n[1] \in Nat /\ k \in Nat
        BY <1>21, <1>2, <1>11
      <3> QED
        BY <3>1, <3>2 DEF J!Before
    <2>2. r[k].final = s.final /\ Len(r) = k /\ DOMAIN r = 1..k
      BY <1>2, <1>5, <1>6, <1>8, <1>16
    <2>3. CASE <<k, "finally">> \in J!Needs(r)
      <3>1. s.final
        BY <2>2, <2>3, NeedsAre
      <3>2. f = J!Block(r, <<k, "finally">>)
        BY <1>2, <1>5, <1>9, <1>16, SameBlock
      <3>3. d = Append(e, J!Block(r, <<k, "finally">>))
        BY <3>1, <3>2
      <3>4. ~J!Before(<<k, "finally">>, <<k, "finally">>)
        BY <1>2 DEF J!Before
      <3> QED
        BY <1>1, <1>16, <2>1, <2>3, <3>3, <3>4, KeptPushed
    <2>4. CASE <<k, "finally">> \notin J!Needs(r)
      <3>1. DOMAIN e \subseteq DOMAIN d /\ \A i \in DOMAIN e : d[i] = e[i]
        BY <1>1, <1>5
      <3>2. J!Needs(r) \subseteq J!Needs(p)
        BY <1>16, <2>4
      <3> HIDE DEF d
      <3> QED
        BY <1>1, <2>1, <3>1, <3>2, KeptFewer
    <2> QED
      BY <2>3, <2>4
  <1>17. J!Kept(x, d)
    <2>1. <<k, "except">> \notin J!Needs(x)
      BY <1>5, NeedsAre
    <2>2. J!Needs(x) \subseteq J!Needs(p) \cup {<<k, "finally">>}
      BY <1>10, <2>1
    <2> QED
      BY <1>5, <1>16, <2>2
  \* Both.
  <1> DEFINE b == IF s.handlers THEN Append(d, x) ELSE d
  <1>18. e \o J!Setup(q) = b
    <2>1. J!Setup(q) = (IF s.final THEN <<f>> ELSE <<>>) \o (IF s.handlers THEN <<x>> ELSE <<>>)
      BY <1>2 DEF J!Setup, f, x
    <2>2. f \in Place /\ x \in Place /\ e \in Seq(Place)
      BY <1>1, <1>5
    <2> HIDE DEF f, x
    <2>3. CASE s.final /\ s.handlers
      <3>1. J!Setup(q) = <<f>> \o <<x>> /\ b = Append(Append(e, f), x)
        BY <2>1, <2>3
      <3>2. e \o (<<f>> \o <<x>>) = Append(Append(e, f), x)
        BY <2>2, BothPushed
      <3> QED
        BY <3>1, <3>2, Zenon
    <2>4. CASE s.final /\ ~s.handlers
      BY <2>1, <2>2, <2>4
    <2>5. CASE ~s.final /\ s.handlers
      BY <2>1, <2>2, <2>5
    <2>6. CASE ~s.final /\ ~s.handlers
      BY <2>1, <2>2, <2>6
    <2> QED
      BY <2>3, <2>4, <2>5, <2>6
  <1> HIDE DEF d
  <1>19. Stacked(b)
    BY <1>5, <1>8, <1>14, <1>17, StackedPushed
  <1>20. J!Kept(q, b)
    <2>1. CASE s.handlers
      <3>1. <<k, "except">> \in J!Needs(q)
        BY <1>2, <2>1, NeedsAre
      <3>2. J!Needs(q) \subseteq J!Needs(x) \cup {<<k, "except">>}
        <4> SUFFICES ASSUME NEW n \in J!Needs(q), n # <<k, "except">>
                     PROVE  n \in J!Needs(x)
          OBVIOUS
        <4>1. CASE n = <<k, "finally">>
          BY <1>2, <1>5, <1>6, <1>8, <4>1, NeedsAre
        <4>2. CASE n # <<k, "finally">>
          <5>1. n \in J!Needs(p)
            BY <1>10, <4>2
          <5>2. PICK j \in DOMAIN p :
                  \/ n = <<j, "finally">> /\ p[j].final /\ p[j].part # "finally"
                  \/ n = <<j, "except">> /\ p[j].handlers /\ p[j].part = "body"
            BY <5>1, NeedsAre
          <5>3. j \in DOMAIN x /\ x[j] = p[j]
            BY <1>21, <1>2, <1>6, <1>8, <5>2
          <5> QED
            BY <5>2, <5>3, NeedsAre
        <4> QED
          BY <4>1, <4>2
      <3>3. ASSUME NEW n \in J!Needs(q), n # <<k, "except">>
            PROVE  J!Block(q, n) = J!Block(x, n) /\ ~J!Before(<<k, "except">>, n)
        <4>1. CASE n = <<k, "finally">>
          <5>1. J!Block(x, <<k, "finally">>) = J!Block(q, <<k, "finally">>)
            <6>1. k \in DOMAIN x
              BY <1>2, <1>8
            <6> QED
              BY <1>2, <1>5, <6>1, SameBlock
          <5> QED
            BY <1>2, <4>1, <5>1 DEF J!Before
        <4>2. CASE n # <<k, "finally">>
          <5>1. n \in J!Needs(p)
            BY <1>10, <3>3, <4>2
          <5> QED
            BY <1>21, <1>2, <1>11, <5>1 DEF J!Before
        <4> QED
          BY <4>1, <4>2
      <3>4. ~J!Before(<<k, "except">>, <<k, "except">>)
        BY <1>2 DEF J!Before
      <3>5. b = Append(d, J!Block(q, <<k, "except">>))
        BY <1>9, <2>1
      <3> HIDE DEF b
      <3> QED
        BY <1>15, <1>17, <3>1, <3>2, <3>3, <3>4, <3>5, KeptPushed
    <2>2. CASE ~s.handlers
      <3>1. <<k, "except">> \notin J!Needs(q)
        BY <1>2, <2>2, NeedsAre
      <3>2. J!Needs(q) \subseteq J!Needs(p) \cup {<<k, "finally">>}
        BY <1>10, <3>1
      <3> QED
        BY <1>2, <1>16, <2>2, <3>2
    <2> QED
      BY <2>1, <2>2
  <1> HIDE DEF b
  <1> QED
    BY <1>2, <1>18, <1>19, <1>20 DEF Coherent

LEMMA CoherentEnter ==
  ASSUME NEW p, NEW e, Coherent(p, e), NEW s \in StatementRecord, s.part = "body"
  PROVE  Coherent(Append(p, s), e \o J!Setup(Append(p, s)))
  <1>1. p \in Place
    BY DEF Coherent
  <1> DEFINE k == Len(p) + 1
             q == Append(p, s)
  <1>2. /\ q \in Place /\ Len(q) = k /\ q[k] = s /\ q # <<>> /\ DOMAIN q = 1..k
        /\ \A j \in 1..Len(p) : q[j] = p[j]
        /\ Len(p) \in Nat /\ DOMAIN p = 1..Len(p) /\ SubSeq(q, 1, Len(p)) = p
    BY <1>1, Deeper
  <1>3. k \in Nat \ {0} /\ k = Len(p) + 1
    BY <1>2
  <1> HIDE DEF k, q
  <1>4. Coherent(q, e \o J!Setup(q))
    BY <1>2, <1>3, CoherentDeeper
  <1> QED
    BY <1>4 DEF q

-----------------------------------------------------------------------------
(* A jump that has been put off until the end of a finally block: it is    *)
(* out of a loop around that block, or to its next iteration, and no       *)
(* finally block on the way will raise an exception again.                 *)
Postponed(p, jump) ==
  jump.does = "jump" =>
    \E loop \in J!Loops(p) :
      /\ jump.place = SubSeq(p, 1, loop - 1) \/ jump.place = SubSeq(p, 1, loop)
      /\ \E k \in DOMAIN p : k > loop /\ p[k].final
      /\ \A k \in DOMAIN p : k > loop => p[k].pending = J!Nothing

MaybeException == Exception \cup {J!Nothing}

Going(p, e, x, jump) == Coherent(p, e) /\ Postponed(p, jump) /\ x \in MaybeException

HandlersInv ==
  /\ status = "running" => Going(where, exc, err, post)
  /\ status = "suspended" => Going(saved.where, saved.exc, saved.err, saved.post)

(* The last of a set of places. *)
LEMMA HasGreatest ==
  ASSUME NEW n \in Nat, NEW S \in SUBSET (1..n), S # {}
  PROVE  \E m \in S : \A j \in S : j <= m
  <1> DEFINE T == {n - k : k \in S}
  <1>0. \A k \in S : k \in 1..n /\ n - k \in Nat
    OBVIOUS
  <1>1. T \subseteq Nat /\ T # {}
    BY <1>0
  <1>2. PICK t \in T : \A u \in T : ~(<<u, t>> \in OpToRel(<, Nat))
    BY <1>1, NatLessThanWellFounded, WFMin
  <1>3. PICK k \in S : t = n - k
    OBVIOUS
  <1>4. ASSUME NEW j \in S PROVE j <= k
    <2>1. n - j \in T /\ n - j \in Nat /\ t \in Nat
      BY <1>0, <1>1
    <2>2. ~(n - j < t)
      BY <1>2, <2>1 DEF OpToRel
    <2>3. k \in Int /\ j \in Int
      BY <1>0
    <2> QED
      BY <1>3, <2>1, <2>2, <2>3
  <1> QED
    BY <1>4

LEMMA InnermostIsLast ==
  ASSUME NEW n \in Nat, NEW S \in SUBSET (1..n), S # {}
  PROVE  J!Innermost(S) \in S /\ \A j \in S : j <= J!Innermost(S)
  <1>1. \E m \in S : \A j \in S : j <= m
    BY HasGreatest
  <1> QED
    BY <1>1 DEF J!Innermost

(* A place in which control stays in the loop of the jump. *)
LEMMA PostponedStays ==
  ASSUME NEW p \in Place, NEW q \in Place, Leaves(q, p), Len(q) > 0, NEW jump, Postponed(p, jump),
         q[Len(q)].pending = J!Nothing \/ q[Len(q)].pending = p[Len(q)].pending,
         \A loop \in J!Loops(p) :
           (\E k \in DOMAIN p : k > loop /\ p[k].final)
             => \E k \in DOMAIN q : k > loop /\ q[k].final
  PROVE  Postponed(q, jump)
  <1> SUFFICES ASSUME jump.does = "jump"
               PROVE  Postponed(q, jump)
    BY DEF Postponed
  <1>1. PICK loop \in J!Loops(p) :
          /\ jump.place = SubSeq(p, 1, loop - 1) \/ jump.place = SubSeq(p, 1, loop)
          /\ \E k \in DOMAIN p : k > loop /\ p[k].final
          /\ \A k \in DOMAIN p : k > loop => p[k].pending = J!Nothing
    BY DEF Postponed
  <1>2. PICK k \in DOMAIN q : k > loop /\ q[k].final
    BY <1>1
  <1>3. /\ Len(q) \in Nat /\ DOMAIN q = 1..Len(q) /\ Len(p) \in Nat /\ DOMAIN p = 1..Len(p)
        /\ Len(q) <= Len(p) /\ loop \in 1..Len(p) /\ loop < Len(q) /\ loop \in DOMAIN q
    BY <1>2 DEF Place, Leaves, J!Loops
  <1>4. \A j \in 1..loop : q[j] = p[j]
    BY <1>3 DEF Leaves
  <1>5. loop \in J!Loops(q)
    BY <1>3, <1>4 DEF J!Loops
  <1>6. ASSUME NEW m \in 0..loop
        PROVE  SubSeq(q, 1, m) = SubSeq(p, 1, m)
    <2>1. /\ SubSeq(q, 1, m) \in Place /\ Len(SubSeq(q, 1, m)) = m
          /\ SubSeq(p, 1, m) \in Place /\ Len(SubSeq(p, 1, m)) = m
          /\ \A j \in 1..m : SubSeq(q, 1, m)[j] = q[j] /\ SubSeq(p, 1, m)[j] = p[j]
      BY <1>3, PrefixIsPlace
    <2>2. \A j \in 1..m : SubSeq(q, 1, m)[j] = SubSeq(p, 1, m)[j]
      BY <1>3, <1>4, <2>1
    <2> QED
      BY <1>3, <2>1, <2>2, SeqEqual DEF Place
  <1>7. loop - 1 \in 0..loop /\ loop \in 0..loop
    BY <1>3
  <1>8. jump.place = SubSeq(q, 1, loop - 1) \/ jump.place = SubSeq(q, 1, loop)
    BY <1>1, <1>6, <1>7
  <1>9. ASSUME NEW j \in DOMAIN q, j > loop
        PROVE  q[j].pending = J!Nothing
    <2>1. CASE j < Len(q)
      BY <1>1, <1>3, <1>9, <2>1 DEF Leaves
    <2>2. CASE j = Len(q)
      BY <1>1, <1>3, <1>9, <2>2
    <2> QED
      BY <1>3, <2>1, <2>2
  <1> QED
    BY <1>2, <1>5, <1>8, <1>9 DEF Postponed

(* No jump is put off where none is. *)
LEMMA NothingPostponed ==
  ASSUME NEW p, NEW jump, jump.does # "jump"
  PROVE  Postponed(p, jump)
  BY DEF Postponed

LEMMA JumpsAre ==
  /\ J!NoJump.does # "jump" /\ J!Returning.does # "jump"
  /\ \A place : J!Jump(place).does = "jump" /\ J!Jump(place).place = place
  BY DEF J!NoJump, J!Returning, J!Jump

-----------------------------------------------------------------------------
(* Each step keeps the invariant.                                          *)
LEMMA InitHandlers ==
  J!Init => HandlersInv
  <1> SUFFICES ASSUME J!Init PROVE HandlersInv
    OBVIOUS
  <1>1. Coherent(where, exc)
    BY StackedEmpty DEF J!Init, Coherent, Place
  <1> QED
    BY <1>1, NothingPostponed, JumpsAre DEF J!Init, HandlersInv, Going, MaybeException

LEMMA ThrowHandlers ==
  ASSUME J!Running, Going(where, exc, err, post), NEW x \in MaybeException, J!Throw(x),
         post.does # "jump"
  PROVE  HandlersInv'
  <1>1. CASE exc = <<>>
    BY <1>1 DEF J!Throw, J!End, HandlersInv
  <1>2. CASE exc # <<>>
    <2>1. /\ Coherent(J!Last(exc), J!Front(exc))
          /\ Coherent(J!InPart(J!Last(exc), "finally", x), J!Front(exc))
      BY <1>2, CoherentThrow DEF Going, MaybeException
    <2>2. /\ err' = x /\ exc' = J!Front(exc) /\ post' = post /\ status' = "running"
          /\ where' = J!Last(exc) \/ where' = J!InPart(J!Last(exc), "finally", x)
      BY <1>2 DEF J!Throw, J!Running
    <2>3. Coherent(where', exc')
      BY <2>1, <2>2
    <2>4. Postponed(where', post')
      BY <2>2, NothingPostponed
    <2> QED
      BY <2>2, <2>3, <2>4 DEF HandlersInv, Going
  <1> QED
    BY <1>1, <1>2

LEMMA StatementsBegin ==
  \A s \in {J!Loop, J!With} \cup J!Try : s \in StatementRecord /\ s.part = "body"
  <1>1. \A h, f \in BOOLEAN : J!Statement("try", h, f) \in StatementRecord
                              /\ J!Statement("try", h, f).part = "body"
    BY DEF J!Statement, StatementRecord
  <1>2. J!Loop \in StatementRecord /\ J!Loop.part = "body"
    BY DEF J!Loop, J!Statement, StatementRecord
  <1>3. J!With \in StatementRecord /\ J!With.part = "body"
    BY DEF J!With, J!Statement, StatementRecord
  <1>4. ASSUME NEW s \in J!Try PROVE s \in StatementRecord /\ s.part = "body"
    <2>1. PICK h \in BOOLEAN, f \in BOOLEAN : s = J!Statement("try", h, f)
      BY <1>4 DEF J!Try
    <2> QED
      BY <1>1, <2>1
  <1> QED
    BY <1>2, <1>3, <1>4

LEMMA EnterHandlers ==
  ASSUME ~JumpsAreFollowed, Going(where, exc, err, post), NEW s \in {J!Loop, J!With} \cup J!Try, J!Enter(s)
  PROVE  HandlersInv'
  <1>1. s \in StatementRecord /\ s.part = "body"
    BY StatementsBegin
  <1>2. /\ where' = Append(where, s) /\ exc' = exc \o J!Setup(Append(where, s))
        /\ err' = err /\ post' = post /\ post = J!NoJump /\ status' = "running"
    BY DEF J!Enter, J!MayGoOn, J!InProgram, J!Running
  <1>3. Coherent(where', exc')
    BY <1>1, <1>2, CoherentEnter DEF Going
  <1>4. Postponed(where', post')
    BY <1>2, NothingPostponed, JumpsAre
  <1> QED
    BY <1>2, <1>3, <1>4 DEF HandlersInv, Going

LEMMA HereIs ==
  ASSUME where \in Place, J!Depth > 0
  PROVE  /\ J!Depth \in Nat \ {0} /\ DOMAIN where = 1..J!Depth /\ J!Depth \in 1..Len(where)
         /\ J!Here = where[Len(where)] /\ J!Here \in StatementRecord
         /\ J!Outside(J!Depth) = SubSeq(where, 1, J!Depth - 1) /\ J!Depth - 1 \in 0..Len(where)
         /\ where # <<>>
  BY DEF J!Depth, J!Here, J!Outside, Place

LEMMA JumpWithin ==
  ASSUME where \in Place, Postponed(where, post), post.does = "jump"
  PROVE  /\ J!Depth > 0 /\ J!Here.pending = J!Nothing
         /\ \E loop \in J!Loops(where) :
              /\ post.place = J!Outside(loop) \/ post.place = SubSeq(where, 1, loop)
              /\ loop < J!Depth
  <1>1. PICK loop \in J!Loops(where) :
          /\ post.place = SubSeq(where, 1, loop - 1) \/ post.place = SubSeq(where, 1, loop)
          /\ \E k \in DOMAIN where : k > loop /\ where[k].final
          /\ \A k \in DOMAIN where : k > loop => where[k].pending = J!Nothing
    BY DEF Postponed
  <1>2. /\ J!Depth \in Nat /\ DOMAIN where = 1..J!Depth /\ loop \in 1..J!Depth
    BY DEF J!Depth, Place, J!Loops
  <1>3. loop < J!Depth /\ J!Depth > 0
    BY <1>1, <1>2
  <1>4. J!Here.pending = J!Nothing
    BY <1>1, <1>2, <1>3 DEF J!Here
  <1> QED
    BY <1>1, <1>3, <1>4 DEF J!Outside

(* A statement ends that has no finally block, or where no jump waits. *)
LEMMA OutsideHandlers ==
  ASSUME Going(where, exc, err, post), J!Depth > 0, where' = J!Outside(J!Depth),
         UNCHANGED <<exc, err, post, saved, status>>, J!Running,
         post.does # "jump" \/ ~J!Here.final
  PROVE  HandlersInv'
  <1>1. where \in Place
    BY DEF Going, Coherent
  <1>2. /\ J!Depth \in Nat \ {0} /\ DOMAIN where = 1..J!Depth
        /\ J!Here = where[Len(where)] /\ J!Depth = Len(where)
        /\ J!Outside(J!Depth) = SubSeq(where, 1, J!Depth - 1) /\ J!Depth - 1 \in 0..Len(where)
    BY <1>1, HereIs DEF J!Depth
  <1> DEFINE q == SubSeq(where, 1, J!Depth - 1)
  <1>3. Coherent(q, exc)
    BY <1>2, CoherentPrefix DEF Going
  <1>4. Postponed(q, post)
    <2>1. CASE post.does # "jump"
      BY <2>1, NothingPostponed
    <2>2. CASE post.does = "jump"
      <3>1. PICK loop \in J!Loops(where) : loop < J!Depth /\ \E k \in DOMAIN where : k > loop /\ where[k].final
        BY <1>1, <1>2, <2>2 DEF Going, Postponed, J!Loops
      <3>2. q \in Place /\ Len(q) = J!Depth - 1 /\ \A j \in 1..(J!Depth - 1) : q[j] = where[j]
        BY <1>1, <1>2, PrefixIsPlace
      <3>3. Leaves(q, where)
        BY <1>1, <1>2, PrefixLeaves
      <3> HIDE DEF q
      <3>4. DOMAIN q = 1..(J!Depth - 1)
        BY <3>2 DEF Place
      <3>5. ASSUME NEW l \in J!Loops(where), NEW k \in DOMAIN where, k > l, where[k].final
            PROVE  k \in DOMAIN q /\ q[k].final
        <4>1. k # J!Depth
          BY <1>2, <2>2, <3>5
        <4> QED
          BY <1>2, <3>2, <3>4, <3>5, <4>1
      <3>6. Len(q) > 0
        <4>1. PICK k \in DOMAIN q : TRUE
          BY <3>1, <3>5
        <4> QED
          BY <1>2, <3>2, <3>4
      <3>7. q[Len(q)].pending = where[Len(q)].pending
        BY <1>2, <3>2, <3>6
      <3>8. \A l \in J!Loops(where) :
              (\E k \in DOMAIN where : k > l /\ where[k].final) => \E k \in DOMAIN q : k > l /\ q[k].final
        BY <3>5
      <3> QED
        BY <1>1, <3>2, <3>3, <3>6, <3>7, <3>8, PostponedStays DEF Going
    <2> QED
      BY <2>1, <2>2
  <1>5. where' = q /\ exc' = exc /\ err' = err /\ post' = post /\ status' = "running"
    BY <1>2 DEF J!Running
  <1> HIDE DEF q
  <1> QED
    BY <1>3, <1>4, <1>5 DEF HandlersInv, Going

LEMMA EndTryBodyHandlers ==
  ASSUME Going(where, exc, err, post), J!EndTryBody
  PROVE  HandlersInv'
  <1>1. where \in Place
    BY DEF Going, Coherent
  <1>2. /\ J!Depth > 0 /\ J!Here.kind = "try" /\ J!Here.part = "body"
        /\ where' = J!InPart(where, "else", J!Nothing)
        /\ exc' = IF J!Here.handlers THEN J!AfterPop ELSE exc
        /\ err' = err /\ post' = post /\ status' = "running"
    BY DEF J!EndTryBody, J!InProgram, J!Running
  <1>3. /\ J!Depth \in Nat \ {0} /\ DOMAIN where = 1..J!Depth /\ J!Depth \in 1..Len(where)
        /\ J!Here = where[J!Depth] /\ J!Depth = Len(where) /\ SubSeq(where, 1, J!Depth) = where
    BY <1>1, <1>2, HereIs, WholePrefix DEF J!Depth
  <1> DEFINE q == J!InPart(where, "else", J!Nothing)
  <1>4. /\ q \in Place /\ Len(q) = J!Depth /\ Leaves(q, where)
        /\ q[J!Depth].part = "else" /\ q[J!Depth].pending = J!Nothing
    <2>1. q = J!InPart(SubSeq(where, 1, J!Depth), "else", J!Nothing)
      BY <1>3
    <2> HIDE DEF q
    <2> QED
      BY <1>1, <1>3, <2>1, PartLeaves
  <1> HIDE DEF q
  <1>5. DOMAIN q = 1..J!Depth
    BY <1>4 DEF Place
  <1>6. Coherent(q, exc')
    <2>1. CASE J!Here.handlers
      <3>1. <<J!Depth, "except">> \in J!Needs(where)
        BY <1>2, <1>3, <2>1, NeedsAre
      <3>2. <<J!Depth, "except">> \notin J!Needs(q)
        BY <1>3, <1>4, <1>5, NeedsAre
      <3>3. exc # <<>> /\ Coherent(q, J!Front(exc))
        BY <1>2, <1>3, <1>4, <3>1, <3>2, CoherentPop DEF Going
      <3> QED
        BY <1>2, <2>1, <3>3 DEF J!AfterPop
    <2>2. CASE ~J!Here.handlers
      BY <1>2, <1>3, <1>4, <2>2, CoherentFewer DEF Going
    <2> QED
      BY <2>1, <2>2
  <1>7. Postponed(q, post)
    <2>1. \A l \in J!Loops(where) :
            (\E k \in DOMAIN where : k > l /\ where[k].final) => \E k \in DOMAIN q : k > l /\ q[k].final
      BY <1>3, <1>4, <1>5 DEF Leaves
    <2> QED
      BY <1>1, <1>3, <1>4, <2>1, PostponedStays DEF Going
  <1>8. where' = q /\ Going(q, exc', err', post')
    BY <1>2, <1>6, <1>7 DEF Going, q
  <1> QED
    BY <1>2, <1>8 DEF HandlersInv

LEMMA EndSegmentHandlers ==
  ASSUME Going(where, exc, err, post), J!EndSegment
  PROVE  HandlersInv'
  <1>1. where \in Place
    BY DEF Going, Coherent
  <1>2. /\ J!Depth > 0
        /\ J!Here.part \in {"except", "else"} \/ (J!Here.kind = "with" /\ J!Here.part = "body")
        /\ err' = err /\ post' = post /\ saved' = saved /\ status' = status /\ status = "running"
    BY DEF J!EndSegment, J!InProgram, J!Running
  <1>3. /\ J!Depth \in Nat \ {0} /\ DOMAIN where = 1..J!Depth /\ J!Depth \in 1..Len(where)
        /\ J!Here = where[J!Depth] /\ J!Depth = Len(where) /\ SubSeq(where, 1, J!Depth) = where
        /\ J!Here \in StatementRecord
    BY <1>1, <1>2, HereIs, WholePrefix DEF J!Depth
  <1>4. CASE ~J!Here.final
    <2>1. where' = J!Outside(J!Depth) /\ exc' = exc
      BY <1>4 DEF J!EndSegment
    <2> QED
      BY <1>2, <1>4, <2>1, OutsideHandlers DEF J!Running
  <1>5. CASE J!Here.final
    <2> DEFINE q == J!InPart(where, "finally", J!Nothing)
    <2>1. where' = q /\ exc' = J!AfterPop
      BY <1>5 DEF J!EndSegment
    <2>2. /\ q \in Place /\ Len(q) = J!Depth /\ Leaves(q, where)
          /\ q[J!Depth].part = "finally" /\ q[J!Depth].pending = J!Nothing
      <3>1. q = J!InPart(SubSeq(where, 1, J!Depth), "finally", J!Nothing)
        BY <1>3
      <3> HIDE DEF q
      <3> QED
        BY <1>1, <1>3, <3>1, PartLeaves
    <2> HIDE DEF q
    <2>3. DOMAIN q = 1..J!Depth
      BY <2>2 DEF Place
    <2>4. <<J!Depth, "finally">> \in J!Needs(where)
      BY <1>2, <1>3, <1>5, NeedsAre
    <2>5. <<J!Depth, "finally">> \notin J!Needs(q)
      BY <1>3, <2>2, <2>3, NeedsAre
    <2>6. exc # <<>> /\ Coherent(q, J!Front(exc))
      BY <1>3, <2>2, <2>4, <2>5, CoherentPop DEF Going
    <2>7. exc' = J!Front(exc)
      BY <2>1, <2>6 DEF J!AfterPop
    <2>8. Postponed(q, post)
      <3>1. \A l \in J!Loops(where) :
              (\E k \in DOMAIN where : k > l /\ where[k].final) => \E k \in DOMAIN q : k > l /\ q[k].final
        BY <1>3, <2>2, <2>3 DEF Leaves
      <3> QED
        BY <1>1, <1>3, <2>2, <3>1, PostponedStays DEF Going
    <2>9. Going(where', exc', err', post')
      BY <1>2, <2>1, <2>6, <2>7, <2>8 DEF Going
    <2> QED
      BY <1>2, <2>9 DEF HandlersInv
  <1> QED
    BY <1>4, <1>5

(* To the finally part of a statement around this place. *)
LEMMA InnermostFinally ==
  ASSUME NEW p \in Place, NEW k \in 0..Len(p), J!Finallies(SubSeq(p, 1, k)) # {}
  PROVE  LET j == J!Innermost(J!Finallies(SubSeq(p, 1, k))) IN j \in 1..k /\ p[j].final
  <1> DEFINE q == SubSeq(p, 1, k)
             j == J!Innermost(J!Finallies(q))
  <1>1. q \in Place /\ Len(q) = k /\ \A i \in 1..k : q[i] = p[i]
    BY PrefixIsPlace
  <1>2. k \in Nat /\ DOMAIN q = 1..k
    BY <1>1 DEF Place
  <1>3. J!Finallies(q) \in SUBSET (1..k)
    BY <1>2 DEF J!Finallies
  <1>4. j \in J!Finallies(q)
    BY <1>2, <1>3, InnermostIsLast
  <1> QED
    BY <1>1, <1>2, <1>4 DEF J!Finallies

LEMMA ToOuterFinallyHandlers ==
  ASSUME Going(where, exc, err, post), J!ToOuterFinally
  PROVE  HandlersInv'
  <1>1. where \in Place /\ J!Depth > 0 /\ Coherent(where, exc)
    BY DEF Going, Coherent, J!ToOuterFinally, J!AtFinallyEnd
  <1> DEFINE out == SubSeq(where, 1, J!Depth - 1)
             j == J!Innermost(J!Finallies(out))
             q == J!InPart(SubSeq(where, 1, j), "finally", J!Nothing)
  <1>2. /\ J!Depth \in Nat \ {0} /\ DOMAIN where = 1..J!Depth /\ J!Depth = Len(where)
        /\ J!Outside(J!Depth) = out /\ J!Depth - 1 \in 0..Len(where)
    BY <1>1, HereIs DEF J!Depth
  <1>3. /\ where' = q /\ exc' = exc /\ err' = err /\ post' = post /\ status' = "running"
        /\ J!Finallies(out) # {} /\ (post = J!Returning \/ \A k \in J!Loops(out) : k < j)
    BY <1>2 DEF J!ToOuterFinally, J!AtFinallyEnd, J!Running, J!LeavesOuterFinally
  <1>4. j \in 1..(J!Depth - 1) /\ where[j].final
    BY <1>1, <1>2, <1>3, InnermostFinally
  <1>5. out \in Place /\ DOMAIN out = 1..(J!Depth - 1) /\ \A i \in 1..(J!Depth - 1) : out[i] = where[i]
    BY <1>1, <1>2, PrefixIsPlace DEF Place
  <1> HIDE DEF out, j
  <1>6. j \in 1..Len(where) /\ J!Nothing \in Exception \cup {J!Nothing}
    BY <1>2, <1>4
  <1>7. Coherent(q, exc)
    BY <1>1, <1>6, CoherentFinally
  <1>8. q \in Place /\ Len(q) = j /\ q[j].part = "finally" /\ q[j].pending = J!Nothing /\ Leaves(q, where)
    BY <1>1, <1>6, PartLeaves
  <1> HIDE DEF q
  <1>9. Postponed(q, post)
    <2>1. CASE post.does # "jump"
      BY <2>1, NothingPostponed
    <2>2. CASE post.does = "jump"
      <3>1. \A k \in J!Loops(out) : k < j
        BY <1>3, <2>2, JumpsAre
      <3>2. q[j].final /\ j \in DOMAIN q
        BY <1>4, <1>8 DEF Leaves, Place
      <3>3. ASSUME NEW l \in J!Loops(where), NEW k \in DOMAIN where, k > l
            PROVE  j > l
        <4>1. l \in 1..(J!Depth - 1)
          BY <1>2, <3>3 DEF J!Loops
        <4>2. l \in J!Loops(out)
          BY <1>5, <3>3, <4>1 DEF J!Loops
        <4> QED
          BY <1>4, <3>1, <4>1, <4>2
      <3>4. \A l \in J!Loops(where) :
              (\E k \in DOMAIN where : k > l /\ where[k].final) => \E k \in DOMAIN q : k > l /\ q[k].final
        BY <3>2, <3>3
      <3> QED
        BY <1>1, <1>4, <1>8, <3>4, PostponedStays DEF Going
    <2> QED
      BY <2>1, <2>2
  <1> QED
    BY <1>3, <1>7, <1>9 DEF HandlersInv, Going

LEMMA JumpAtLastHandlers ==
  ASSUME Going(where, exc, err, post), J!JumpAtLast
  PROVE  HandlersInv'
  <1>1. where \in Place /\ Coherent(where, exc)
    BY DEF Going, Coherent
  <1>2. /\ post.does = "jump" /\ where' = post.place /\ exc' = exc /\ err' = err /\ post' = J!NoJump
        /\ status' = "running"
    BY DEF J!JumpAtLast, J!AtFinallyEnd, J!Running
  <1>3. PICK loop \in J!Loops(where) :
          /\ post.place = J!Outside(loop) \/ post.place = SubSeq(where, 1, loop)
          /\ loop < J!Depth
    BY <1>1, <1>2, JumpWithin DEF Going
  <1>4. loop - 1 \in 0..Len(where) /\ loop \in 0..Len(where)
    BY <1>1 DEF J!Loops, Place
  <1>5. Coherent(where', exc)
    BY <1>1, <1>2, <1>3, <1>4, CoherentPrefix DEF J!Outside
  <1>6. Postponed(where', post')
    BY <1>2, NothingPostponed, JumpsAre
  <1> QED
    BY <1>2, <1>5, <1>6 DEF HandlersInv, Going

(* break and continue. *)
LEMMA LeaveHandlers ==
  ASSUME ~JumpsAreFollowed, Going(where, exc, err, post), J!Running, post = J!NoJump, J!Loops(where) # {},
         NEW place, place = J!Outside(J!Innermost(J!Loops(where)))
                      \/ place = J!Outside(J!Innermost(J!Loops(where)) + 1),
         J!LeaveTo(place, J!Innermost(J!Loops(where)))
  PROVE  HandlersInv'
  <1> DEFINE loop == J!Innermost(J!Loops(where))
  <1>1. where \in Place /\ Coherent(where, exc) /\ Len(where) \in Nat /\ DOMAIN where = 1..Len(where)
    BY DEF Going, Coherent, Place
  <1>2. loop \in J!Loops(where)
    <2>1. J!Loops(where) \in SUBSET (1..Len(where))
      BY <1>1 DEF J!Loops
    <2> QED
      BY <1>1, <2>1, InnermostIsLast
  <1>3. exc' = exc /\ err' = err /\ status' = "running" /\ J!LeaveTo(place, loop)
    BY DEF J!LeaveTo, J!Running
  <1>4. place = J!Outside(loop) \/ place = J!Outside(loop + 1)
    OBVIOUS
  <1> HIDE DEF loop
  <1>5. /\ loop - 1 \in 0..Len(where) /\ loop \in 0..Len(where)
        /\ J!Outside(loop) = SubSeq(where, 1, loop - 1) /\ J!Outside(loop + 1) = SubSeq(where, 1, loop)
    BY <1>1, <1>2 DEF J!Loops, J!Outside
  <1>6. CASE \E k \in J!Finallies(where) : k > loop
    <2>1. /\ \A k \in DOMAIN where : k > loop => where[k].pending = J!Nothing
          /\ post' = J!Jump(place) /\ where' = where
      BY <1>3, <1>6 DEF J!LeaveTo
    <2>2. \E k \in DOMAIN where : k > loop /\ where[k].final
      BY <1>6 DEF J!Finallies
    <2>3. post'.place = place
      BY <2>1, JumpsAre
    <2>4. Postponed(where, post')
      BY <1>2, <1>4, <1>5, <2>1, <2>2, <2>3 DEF Postponed
    <2> QED
      BY <1>1, <1>3, <2>1, <2>4 DEF HandlersInv, Going
  <1>7. CASE ~\E k \in J!Finallies(where) : k > loop
    <2>1. where' = place /\ post' = post
      BY <1>3, <1>7 DEF J!LeaveTo
    <2>2. Coherent(place, exc)
      BY <1>1, <1>4, <1>5, CoherentPrefix
    <2> QED
      BY <1>3, <2>1, <2>2, NothingPostponed, JumpsAre DEF HandlersInv, Going
  <1> QED
    BY <1>6, <1>7

LEMMA ReturnHandlers ==
  ASSUME Going(where, exc, err, post), J!ReturnStatement
  PROVE  HandlersInv'
  <1>1. where \in Place /\ Coherent(where, exc) /\ Len(where) \in Nat /\ DOMAIN where = 1..Len(where)
    BY DEF Going, Coherent, Place
  <1>2. CASE J!Finallies(where) = {}
    BY <1>2 DEF J!ReturnStatement, J!End, HandlersInv
  <1>3. CASE J!Finallies(where) # {}
    <2> DEFINE k == J!Innermost(J!Finallies(where))
    <2>1. k \in 1..Len(where)
      <3>1. Len(where) \in 0..Len(where) /\ SubSeq(where, 1, Len(where)) = where
        BY <1>1, WholePrefix
      <3> QED
        BY <1>1, <1>3, <3>1, InnermostFinally
    <2>2. /\ post' = J!Returning /\ where' = J!InPart(SubSeq(where, 1, k), "finally", J!Nothing)
          /\ exc' = exc /\ err' = err /\ status' = "running"
      BY <1>3 DEF J!ReturnStatement, J!InProgram, J!Running
    <2> HIDE DEF k
    <2>3. Coherent(where', exc)
      BY <1>1, <2>1, <2>2, CoherentFinally
    <2> QED
      BY <2>2, <2>3, NothingPostponed, JumpsAre DEF HandlersInv, Going
  <1> QED
    BY <1>2, <1>3

LEMMA NextHandlers ==
  ASSUME ~JumpsAreFollowed, HandlersInv, [J!Next]_J!vars
  PROVE  HandlersInv'
  <1>1. CASE UNCHANGED J!vars
    <2>1. /\ where' = where /\ exc' = exc /\ err' = err /\ post' = post /\ saved' = saved
          /\ status' = status
      BY <1>1 DEF J!vars
    <2> QED
      BY <2>1 DEF HandlersInv
  <1>2. J!MayGoOn => post = J!NoJump
    BY DEF J!MayGoOn
  <1>3. ASSUME NEW e \in Exception, J!Raise(e) PROVE HandlersInv'
    BY <1>2, <1>3, ThrowHandlers, JumpsAre DEF J!Raise, HandlersInv, J!Running, MaybeException
  <1>4. CASE J!NotHandled
    BY <1>2, <1>4, ThrowHandlers, JumpsAre DEF J!NotHandled, J!InProgram, HandlersInv, J!Running, Going
  <1>5. CASE J!FinallyReraises
    <2>1. Going(where, exc, err, post) /\ J!Running /\ J!Throw(J!Here.pending) /\ J!Here.pending # J!Nothing /\ J!Depth > 0
      BY <1>5 DEF J!FinallyReraises, HandlersInv, J!Running
    <2>2. where \in Place
      BY <2>1 DEF Going, Coherent
    <2>3. J!Here.pending \in MaybeException
      BY <2>1, <2>2, HereIs DEF StatementRecord, MaybeException
    <2>4. post.does # "jump"
      BY <2>1, <2>2, JumpWithin DEF Going
    <2> QED
      BY <2>1, <2>3, <2>4, ThrowHandlers
  <1>6. CASE J!ExitSwallows
    <2>1. Going(where, exc, err, post) /\ J!Running /\ J!Here.pending # J!Nothing /\ J!Depth > 0
      BY <1>6 DEF J!ExitSwallows, HandlersInv, J!Running
    <2>2. post.does # "jump"
      BY <2>1, JumpWithin DEF Going, Coherent
    <2> QED
      BY <1>6, <2>1, <2>2, OutsideHandlers DEF J!ExitSwallows
  <1>7. ASSUME NEW s \in {J!Loop, J!With} \cup J!Try, J!Enter(s) PROVE HandlersInv'
    BY <1>7, EnterHandlers DEF J!Enter, J!InProgram, J!Running, HandlersInv
  <1>8. CASE J!EndLoop
    <2>1. Going(where, exc, err, post) /\ J!Running /\ J!Depth > 0 /\ J!Here.kind = "loop"
      BY <1>8 DEF J!EndLoop, J!InProgram, J!Running, HandlersInv
    <2>2. ~J!Here.final
      BY <2>1, HereIs DEF Going, Coherent, StatementRecord
    <2> QED
      BY <1>8, <2>1, <2>2, OutsideHandlers DEF J!EndLoop
  <1>9. CASE J!EndTryBody
    BY <1>9, EndTryBodyHandlers DEF J!EndTryBody, J!InProgram, J!Running, HandlersInv
  <1>10. CASE J!EndSegment
    BY <1>10, EndSegmentHandlers DEF J!EndSegment, J!InProgram, J!Running, HandlersInv
  <1>11. CASE J!EndFinally
    BY <1>11, OutsideHandlers, JumpsAre DEF J!EndFinally, J!AtFinallyEnd, J!Running, HandlersInv
  <1>12. CASE J!ToOuterFinally
    BY <1>12, ToOuterFinallyHandlers DEF J!ToOuterFinally, J!AtFinallyEnd, J!Running, HandlersInv
  <1>13. CASE J!ReturnAtLast
    BY <1>13 DEF J!ReturnAtLast, J!End, HandlersInv
  <1>14. CASE J!JumpAtLast
    BY <1>14, JumpAtLastHandlers DEF J!JumpAtLast, J!AtFinallyEnd, J!Running, HandlersInv
  <1>15. CASE J!Break
    BY <1>2, <1>15, LeaveHandlers DEF J!Break, J!InProgram, J!Running, HandlersInv
  <1>16. CASE J!Continue
    BY <1>2, <1>16, LeaveHandlers DEF J!Continue, J!InProgram, J!Running, HandlersInv
  <1>17. CASE J!ReturnStatement
    BY <1>17, ReturnHandlers DEF J!ReturnStatement, J!InProgram, J!Running, HandlersInv
  <1>18. CASE J!Suspend
    <2>1. Going(where, exc, err, post)
      BY <1>18 DEF J!Suspend, J!Running, HandlersInv
    <2>2. /\ saved' = [where |-> where, exc |-> exc, err |-> err, post |-> post]
          /\ status' = "suspended"
      BY <1>18 DEF J!Suspend
    <2> QED
      BY <2>1, <2>2 DEF HandlersInv
  <1>19. CASE J!Wake
    <2>1. Going(saved.where, saved.exc, saved.err, saved.post)
      BY <1>19 DEF J!Wake, HandlersInv
    <2>2. /\ where' = saved.where /\ exc' = saved.exc /\ err' = saved.err /\ post' = saved.post
          /\ status' = "running"
      BY <1>19 DEF J!Wake
    <2>3. Going(where', exc', err', post')
      BY <2>1, <2>2
    <2> QED
      BY <2>2, <2>3 DEF HandlersInv
  <1> QED
    BY <1>1, <1>3, <1>4, <1>5, <1>6, <1>7, <1>8, <1>9, <1>10, <1>11, <1>12, <1>13, <1>14,
       <1>15, <1>16, <1>17, <1>18, <1>19 DEF J!Next

(* However control got to a place, the handlers and finally blocks around  *)
(* it are on $exc, in their order: for programs of any depth, with any     *)
(* jumps, which nothing follows in their block.                            *)
THEOREM HandlersAlwaysStay == J!Spec => []HandlersStay
  <1>0. ~JumpsAreFollowed
    BY ProgramAssumption
  <1>1. HandlersInv /\ [J!Next]_J!vars => HandlersInv'
    BY <1>0, NextHandlers
  <1>2. HandlersInv => J!HandlersStay
    BY DEF HandlersInv, J!HandlersStay, J!Running, Going, Coherent
  <1> QED
    BY <1>1, <1>2, InitHandlers, PTL DEF J!Spec, HandlersStay

-----------------------------------------------------------------------------
(* Imports (Imports).                                                      *)

TaskRecord == [kind : {"import", "from", "relative"}, name : Modules, obj : Nat, quiet : BOOLEAN]
ModuleRecord ==
  [name : Modules, status : {"running", "done", "failed"}, owner : Nat,
   attrs : [Modules -> Nat], initializing : BOOLEAN]
Stacks == [ThreadId -> Seq(TaskRecord)]

(* The tasks of a stack of which the bodies run, each of them once, and    *)
(* the first task of a thread.                                             *)
Bodies(s) ==
  {b \in TaskRecord : M!Running(b) /\ \E t \in ThreadId : \E n \in DOMAIN s[t] : s[t][n] = b}
Once(s) ==
  \A t, u \in ThreadId : \A n \in DOMAIN s[t], m \in DOMAIN s[u] :
    M!Running(s[t][n]) /\ s[t][n].obj = s[u][m].obj => t = u /\ n = m
HeadsRun(s) == \A t \in ThreadId : s[t] # <<>> => M!Running(s[t][1])

-----------------------------------------------------------------------------
(* Tasks.                                                                  *)
LEMMA FirstOf ==
  ASSUME NEW S \in SUBSET Nat, S # {}
  PROVE  (CHOOSE n \in S : \A m \in S : n <= m) \in S
         /\ \A m \in S : (CHOOSE n \in S : \A m2 \in S : n <= m2) <= m
  <1>1. PICK n \in S : \A m \in S : ~(<<m, n>> \in OpToRel(<, Nat))
    BY NatLessThanWellFounded, WFMin
  <1>2. ASSUME NEW m \in S PROVE n <= m
    <2>1. ~(m < n) /\ m \in Nat /\ n \in Nat
      BY <1>1 DEF OpToRel
    <2> QED
      BY <2>1
  <1> QED
    BY <1>2

(* Two lists of tasks with the same bodies running.                        *)
SameBodies(a, b) ==
  \E d \in Int :
    /\ \A n \in DOMAIN a : M!Running(a[n]) => n + d \in DOMAIN b /\ b[n + d] = a[n]
    /\ \A n \in DOMAIN b : M!Running(b[n]) => n - d \in DOMAIN a /\ a[n - d] = b[n]

LEMMA SameBodiesKeep ==
  ASSUME NEW s \in Stacks, NEW t \in ThreadId, NEW b \in Seq(TaskRecord), SameBodies(s[t], b)
  PROVE  LET s2 == [s EXCEPT ![t] = b]
         IN  s2 \in Stacks /\ Bodies(s2) = Bodies(s) /\ (Once(s) => Once(s2))
  <1> DEFINE s2 == [s EXCEPT ![t] = b]
             a == s[t]
  <1>1. s2 \in Stacks /\ a \in Seq(TaskRecord) /\ s2[t] = b
    BY DEF Stacks
  <1>2. \A u \in ThreadId : u # t => s2[u] = s[u]
    BY DEF Stacks
  <1>3. PICK d \in Int :
          /\ \A n \in DOMAIN a : M!Running(a[n]) => n + d \in DOMAIN b /\ b[n + d] = a[n]
          /\ \A n \in DOMAIN b : M!Running(b[n]) => n - d \in DOMAIN a /\ a[n - d] = b[n]
    BY DEF SameBodies
  <1>4. /\ \A u \in ThreadId : \A n \in DOMAIN s[u] : n \in Int /\ s[u][n] \in TaskRecord
        /\ \A u \in ThreadId : \A n \in DOMAIN s2[u] : n \in Int /\ s2[u][n] \in TaskRecord
    BY <1>1 DEF Stacks
  <1> HIDE DEF s2
  <1>5. ASSUME NEW r \in TaskRecord, M!Running(r),
               NEW u \in ThreadId, NEW n \in DOMAIN s[u], s[u][n] = r
        PROVE  \E m \in DOMAIN s2[u] : s2[u][m] = r
    BY <1>1, <1>2, <1>3, <1>5
  <1>6. ASSUME NEW r \in TaskRecord, M!Running(r),
               NEW u \in ThreadId, NEW n \in DOMAIN s2[u], s2[u][n] = r
        PROVE  \E m \in DOMAIN s[u] : s[u][m] = r
    BY <1>1, <1>2, <1>3, <1>6
  <1>7. Bodies(s2) = Bodies(s)
    BY <1>5, <1>6 DEF Bodies
  <1>8. ASSUME Once(s) PROVE Once(s2)
    <2> SUFFICES ASSUME NEW u \in ThreadId, NEW w \in ThreadId,
                        NEW n \in DOMAIN s2[u], NEW m \in DOMAIN s2[w],
                        M!Running(s2[u][n]), s2[u][n].obj = s2[w][m].obj
                 PROVE  u = w /\ n = m
      BY DEF Once
    <2>1. M!Running(s2[w][m])
      BY DEF M!Running
    <2>2. CASE u = t /\ w = t
      <3>1. /\ n - d \in DOMAIN a /\ a[n - d] = s2[u][n]
            /\ m - d \in DOMAIN a /\ a[m - d] = s2[w][m]
        BY <1>1, <1>3, <2>1, <2>2
      <3>2. n - d = m - d
        BY <1>8, <2>1, <3>1 DEF Once
      <3> QED
        BY <1>4, <2>2, <3>2
    <2>3. CASE u = t /\ w # t
      <3>1. n - d \in DOMAIN a /\ a[n - d] = s2[u][n]
        BY <1>1, <1>3, <2>3
      <3>2. m \in DOMAIN s[w] /\ s[w][m] = s2[w][m]
        BY <1>2, <2>3
      <3> QED
        BY <1>8, <2>3, <3>1, <3>2 DEF Once
    <2>4. CASE u # t /\ w = t
      <3>1. m - d \in DOMAIN a /\ a[m - d] = s2[w][m]
        BY <1>1, <1>3, <2>1, <2>4
      <3>2. n \in DOMAIN s[u] /\ s[u][n] = s2[u][n]
        BY <1>2, <2>4
      <3> QED
        BY <1>8, <2>4, <3>1, <3>2 DEF Once
    <2>5. CASE u # t /\ w # t
      BY <1>2, <1>8, <2>5 DEF Once
    <2> QED
      BY <2>2, <2>3, <2>4, <2>5
  <1> QED
    BY <1>1, <1>7, <1>8 DEF s2

LEMMA PrependedBodies ==
  ASSUME NEW a \in Seq(TaskRecord), NEW front \in Seq(TaskRecord),
         \A n \in DOMAIN front : ~M!Running(front[n])
  PROVE  front \o a \in Seq(TaskRecord) /\ SameBodies(a, front \o a)
  <1> DEFINE b == front \o a
             d == Len(front)
  <1>1. /\ b \in Seq(TaskRecord) /\ Len(b) = d + Len(a)
        /\ d \in Nat /\ Len(a) \in Nat
        /\ \A i \in 1..(d + Len(a)) : b[i] = IF i <= d THEN front[i] ELSE a[i - d]
    BY ConcatProperties
  <1>2. DOMAIN a = 1..Len(a) /\ DOMAIN b = 1..(d + Len(a)) /\ DOMAIN front = 1..d
    BY <1>1
  <1> HIDE DEF b, d
  <1>3. \A n \in DOMAIN a : n + d \in DOMAIN b /\ b[n + d] = a[n]
    BY <1>1, <1>2
  <1>4. \A n \in DOMAIN b : M!Running(b[n]) => n - d \in DOMAIN a /\ a[n - d] = b[n]
    BY <1>1, <1>2
  <1>5. SameBodies(a, b)
    <2>1. d \in Int
      BY <1>1
    <2> QED
      BY <1>3, <1>4, <2>1 DEF SameBodies
  <1> QED
    BY <1>1, <1>5 DEF b

(* What comes before the first running body is dropped.                    *)
LEMMA DroppedBodies ==
  ASSUME NEW a \in Seq(TaskRecord), NEW k \in 1..Len(a), \A n \in 1..(k - 1) : ~M!Running(a[n])
  PROVE  /\ SubSeq(a, k, Len(a)) \in Seq(TaskRecord)
         /\ SameBodies(a, SubSeq(a, k, Len(a)))
         /\ SubSeq(a, k, Len(a)) # <<>>
         /\ SubSeq(a, k, Len(a))[1] = a[k]
  <1> DEFINE b == SubSeq(a, k, Len(a))
             d == 1 - k
  <1>1. /\ b \in Seq(TaskRecord) /\ DOMAIN b = 1..(Len(a) - k + 1) /\ Len(a) \in Nat
        /\ \A i \in 1..(Len(a) - k + 1) : b[i] = a[i + k - 1]
        /\ DOMAIN a = 1..Len(a) /\ k \in Int /\ Len(b) = Len(a) - k + 1
    OBVIOUS
  <1> HIDE DEF b
  <1>2. \A n \in DOMAIN a : M!Running(a[n]) => n + d \in DOMAIN b /\ b[n + d] = a[n]
    BY <1>1
  <1>3. \A n \in DOMAIN b : M!Running(b[n]) => n - d \in DOMAIN a /\ a[n - d] = b[n]
    BY <1>1
  <1>4. SameBodies(a, b)
    <2>1. d \in Int
      BY <1>1
    <2> HIDE DEF d
    <2> QED
      BY <1>2, <1>3, <2>1 DEF SameBodies
  <1>5. b # <<>> /\ b[1] = a[k]
    BY <1>1
  <1> QED
    BY <1>1, <1>4, <1>5 DEF b

LEMMA NoBodies ==
  ASSUME NEW a \in Seq(TaskRecord), \A n \in DOMAIN a : ~M!Running(a[n])
  PROVE  SameBodies(a, <<>>)
  BY DEF SameBodies

LEMMA LeftBodies ==
  ASSUME NEW tasks \in Seq(TaskRecord)
  PROVE  /\ M!Left(tasks) \in Seq(TaskRecord) /\ SameBodies(tasks, M!Left(tasks))
         /\ M!Left(tasks) # <<>> => M!Running(M!Left(tasks)[1]) \/ M!Needed(M!Left(tasks)[1])
  <1> DEFINE needed == {n \in DOMAIN tasks : M!Running(tasks[n]) \/ M!Needed(tasks[n])}
             k == CHOOSE n \in needed : \A m \in needed : n <= m
  <1>1. DOMAIN tasks = 1..Len(tasks) /\ Len(tasks) \in Nat
    OBVIOUS
  <1>2. CASE needed = {}
    <2>1. M!Left(tasks) = <<>>
      BY <1>2 DEF M!Left
    <2> QED
      BY <1>1, <1>2, <2>1, NoBodies
  <1>3. CASE needed # {}
    <2>1. needed \in SUBSET Nat
      BY <1>1
    <2>2. k \in needed /\ \A m \in needed : k <= m
      <3> HIDE DEF needed
      <3> QED
        BY <1>3, <2>1, FirstOf
    <2>3. M!Left(tasks) = SubSeq(tasks, k, Len(tasks))
      BY <1>3 DEF M!Left
    <2> HIDE DEF k
    <2>4. k \in 1..Len(tasks) /\ \A n \in 1..(k - 1) : ~M!Running(tasks[n])
      BY <1>1, <2>2
    <2> QED
      BY <2>2, <2>3, <2>4, DroppedBodies
  <1> QED
    BY <1>2, <1>3

-----------------------------------------------------------------------------
(* A body begins: the first task of a thread gets a new object.            *)
LEMMA BegunBodies ==
  ASSUME NEW s \in Stacks, NEW t \in ThreadId, NEW task \in TaskRecord, M!Running(task),
         s[t] # <<>>, ~M!Running(s[t][1]), Once(s),
         \A b \in Bodies(s) : b.obj # task.obj
  PROVE  LET s2 == [s EXCEPT ![t] = <<task>> \o Tail(s[t])]
         IN  s2 \in Stacks /\ Bodies(s2) = Bodies(s) \cup {task} /\ Once(s2) /\ s2[t][1] = task
             /\ s2[t] # <<>>
  <1> DEFINE a == s[t]
             b == <<task>> \o Tail(a)
             s2 == [s EXCEPT ![t] = b]
  <1>1. a \in Seq(TaskRecord) /\ Len(a) \in Nat /\ DOMAIN a = 1..Len(a) /\ Len(a) > 0
    BY DEF Stacks
  <1>2. Tail(a) \in Seq(TaskRecord) /\ Len(Tail(a)) = Len(a) - 1
        /\ \A i \in 1..(Len(a) - 1) : Tail(a)[i] = a[i + 1]
    BY <1>1
  <1>3. b \in Seq(TaskRecord) /\ Len(b) = Len(a) /\ b[1] = task
        /\ \A i \in 1..Len(a) : i # 1 => b[i] = a[i]
    <2> HIDE DEF a
    <2>1. <<task>> \in Seq(TaskRecord) /\ Len(<<task>>) = 1 /\ <<task>>[1] = task
      OBVIOUS
    <2>2. /\ b \in Seq(TaskRecord) /\ Len(b) = 1 + Len(Tail(a))
          /\ \A i \in 1..(1 + Len(Tail(a))) :
               b[i] = IF i <= 1 THEN <<task>>[i] ELSE Tail(a)[i - 1]
      BY <1>2, <2>1, ConcatProperties
    <2> HIDE DEF b
    <2> QED
      BY <1>1, <1>2, <2>1, <2>2
  <1> HIDE DEF b
  <1>4. DOMAIN b = DOMAIN a
    BY <1>1, <1>3
  <1>5. /\ s2 \in Stacks /\ s2[t] = b
        /\ \A u \in ThreadId : u # t => s2[u] = s[u]
        /\ \A u \in ThreadId : DOMAIN s2[u] = DOMAIN s[u]
    BY <1>3, <1>4 DEF Stacks
  <1>6. \A u \in ThreadId : \A n \in DOMAIN s[u] :
          n \in Int /\ s[u][n] \in TaskRecord /\ (M!Running(s[u][n]) => s[u][n] \in Bodies(s))
    BY DEF Stacks, Bodies
  <1> HIDE DEF s2
  <1>7. \A u \in ThreadId : \A n \in DOMAIN s[u] :
          s2[u][n] = IF u = t /\ n = 1 THEN task ELSE s[u][n]
    BY <1>1, <1>3, <1>5
  <1>8. 1 \in DOMAIN s[t]
    BY <1>1
  <1>9. Bodies(s2) = Bodies(s) \cup {task}
    <2>1. ASSUME NEW r \in Bodies(s2) PROVE r \in Bodies(s) \cup {task}
      BY <1>5, <1>7 DEF Bodies
    <2>2. task \in Bodies(s2)
      BY <1>5, <1>7, <1>8 DEF Bodies
    <2>3. ASSUME NEW r \in Bodies(s) PROVE r \in Bodies(s2)
      <3>1. PICK u \in ThreadId : \E n \in DOMAIN s[u] : s[u][n] = r
        BY DEF Bodies
      <3>2. PICK n \in DOMAIN s[u] : s[u][n] = r
        BY <3>1
      <3>3. r \in TaskRecord /\ M!Running(r) /\ s2[u][n] = r
        BY <1>7, <3>2 DEF Bodies
      <3> QED
        BY <1>5, <3>3 DEF Bodies
    <2> QED
      BY <2>1, <2>2, <2>3
  <1>10. Once(s2)
    <2> SUFFICES ASSUME NEW u \in ThreadId, NEW w \in ThreadId,
                        NEW n \in DOMAIN s2[u], NEW m \in DOMAIN s2[w],
                        M!Running(s2[u][n]), s2[u][n].obj = s2[w][m].obj
                 PROVE  u = w /\ n = m
      BY DEF Once
    <2>1. M!Running(s2[w][m]) /\ n \in DOMAIN s[u] /\ m \in DOMAIN s[w]
      BY <1>5 DEF M!Running
    <2>2. CASE u = t /\ n = 1
      BY <1>6, <1>7, <2>1, <2>2
    <2>3. CASE w = t /\ m = 1
      BY <1>6, <1>7, <2>1, <2>3
    <2>4. CASE ~(u = t /\ n = 1) /\ ~(w = t /\ m = 1)
      <3>1. s2[u][n] = s[u][n] /\ s2[w][m] = s[w][m]
        BY <1>7, <2>1, <2>4
      <3> QED
        BY <2>1, <3>1 DEF Once
    <2> QED
      BY <2>2, <2>3, <2>4
  <1>11. s2[t][1] = task /\ s2[t] # <<>>
    BY <1>1, <1>3, <1>5
  <1> QED
    BY <1>5, <1>9, <1>10, <1>11 DEF s2, b

(* A body ends: it is the first task of a thread.                          *)
LEMMA EndedBodies ==
  ASSUME NEW s \in Stacks, NEW t \in ThreadId, s[t] # <<>>, M!Running(s[t][1]), Once(s)
  PROVE  LET s2 == [s EXCEPT ![t] = Tail(s[t])]
         IN  s2 \in Stacks /\ Bodies(s2) = Bodies(s) \ {s[t][1]} /\ Once(s2)
             /\ s[t][1] \in Bodies(s)
  <1> DEFINE a == s[t]
             b == Tail(a)
             s2 == [s EXCEPT ![t] = b]
  <1>1. a \in Seq(TaskRecord) /\ Len(a) \in Nat /\ DOMAIN a = 1..Len(a) /\ Len(a) > 0
    BY DEF Stacks
  <1>2. b \in Seq(TaskRecord) /\ DOMAIN b = 1..(Len(a) - 1)
        /\ \A i \in 1..(Len(a) - 1) : b[i] = a[i + 1]
    BY <1>1
  <1> HIDE DEF b
  <1>3. /\ s2 \in Stacks /\ s2[t] = b
        /\ \A u \in ThreadId : u # t => s2[u] = s[u]
    BY <1>2 DEF Stacks
  <1>4. \A u \in ThreadId : \A n \in DOMAIN s[u] :
          n \in Int /\ s[u][n] \in TaskRecord /\ (M!Running(s[u][n]) => s[u][n] \in Bodies(s))
    BY DEF Stacks, Bodies
  <1> HIDE DEF s2
  <1> DEFINE Old(u, n) == IF u = t THEN n + 1 ELSE n
  <1>5. \A u \in ThreadId : \A n \in DOMAIN s2[u] :
          n \in Int /\ Old(u, n) \in DOMAIN s[u] /\ s2[u][n] = s[u][Old(u, n)]
          /\ (u = t => Old(u, n) # 1)
    BY <1>1, <1>2, <1>3, <1>4
  <1>6. \A u \in ThreadId : \A n \in DOMAIN s[u] : ~(u = t /\ n = 1) =>
          \E m \in DOMAIN s2[u] : s2[u][m] = s[u][n]
    <2> SUFFICES ASSUME NEW u \in ThreadId, NEW n \in DOMAIN s[u], ~(u = t /\ n = 1)
                 PROVE  \E m \in DOMAIN s2[u] : s2[u][m] = s[u][n]
      OBVIOUS
    <2>1. CASE u = t
      <3>1. n - 1 \in 1..(Len(a) - 1) /\ n - 1 + 1 = n
        BY <1>1, <2>1
      <3>2. n - 1 \in DOMAIN b /\ b[n - 1] = a[n]
        BY <1>2, <3>1
      <3> QED
        BY <1>3, <2>1, <3>2
    <2>2. CASE u # t
      BY <1>3, <2>2
    <2> QED
      BY <2>1, <2>2
  <1>7. 1 \in DOMAIN s[t] /\ s[t][1] \in Bodies(s)
    BY <1>1, <1>4
  <1>8. Bodies(s2) = Bodies(s) \ {s[t][1]}
    <2>1. ASSUME NEW r \in Bodies(s2) PROVE r \in Bodies(s) \ {s[t][1]}
      <3>1. r \in TaskRecord /\ M!Running(r) /\
            \E u \in ThreadId : \E n \in DOMAIN s2[u] : s2[u][n] = r
        BY DEF Bodies
      <3>2. PICK u \in ThreadId : \E n \in DOMAIN s2[u] : s2[u][n] = r
        BY <3>1
      <3>3. PICK n \in DOMAIN s2[u] : s2[u][n] = r
        BY <3>2
      <3>4. Old(u, n) \in DOMAIN s[u] /\ s[u][Old(u, n)] = r /\ (u = t => Old(u, n) # 1)
        BY <1>5, <3>3
      <3> HIDE DEF Old
      <3>5. r \in Bodies(s)
        BY <3>1, <3>4 DEF Bodies
      <3>6. r # s[t][1]
        BY <1>7, <3>1, <3>4 DEF Once
      <3> QED
        BY <3>5, <3>6
    <2>2. ASSUME NEW r \in Bodies(s), r # s[t][1] PROVE r \in Bodies(s2)
      <3>1. PICK u \in ThreadId : \E n \in DOMAIN s[u] : s[u][n] = r
        BY DEF Bodies
      <3>2. PICK n \in DOMAIN s[u] : s[u][n] = r
        BY <3>1
      <3> QED
        BY <1>6, <2>2, <3>2 DEF Bodies
    <2> QED
      BY <2>1, <2>2
  <1>9. Once(s2)
    <2> SUFFICES ASSUME NEW u \in ThreadId, NEW w \in ThreadId,
                        NEW n \in DOMAIN s2[u], NEW m \in DOMAIN s2[w],
                        M!Running(s2[u][n]), s2[u][n].obj = s2[w][m].obj
                 PROVE  u = w /\ n = m
      BY DEF Once
    <2>1. u = w /\ Old(u, n) = Old(w, m)
      <3>1. /\ Old(u, n) \in DOMAIN s[u] /\ s2[u][n] = s[u][Old(u, n)]
            /\ Old(w, m) \in DOMAIN s[w] /\ s2[w][m] = s[w][Old(w, m)]
        BY <1>5
      <3> HIDE DEF Old
      <3> QED
        BY <3>1 DEF Once
    <2>2. n \in Int /\ m \in Int
      BY <1>5
    <2> QED
      BY <2>1, <2>2
  <1> QED
    BY <1>3, <1>7, <1>8, <1>9 DEF s2, b

-----------------------------------------------------------------------------
(* The fields of a module object, for the provers.                         *)
Name(o, id) == o[id].name
Status(o, id) == o[id].status
OwnerOf(o, id) == o[id].owner
Attr(o, id, n) == o[id].attrs[n]
Partial(o, id) == o[id].initializing

Obj(b) == b.obj
NameIn(b) == b.name
ByName(b) == b.kind = "import"

(* A body which makes its package $initializing, and will end that. *)
Holds(b) == b.kind # "import" /\ ~b.quiet

(* The inductive invariant, of sys.modules, the objects, and the tasks     *)
(* whose bodies run.                                                       *)
Typed(c, o) ==
  /\ \A n \in Modules : c[n] # M!Nothing => c[n] \in DOMAIN o
  /\ \A id \in DOMAIN o :
       /\ id \in Nat /\ id # M!Nothing /\ Name(o, id) \in Modules
       /\ OwnerOf(o, id) # id /\ (OwnerOf(o, id) # M!Nothing => OwnerOf(o, id) \in DOMAIN o)
       /\ \A n \in Modules : Attr(o, id, n) # M!Nothing => Attr(o, id, n) \in DOMAIN o

(* In sys.modules are the modules which have run or are running. *)
Cached(c, o) ==
  /\ \A n \in Modules : c[n] # M!Nothing => Name(o, c[n]) = n /\ Status(o, c[n]) # "failed"
  /\ \A id \in DOMAIN o : Status(o, id) # "failed" => c[Name(o, id)] = id

(* Each that is running has its body. *)
BodiesRun(o, B) ==
  /\ \A b \in B :
       Obj(b) \in DOMAIN o /\ Status(o, Obj(b)) = "running" /\ Name(o, Obj(b)) = NameIn(b)
  /\ \A id \in DOMAIN o : Status(o, id) = "running" => \E b \in B : Obj(b) = id
  /\ \A b, d \in B : Obj(b) = Obj(d) => b = d

(* The attributes of packages. *)
Attributes(o, B) ==
  /\ \A id \in DOMAIN o : \A n \in Modules : Attr(o, id, n) # M!Nothing =>
       /\ Name(o, Attr(o, id, n)) = n /\ OwnerOf(o, Attr(o, id, n)) = id
       /\ Status(o, Attr(o, id, n)) # "failed"
       /\ \A b \in B : Obj(b) = Attr(o, id, n) => ~ByName(b)
  /\ \A id \in DOMAIN o : Status(o, id) = "done" /\ OwnerOf(o, id) # M!Nothing =>
       Attr(o, OwnerOf(o, id), Name(o, id)) = id
  /\ \A b \in B : ~ByName(b) /\ OwnerOf(o, Obj(b)) # M!Nothing =>
       Attr(o, OwnerOf(o, Obj(b)), NameIn(b)) = Obj(b)

Initializing(o, B) ==
  /\ \A id \in DOMAIN o : Status(o, id) = "running" => Partial(o, id)
  /\ \A id \in DOMAIN o : Partial(o, id) /\ Status(o, id) # "running" =>
       \E b \in B : Holds(b) /\ OwnerOf(o, Obj(b)) = id
  /\ \A b \in B : Holds(b) /\ OwnerOf(o, Obj(b)) # M!Nothing =>
       Partial(o, OwnerOf(o, Obj(b))) /\ Status(o, OwnerOf(o, Obj(b))) # "running"
  /\ \A b, d \in B : Holds(b) /\ Holds(d) /\ OwnerOf(o, Obj(b)) # M!Nothing
       /\ OwnerOf(o, Obj(b)) = OwnerOf(o, Obj(d)) => b = d

Sound(c, o, B) ==
  Typed(c, o) /\ Cached(c, o) /\ BodiesRun(o, B) /\ Attributes(o, B) /\ Initializing(o, B)

-----------------------------------------------------------------------------
(* What each of the three changes keeps.                                   *)
(* The objects when a body begins, *)
Started(o, q, n, owner, task) ==
  /\ q \in Seq(ModuleRecord) /\ DOMAIN q = DOMAIN o \cup {Obj(task)}
  /\ Obj(task) \in Nat \ {M!Nothing} /\ Obj(task) \notin DOMAIN o
  /\ Name(q, Obj(task)) = n /\ Status(q, Obj(task)) = "running"
  /\ OwnerOf(q, Obj(task)) = owner
  /\ Partial(q, Obj(task)) /\ \A m \in Modules : Attr(q, Obj(task), m) = M!Nothing
  /\ \A j \in DOMAIN o :
       /\ Name(q, j) = Name(o, j) /\ Status(q, j) = Status(o, j)
       /\ OwnerOf(q, j) = OwnerOf(o, j)
       /\ Partial(q, j) <=> Partial(o, j) \/ (j = owner /\ Holds(task))
       /\ \A m \in Modules : Attr(q, j, m) =
            IF j = owner /\ m = n /\ ~ByName(task) THEN Obj(task) ELSE Attr(o, j, m)

(* and when it ends. *)
Ended(o, q, task, state, forgets, value) ==
  /\ q \in Seq(ModuleRecord) /\ DOMAIN q = DOMAIN o
  /\ \A j \in DOMAIN o :
       /\ Name(q, j) = Name(o, j) /\ OwnerOf(q, j) = OwnerOf(o, j)
       /\ Status(q, j) = IF j = Obj(task) THEN state ELSE Status(o, j)
       /\ Partial(q, j) <=> /\ Partial(o, j) /\ j # Obj(task)
                            /\ ~(j = OwnerOf(o, Obj(task)) /\ Holds(task))
       /\ \A m \in Modules : Attr(q, j, m) =
            IF j = OwnerOf(o, Obj(task)) /\ m = NameIn(task) /\ forgets
            THEN value ELSE Attr(o, j, m)

LEMMA BeginSound ==
  ASSUME NEW c, NEW o, NEW B, Sound(c, o, B),
         NEW n \in Modules, NEW owner \in Nat, owner # M!Nothing => owner \in DOMAIN o,
         c[n] = M!Nothing,
         NEW task, NameIn(task) = n,
         ByName(task) => ~Holds(task),
         Holds(task) => owner = M!Nothing \/ ~Partial(o, owner),
         NEW c2, c2[n] = Obj(task), \A m \in Modules : m # n => c2[m] = c[m],
         NEW q, Started(o, q, n, owner, task)
  PROVE  Sound(c2, q, B \cup {task})
  <1> DEFINE B2 == B \cup {task}
             id == Obj(task)
  <1> USE DEF Started
  <1>1. Typed(c, o) /\ Cached(c, o) /\ BodiesRun(o, B) /\ Attributes(o, B) /\ Initializing(o, B)
    BY DEF Sound
  <1>2. \A j \in DOMAIN o : Name(o, j) = n => Status(o, j) = "failed"
    BY <1>1 DEF Cached, Typed
  <1>3. \A b \in B : /\ Obj(b) \in DOMAIN o /\ Obj(b) # id /\ Name(o, Obj(b)) = NameIn(b)
                     /\ Status(o, Obj(b)) = "running" /\ NameIn(b) \in Modules /\ NameIn(b) # n
                     /\ (OwnerOf(o, Obj(b)) # M!Nothing => OwnerOf(o, Obj(b)) \in DOMAIN o)
    BY <1>1, <1>2 DEF BodiesRun, Typed
  <1>4. Typed(c2, q)
    BY <1>1 DEF Typed, M!Nothing
  <1>5. Cached(c2, q)
    BY <1>1, <1>2 DEF Cached, Typed
  <1>6. BodiesRun(q, B2)
    BY <1>1 DEF BodiesRun
  <1>7. Attributes(q, B2)
    <2>1. ASSUME NEW j \in DOMAIN q, NEW m \in Modules, Attr(q, j, m) # M!Nothing
          PROVE  /\ Name(q, Attr(q, j, m)) = m /\ OwnerOf(q, Attr(q, j, m)) = j
                 /\ Status(q, Attr(q, j, m)) # "failed"
                 /\ \A b \in B2 : Obj(b) = Attr(q, j, m) => ~ByName(b)
      <3>1. j \in DOMAIN o
        BY <2>1
      <3>2. CASE j = owner /\ m = n /\ ~ByName(task)
        BY <1>3, <3>1, <3>2
      <3>3. CASE ~(j = owner /\ m = n /\ ~ByName(task))
        BY <1>1, <2>1, <3>1, <3>3 DEF Attributes, Typed
      <3> QED
        BY <3>2, <3>3
    <2>2. ASSUME NEW j \in DOMAIN q, Status(q, j) = "done", OwnerOf(q, j) # M!Nothing
          PROVE  Attr(q, OwnerOf(q, j), Name(q, j)) = j
      BY <1>1, <1>2, <2>2 DEF Attributes, Typed
    <2>3. ASSUME NEW b \in B2, ~ByName(b), OwnerOf(q, Obj(b)) # M!Nothing
          PROVE  Attr(q, OwnerOf(q, Obj(b)), NameIn(b)) = Obj(b)
      BY <1>1, <1>3, <2>3 DEF Attributes
    <2> QED
      BY <2>1, <2>2, <2>3 DEF Attributes
  <1>8. Initializing(q, B2)
    <2>1. \A j \in DOMAIN q : Status(q, j) = "running" => Partial(q, j)
      BY <1>1 DEF Initializing
    <2>2. ASSUME NEW j \in DOMAIN q, Partial(q, j), Status(q, j) # "running"
          PROVE  \E b \in B2 : Holds(b) /\ OwnerOf(q, Obj(b)) = j
      BY <1>1, <1>3, <2>2 DEF Initializing
    <2>3. ASSUME NEW b \in B2, Holds(b), OwnerOf(q, Obj(b)) # M!Nothing
          PROVE  Partial(q, OwnerOf(q, Obj(b))) /\ Status(q, OwnerOf(q, Obj(b))) # "running"
      BY <1>1, <1>3, <2>3 DEF Initializing
    <2>4. ASSUME NEW b \in B2, NEW d \in B2, Holds(b), Holds(d), OwnerOf(q, Obj(b)) # M!Nothing,
                 OwnerOf(q, Obj(b)) = OwnerOf(q, Obj(d))
          PROVE  b = d
      BY <1>1, <1>3, <2>4 DEF Initializing
    <2> QED
      BY <2>1, <2>2, <2>3, <2>4 DEF Initializing
  <1> QED
    BY <1>4, <1>5, <1>6, <1>7, <1>8 DEF Sound

(* When a body ends, so does what it made $initializing. *)
LEMMA EndInitializing ==
  ASSUME NEW c, NEW o, NEW B, NEW task \in B,
         Typed(c, o), BodiesRun(o, B), Initializing(o, B),
         NEW q, DOMAIN q = DOMAIN o,
         \A j \in DOMAIN o :
           /\ OwnerOf(q, j) = OwnerOf(o, j)
           /\ Status(q, j) = "running" <=> Status(o, j) = "running" /\ j # Obj(task)
           /\ Partial(q, j) <=> /\ Partial(o, j) /\ j # Obj(task)
                                /\ ~(j = OwnerOf(o, Obj(task)) /\ Holds(task))
  PROVE  Initializing(q, B \ {task})
  <1> DEFINE B2 == B \ {task}
             id == Obj(task)
             owner == OwnerOf(o, id)
  <1>1. Typed(c, o) /\ BodiesRun(o, B) /\ Initializing(o, B)
    OBVIOUS
  <1>2. id \in DOMAIN o /\ Status(o, id) = "running" /\ id # M!Nothing /\ owner # id
    BY <1>1 DEF BodiesRun, Typed
  <1>3. \A b \in B : /\ Obj(b) \in DOMAIN o /\ Status(o, Obj(b)) = "running"
                     /\ (OwnerOf(o, Obj(b)) # M!Nothing => OwnerOf(o, Obj(b)) \in DOMAIN o)
                     /\ (Obj(b) = id => b = task)
    BY <1>1 DEF BodiesRun, Typed
  <1>4. Initializing(q, B2)
    <2>1. \A j \in DOMAIN q : Status(q, j) = "running" => Partial(q, j)
      <3>1. Holds(task) /\ owner # M!Nothing => Status(o, owner) # "running"
        BY <1>1 DEF Initializing
      <3> QED
        BY <1>1, <1>2, <3>1 DEF Initializing, Typed
    <2>2. ASSUME NEW j \in DOMAIN q, Partial(q, j), Status(q, j) # "running"
          PROVE  \E b \in B2 : Holds(b) /\ OwnerOf(q, Obj(b)) = j
      <3>1. PICK b \in B : Holds(b) /\ OwnerOf(o, Obj(b)) = j
        BY <1>1, <2>2 DEF Initializing
      <3> QED
        BY <1>3, <2>2, <3>1
    <2>3. ASSUME NEW b \in B2, Holds(b), OwnerOf(q, Obj(b)) # M!Nothing
          PROVE  Partial(q, OwnerOf(q, Obj(b))) /\ Status(q, OwnerOf(q, Obj(b))) # "running"
      <3>1. OwnerOf(o, Obj(b)) \in DOMAIN o /\ OwnerOf(o, Obj(b)) # M!Nothing
            /\ OwnerOf(q, Obj(b)) = OwnerOf(o, Obj(b)) /\ b \in B /\ b # task
        BY <1>3, <2>3
      <3>2. Partial(o, OwnerOf(o, Obj(b))) /\ Status(o, OwnerOf(o, Obj(b))) # "running"
        BY <1>1, <2>3, <3>1 DEF Initializing
      <3>3. OwnerOf(o, Obj(b)) # id
        BY <1>2, <3>2
      <3>4. ~(OwnerOf(o, Obj(b)) = owner /\ Holds(task))
        BY <1>1, <2>3, <3>1 DEF Initializing
      <3> QED
        BY <3>1, <3>2, <3>3, <3>4
    <2>4. ASSUME NEW b \in B2, NEW d \in B2, Holds(b), Holds(d), OwnerOf(q, Obj(b)) # M!Nothing,
                 OwnerOf(q, Obj(b)) = OwnerOf(q, Obj(d))
          PROVE  b = d
      BY <1>1, <1>3, <2>4 DEF Initializing
    <2> QED
      BY <2>1, <2>2, <2>3, <2>4 DEF Initializing
  <1> QED
    BY <1>4

LEMMA ReturnSound ==
  ASSUME NEW c, NEW o, NEW B, Sound(c, o, B), NEW task \in B,
         ByName(task) => ~Holds(task),
         NEW q, Ended(o, q, task, "done", ByName(task), Obj(task))
  PROVE  Sound(c, q, B \ {task})
  <1> DEFINE B2 == B \ {task}
             id == Obj(task)
             owner == OwnerOf(o, id)
  <1> USE DEF Ended
  <1>1. Typed(c, o) /\ Cached(c, o) /\ BodiesRun(o, B) /\ Attributes(o, B) /\ Initializing(o, B)
    BY DEF Sound
  <1>2. id \in DOMAIN o /\ Status(o, id) = "running" /\ Name(o, id) = NameIn(task)
        /\ NameIn(task) \in Modules /\ c[NameIn(task)] = id
        /\ id # M!Nothing /\ owner # id
    BY <1>1 DEF BodiesRun, Cached, Typed
  <1>3. \A b \in B : /\ Obj(b) \in DOMAIN o /\ Name(o, Obj(b)) = NameIn(b)
                     /\ Status(o, Obj(b)) = "running" /\ NameIn(b) \in Modules
                     /\ (OwnerOf(o, Obj(b)) # M!Nothing => OwnerOf(o, Obj(b)) \in DOMAIN o)
                     /\ (Obj(b) = id => b = task)
    BY <1>1 DEF BodiesRun, Typed
  <1>4. Typed(c, q)
    BY <1>1, <1>2 DEF Typed
  <1>5. Cached(c, q)
    BY <1>1, <1>2 DEF Cached, Typed
  <1>6. BodiesRun(q, B2)
    BY <1>1, <1>3 DEF BodiesRun
  <1>7. Attributes(q, B2)
    <2>1. ASSUME NEW j \in DOMAIN q, NEW m \in Modules, Attr(q, j, m) # M!Nothing
          PROVE  /\ Name(q, Attr(q, j, m)) = m /\ OwnerOf(q, Attr(q, j, m)) = j
                 /\ Status(q, Attr(q, j, m)) # "failed"
                 /\ \A b \in B2 : Obj(b) = Attr(q, j, m) => ~ByName(b)
      <3>1. CASE j = owner /\ m = NameIn(task) /\ ByName(task)
        BY <1>2, <1>3, <2>1, <3>1
      <3>2. CASE ~(j = owner /\ m = NameIn(task) /\ ByName(task))
        BY <1>1, <2>1, <3>2 DEF Attributes, Typed
      <3> QED
        BY <3>1, <3>2
    <2>2. ASSUME NEW j \in DOMAIN q, Status(q, j) = "done", OwnerOf(q, j) # M!Nothing
          PROVE  Attr(q, OwnerOf(q, j), Name(q, j)) = j
      <3>1. CASE j = id
        BY <1>1, <1>2, <2>2, <3>1 DEF Attributes, Typed
      <3>2. CASE j # id
        <4>1. Name(o, j) \in Modules /\ Name(o, j) # NameIn(task)
          BY <1>1, <1>2, <2>2, <3>2 DEF Cached, Typed
        <4> QED
          BY <1>1, <1>2, <2>2, <3>2, <4>1 DEF Attributes, Typed
      <3> QED
        BY <3>1, <3>2
    <2>3. ASSUME NEW b \in B2, ~ByName(b), OwnerOf(q, Obj(b)) # M!Nothing
          PROVE  Attr(q, OwnerOf(q, Obj(b)), NameIn(b)) = Obj(b)
      <3>1. NameIn(b) # NameIn(task)
        BY <1>1, <1>2, <1>3, <2>3 DEF Cached
      <3> QED
        BY <1>1, <1>3, <2>3, <3>1 DEF Attributes
    <2> QED
      BY <2>1, <2>2, <2>3 DEF Attributes
  <1>8. Initializing(q, B2)
    BY <1>1, EndInitializing
  <1> QED
    BY <1>4, <1>5, <1>6, <1>7, <1>8 DEF Sound

LEMMA RaiseSound ==
  ASSUME NEW c, NEW o, NEW B, Sound(c, o, B), NEW task \in B,
         ByName(task) => ~Holds(task),
         NEW c2, c2[NameIn(task)] = M!Nothing,
         \A m \in Modules : m # NameIn(task) => c2[m] = c[m],
         NEW q, Ended(o, q, task, "failed", ~ByName(task), M!Nothing)
  PROVE  Sound(c2, q, B \ {task})
  <1> DEFINE B2 == B \ {task}
             id == Obj(task)
             owner == OwnerOf(o, id)
  <1> USE DEF Ended
  <1>1. Typed(c, o) /\ Cached(c, o) /\ BodiesRun(o, B) /\ Attributes(o, B) /\ Initializing(o, B)
    BY DEF Sound
  <1>2. id \in DOMAIN o /\ Status(o, id) = "running" /\ Name(o, id) = NameIn(task)
        /\ NameIn(task) \in Modules /\ c[NameIn(task)] = id
        /\ id # M!Nothing /\ owner # id
    BY <1>1 DEF BodiesRun, Cached, Typed
  <1>3. \A b \in B : /\ Obj(b) \in DOMAIN o /\ Name(o, Obj(b)) = NameIn(b)
                     /\ Status(o, Obj(b)) = "running" /\ NameIn(b) \in Modules
                     /\ (OwnerOf(o, Obj(b)) # M!Nothing => OwnerOf(o, Obj(b)) \in DOMAIN o)
                     /\ (Obj(b) = id => b = task)
    BY <1>1 DEF BodiesRun, Typed
  <1>4. Typed(c2, q)
    BY <1>1, <1>2 DEF Typed
  <1>5. Cached(c2, q)
    <2>1. \A m \in Modules : c2[m] # M!Nothing => Name(q, c2[m]) = m /\ Status(q, c2[m]) # "failed"
      BY <1>1, <1>2 DEF Cached, Typed
    <2>2. \A j \in DOMAIN q : Status(q, j) # "failed" => c2[Name(q, j)] = j
      BY <1>1, <1>2 DEF Cached, Typed
    <2> QED
      BY <2>1, <2>2 DEF Cached
  <1>6. BodiesRun(q, B2)
    BY <1>1, <1>3 DEF BodiesRun
  <1>9. \A j \in DOMAIN o : Status(o, j) # "failed" /\ j # id => Name(o, j) # NameIn(task)
    BY <1>1, <1>2 DEF Cached, Typed
  <1>7. Attributes(q, B2)
    <2>1. ASSUME NEW j \in DOMAIN q, NEW m \in Modules, Attr(q, j, m) # M!Nothing
          PROVE  /\ Name(q, Attr(q, j, m)) = m /\ OwnerOf(q, Attr(q, j, m)) = j
                 /\ Status(q, Attr(q, j, m)) # "failed"
                 /\ \A b \in B2 : Obj(b) = Attr(q, j, m) => ~ByName(b)
      <3>1. Attr(q, j, m) = Attr(o, j, m) /\ j \in DOMAIN o
            /\ ~(j = owner /\ m = NameIn(task) /\ ~ByName(task))
        BY <2>1
      <3>2. /\ Name(o, Attr(o, j, m)) = m /\ OwnerOf(o, Attr(o, j, m)) = j
            /\ Status(o, Attr(o, j, m)) # "failed" /\ Attr(o, j, m) \in DOMAIN o
            /\ \A b \in B : Obj(b) = Attr(o, j, m) => ~ByName(b)
        BY <1>1, <2>1, <3>1 DEF Attributes, Typed
      <3>3. Attr(o, j, m) # id
        BY <1>2, <3>1, <3>2
      <3> QED
        BY <3>1, <3>2, <3>3
    <2>2. ASSUME NEW j \in DOMAIN q, Status(q, j) = "done", OwnerOf(q, j) # M!Nothing
          PROVE  Attr(q, OwnerOf(q, j), Name(q, j)) = j
      BY <1>1, <1>9, <2>2 DEF Attributes, Typed
    <2>3. ASSUME NEW b \in B2, ~ByName(b), OwnerOf(q, Obj(b)) # M!Nothing
          PROVE  Attr(q, OwnerOf(q, Obj(b)), NameIn(b)) = Obj(b)
      <3>1. NameIn(b) # NameIn(task)
        BY <1>1, <1>2, <1>3, <2>3 DEF Cached
      <3> QED
        BY <1>1, <1>3, <2>3, <3>1 DEF Attributes
    <2> QED
      BY <2>1, <2>2, <2>3 DEF Attributes
  <1>8. Initializing(q, B2)
    BY <1>1, EndInitializing
  <1> QED
    BY <1>4, <1>5, <1>6, <1>7, <1>8 DEF Sound

-----------------------------------------------------------------------------
(* What the updates of objects do to each field.                           *)
InitializingSet(o, p, task, v) ==
  /\ p \in Seq(ModuleRecord) /\ DOMAIN p = DOMAIN o
  /\ \A id \in DOMAIN o :
       /\ Name(p, id) = Name(o, id) /\ Status(p, id) = Status(o, id)
       /\ OwnerOf(p, id) = OwnerOf(o, id)
       /\ \A m \in Modules : Attr(p, id, m) = Attr(o, id, m)
       /\ Partial(p, id) =
            IF id = Obj(task) \/ (id = OwnerOf(o, Obj(task)) /\ Holds(task))
            THEN v ELSE Partial(o, id)

LEMMA SetInitializingFields ==
  ASSUME NEW o \in Seq(ModuleRecord), NEW task \in TaskRecord, Obj(task) \in DOMAIN o,
         NEW v \in BOOLEAN
  PROVE  InitializingSet(o, M!SetInitializing(o, task, v), task, v)
  <1> DEFINE p == M!SetInitializing(o, task, v)
             Set(id) == id = task.obj \/ (id = o[task.obj].owner /\ Holds(task))
  <1>1. DOMAIN o = 1..Len(o) /\ Len(o) \in Nat /\ \A id \in DOMAIN o : o[id] \in ModuleRecord
    OBVIOUS
  <1>2. p = [id \in 1..Len(o) |-> IF Set(id) THEN [o[id] EXCEPT !.initializing = v] ELSE o[id]]
    BY <1>1 DEF M!SetInitializing, Holds
  <1> HIDE DEF p, Set
  <1>3. \A id \in 1..Len(o) :
          p[id] = IF Set(id) THEN [o[id] EXCEPT !.initializing = v] ELSE o[id]
    BY <1>2
  <1>4. \A id \in 1..Len(o) :
          /\ p[id] \in ModuleRecord
          /\ p[id].name = o[id].name /\ p[id].status = o[id].status
          /\ p[id].owner = o[id].owner /\ p[id].attrs = o[id].attrs
          /\ p[id].initializing = IF Set(id) THEN v ELSE o[id].initializing
    BY <1>1, <1>3 DEF ModuleRecord
  <1>5. p \in Seq(ModuleRecord) /\ Len(p) = Len(o) /\ DOMAIN p = 1..Len(o)
    BY <1>1, <1>2, <1>4
  <1>6. \A id \in 1..Len(o) :
          /\ Name(p, id) = Name(o, id) /\ Status(p, id) = Status(o, id)
          /\ OwnerOf(p, id) = OwnerOf(o, id)
          /\ \A m \in Modules : Attr(p, id, m) = Attr(o, id, m)
          /\ Partial(p, id) = IF Set(id) THEN v ELSE Partial(o, id)
    BY <1>4 DEF Name, Status, OwnerOf, Attr, Partial
  <1>7. \A id : Set(id) <=> id = Obj(task) \/ (id = OwnerOf(o, Obj(task)) /\ Holds(task))
    BY DEF Set, Obj, OwnerOf
  <1> HIDE DEF Set
  <1> QED
    BY <1>1, <1>5, <1>6, <1>7 DEF p, InitializingSet

AttrSet(o, p, owner, n, value) ==
  /\ p \in Seq(ModuleRecord) /\ DOMAIN p = DOMAIN o
  /\ \A id \in DOMAIN o :
       /\ Name(p, id) = Name(o, id) /\ Status(p, id) = Status(o, id)
       /\ OwnerOf(p, id) = OwnerOf(o, id) /\ Partial(p, id) = Partial(o, id)
       /\ \A m \in Modules :
            Attr(p, id, m) = IF id = owner /\ m = n THEN value ELSE Attr(o, id, m)

LEMMA SetAttrFields ==
  ASSUME NEW o \in Seq(ModuleRecord), NEW owner \in Nat, owner # M!Nothing => owner \in DOMAIN o,
         NEW n \in Modules, NEW value \in Nat
  PROVE  AttrSet(o, M!SetAttr(o, owner, n, value), owner, n, value)
  <1> DEFINE p == M!SetAttr(o, owner, n, value)
  <1>1. DOMAIN o = 1..Len(o) /\ Len(o) \in Nat /\ \A id \in DOMAIN o : o[id] \in ModuleRecord
    OBVIOUS
  <1>2. CASE owner = M!Nothing
    <2>1. p = o
      BY <1>2 DEF M!SetAttr
    <2> HIDE DEF p
    <2> QED
      BY <1>1, <1>2, <2>1 DEF M!Nothing, p, AttrSet
  <1>3. CASE owner # M!Nothing
    <2>1. p = [o EXCEPT ![owner] = [o[owner] EXCEPT !.attrs = [o[owner].attrs EXCEPT ![n] = value]]]
      BY <1>3 DEF M!SetAttr
    <2> DEFINE new == [o[owner] EXCEPT !.attrs = [o[owner].attrs EXCEPT ![n] = value]]
    <2>2. /\ new \in ModuleRecord
          /\ new.name = o[owner].name /\ new.status = o[owner].status
          /\ new.owner = o[owner].owner /\ new.initializing = o[owner].initializing
          /\ \A m \in Modules : new.attrs[m] = IF m = n THEN value ELSE o[owner].attrs[m]
      BY <1>1, <1>3 DEF ModuleRecord
    <2> HIDE DEF new, p
    <2>3. /\ p \in Seq(ModuleRecord) /\ DOMAIN p = DOMAIN o /\ Len(p) = Len(o)
          /\ \A id \in DOMAIN o : p[id] = IF id = owner THEN new ELSE o[id]
      BY <1>1, <1>3, <2>1, <2>2 DEF new
    <2>4. \A id \in DOMAIN o :
            /\ Name(p, id) = Name(o, id) /\ Status(p, id) = Status(o, id)
            /\ OwnerOf(p, id) = OwnerOf(o, id) /\ Partial(p, id) = Partial(o, id)
            /\ \A m \in Modules :
                 Attr(p, id, m) = IF id = owner /\ m = n THEN value ELSE Attr(o, id, m)
      BY <2>2, <2>3 DEF Name, Status, OwnerOf, Attr, Partial
    <2> QED
      BY <2>3, <2>4 DEF p, AttrSet
  <1> QED
    BY <1>2, <1>3

NewModule(n, owner) ==
  [name |-> n, status |-> "running", owner |-> owner,
   attrs |-> [m \in Modules |-> M!Nothing], initializing |-> FALSE]

Begun(o, n, owner, task) ==
  M!SetInitializing(
    IF task.kind = "import" THEN Append(o, NewModule(n, owner))
    ELSE M!SetAttr(Append(o, NewModule(n, owner)), owner, n, task.obj),
    task, TRUE)

(* The object of a module whose body begins, and its package. *)
LEMMA BegunFields ==
  ASSUME NEW o \in Seq(ModuleRecord), NEW n \in Modules,
         NEW owner \in Nat, owner # M!Nothing => owner \in DOMAIN o,
         NEW task \in TaskRecord, task.obj = Len(o) + 1
  PROVE  Started(o, Begun(o, n, owner, task), n, owner, task)
  <1> DEFINE more == Append(o, NewModule(n, owner))
             p == IF task.kind = "import" THEN more ELSE M!SetAttr(more, owner, n, task.obj)
             q == Begun(o, n, owner, task)
             id == task.obj
             Ids == 1..(Len(o) + 1)
  <1>1. Len(o) \in Nat /\ DOMAIN o = 1..Len(o) /\ NewModule(n, owner) \in ModuleRecord
    BY DEF NewModule, ModuleRecord, M!Nothing
  <1>2. /\ more \in Seq(ModuleRecord) /\ DOMAIN more = Ids /\ Len(more) = Len(o) + 1
        /\ \A j \in DOMAIN o : more[j] = o[j]
        /\ more[id] = NewModule(n, owner)
    BY <1>1
  <1>3. id \in Nat \ {M!Nothing} /\ id \notin DOMAIN o /\ Ids = DOMAIN o \cup {id} /\ owner # id
        /\ (owner # M!Nothing => owner \in Ids)
    BY <1>1 DEF M!Nothing
  <1> HIDE DEF more, Ids, id
  <1>4. /\ p \in Seq(ModuleRecord) /\ DOMAIN p = Ids
        /\ \A j \in Ids :
             /\ Name(p, j) = Name(more, j) /\ Status(p, j) = Status(more, j)
             /\ OwnerOf(p, j) = OwnerOf(more, j) /\ Partial(p, j) = Partial(more, j)
             /\ \A m \in Modules : Attr(p, j, m) =
                  IF j = owner /\ m = n /\ ~ByName(task) THEN id ELSE Attr(more, j, m)
    <2>1. CASE task.kind = "import"
      <3>1. p = more
        BY <2>1
      <3> HIDE DEF p
      <3> QED
        BY <1>2, <2>1, <3>1 DEF ByName
    <2>2. CASE task.kind # "import"
      <3>1. p = M!SetAttr(more, owner, n, id)
        BY <2>2 DEF id
      <3> HIDE DEF p
      <3>2. /\ p \in Seq(ModuleRecord) /\ DOMAIN p = Ids
            /\ \A j \in Ids :
                 /\ Name(p, j) = Name(more, j) /\ Status(p, j) = Status(more, j)
                 /\ OwnerOf(p, j) = OwnerOf(more, j) /\ Partial(p, j) = Partial(more, j)
                 /\ \A m \in Modules :
                      Attr(p, j, m) = IF j = owner /\ m = n THEN id ELSE Attr(more, j, m)
        <4>1. AttrSet(more, p, owner, n, id)
          BY <1>2, <1>3, <3>1, SetAttrFields
        <4> QED
          BY <1>2, <4>1 DEF AttrSet
      <3> QED
        BY <2>2, <3>2 DEF ByName
    <2> QED
      BY <2>1, <2>2
  <1>5. q = M!SetInitializing(p, task, TRUE) /\ id \in DOMAIN p
    BY <1>3, <1>4 DEF Begun, more, id
  <1> HIDE DEF p, q
  <1>6. Obj(task) = id
    BY DEF Obj, id
  <1>7. /\ q \in Seq(ModuleRecord) /\ DOMAIN q = Ids
        /\ \A j \in Ids :
             /\ Name(q, j) = Name(p, j) /\ Status(q, j) = Status(p, j)
             /\ OwnerOf(q, j) = OwnerOf(p, j)
             /\ \A m \in Modules : Attr(q, j, m) = Attr(p, j, m)
             /\ Partial(q, j) = IF j = id \/ (j = OwnerOf(p, id) /\ Holds(task))
                                THEN TRUE ELSE Partial(p, j)
    <2>1. InitializingSet(p, q, task, TRUE)
      BY <1>4, <1>5, <1>6, SetInitializingFields
    <2> QED
      BY <1>4, <1>6, <2>1 DEF InitializingSet
  <1>8. /\ Name(more, id) = n /\ Status(more, id) = "running" /\ OwnerOf(more, id) = owner
        /\ \A m \in Modules : Attr(more, id, m) = M!Nothing
    BY <1>2 DEF Name, Status, OwnerOf, Attr, NewModule
  <1>9. \A j \in DOMAIN o :
          /\ Name(more, j) = Name(o, j) /\ Status(more, j) = Status(o, j)
          /\ OwnerOf(more, j) = OwnerOf(o, j) /\ Partial(more, j) = Partial(o, j)
          /\ \A m \in Modules : Attr(more, j, m) = Attr(o, j, m)
          /\ Partial(o, j) \in BOOLEAN
    <2>1. \A j \in DOMAIN o : o[j] \in ModuleRecord
      OBVIOUS
    <2> QED
      BY <1>2, <2>1 DEF Name, Status, OwnerOf, Partial, Attr, ModuleRecord
  <1>10. /\ Name(q, id) = n /\ Status(q, id) = "running" /\ OwnerOf(q, id) = owner
         /\ Partial(q, id) /\ \A m \in Modules : Attr(q, id, m) = M!Nothing
    BY <1>3, <1>4, <1>7, <1>8
  <1>11. \A j \in DOMAIN o :
           /\ Name(q, j) = Name(o, j) /\ Status(q, j) = Status(o, j)
           /\ OwnerOf(q, j) = OwnerOf(o, j)
           /\ Partial(q, j) <=> Partial(o, j) \/ (j = owner /\ Holds(task))
           /\ \A m \in Modules : Attr(q, j, m) =
                IF j = owner /\ m = n /\ ~ByName(task) THEN id ELSE Attr(o, j, m)
    <2> SUFFICES ASSUME NEW j \in DOMAIN o
                 PROVE  /\ Name(q, j) = Name(o, j) /\ Status(q, j) = Status(o, j)
                        /\ OwnerOf(q, j) = OwnerOf(o, j)
                        /\ Partial(q, j) <=> Partial(o, j) \/ (j = owner /\ Holds(task))
                        /\ \A m \in Modules : Attr(q, j, m) =
                             IF j = owner /\ m = n /\ ~ByName(task) THEN id ELSE Attr(o, j, m)
      OBVIOUS
    <2>1. j \in Ids /\ j # id /\ id \in Ids
      BY <1>3
    <2>2. OwnerOf(p, id) = owner
      BY <1>4, <1>8, <2>1
    <2>3. Partial(p, j) = Partial(o, j)
      BY <1>4, <1>9, <2>1
    <2>4. Partial(q, j) = IF j = owner /\ Holds(task) THEN TRUE ELSE Partial(o, j)
      BY <1>7, <2>1, <2>2, <2>3
    <2>5. Partial(q, j) <=> Partial(o, j) \/ (j = owner /\ Holds(task))
      BY <2>4
    <2> QED
      <3>1. /\ Name(q, j) = Name(o, j) /\ Status(q, j) = Status(o, j)
            /\ OwnerOf(q, j) = OwnerOf(o, j)
        BY <1>4, <1>7, <1>9, <2>1
      <3>2. ASSUME NEW m \in Modules
            PROVE  Attr(q, j, m) =
                     IF j = owner /\ m = n /\ ~ByName(task) THEN id ELSE Attr(o, j, m)
        BY <1>4, <1>7, <1>9, <2>1
      <3> QED
        BY <2>5, <3>1, <3>2
  <1> QED
    BY <1>3, <1>6, <1>7, <1>10, <1>11 DEF Started, q

LEMMA StatusFields ==
  ASSUME NEW o \in Seq(ModuleRecord), NEW id \in DOMAIN o, NEW v \in {"running", "done", "failed"}
  PROVE  LET p == [o EXCEPT ![id].status = v]
         IN  /\ p \in Seq(ModuleRecord) /\ DOMAIN p = DOMAIN o
             /\ \A j \in DOMAIN o :
                  /\ Name(p, j) = Name(o, j) /\ OwnerOf(p, j) = OwnerOf(o, j)
                  /\ Partial(p, j) = Partial(o, j)
                  /\ \A m \in Modules : Attr(p, j, m) = Attr(o, j, m)
                  /\ Status(p, j) = IF j = id THEN v ELSE Status(o, j)
  <1> DEFINE p == [o EXCEPT ![id].status = v]
             new == [o[id] EXCEPT !.status = v]
  <1>1. o[id] \in ModuleRecord
    OBVIOUS
  <1>2. /\ new \in ModuleRecord /\ new.name = o[id].name /\ new.owner = o[id].owner
        /\ new.attrs = o[id].attrs /\ new.initializing = o[id].initializing /\ new.status = v
    BY <1>1 DEF ModuleRecord
  <1>3. p = [o EXCEPT ![id] = new]
    OBVIOUS
  <1> HIDE DEF new, p
  <1>4. /\ p \in Seq(ModuleRecord) /\ DOMAIN p = DOMAIN o
        /\ \A j \in DOMAIN o : p[j] = IF j = id THEN new ELSE o[j]
    BY <1>2, <1>3
  <1> QED
    BY <1>2, <1>4 DEF p, Name, OwnerOf, Partial, Attr, Status

(* The object of a module whose body returns, and its package. *)
Returned(o, task) ==
  LET ended == [o EXCEPT ![task.obj].status = "done"]
      quiet == M!SetInitializing(ended, task, FALSE)
  IN IF task.kind = "import" THEN M!SetAttr(quiet, o[task.obj].owner, task.name, task.obj) ELSE quiet

LEMMA ReturnedFields ==
  ASSUME NEW o \in Seq(ModuleRecord), NEW task \in TaskRecord, Obj(task) \in DOMAIN o,
         OwnerOf(o, Obj(task)) # M!Nothing => OwnerOf(o, Obj(task)) \in DOMAIN o
  PROVE  Ended(o, Returned(o, task), task, "done", ByName(task), Obj(task))
  <1> DEFINE id == Obj(task)
             owner == OwnerOf(o, id)
             p == [o EXCEPT ![id].status = "done"]
             r == M!SetInitializing(p, task, FALSE)
             u == M!SetAttr(r, owner, NameIn(task), id)
             q == IF ByName(task) THEN u ELSE r
  <1>1. /\ p \in Seq(ModuleRecord) /\ DOMAIN p = DOMAIN o
        /\ \A j \in DOMAIN o :
             /\ Name(p, j) = Name(o, j) /\ OwnerOf(p, j) = OwnerOf(o, j)
             /\ Partial(p, j) = Partial(o, j)
             /\ \A m \in Modules : Attr(p, j, m) = Attr(o, j, m)
             /\ Status(p, j) = IF j = id THEN "done" ELSE Status(o, j)
    BY StatusFields
  <1>2. q = Returned(o, task)
    BY DEF Returned, ByName, Obj, OwnerOf, NameIn
  <1>3. owner \in Nat /\ NameIn(task) \in Modules /\ id \in Nat
        /\ \A j \in DOMAIN o : Partial(o, j) \in BOOLEAN
    <2>1. \A j \in DOMAIN o : o[j] \in ModuleRecord
      OBVIOUS
    <2> QED
      BY <2>1 DEF ModuleRecord, TaskRecord, OwnerOf, Obj, NameIn, Partial
  <1> HIDE DEF p, id, owner
  <1>4. /\ r \in Seq(ModuleRecord) /\ DOMAIN r = DOMAIN p
        /\ \A j \in DOMAIN p :
             /\ Name(r, j) = Name(p, j) /\ Status(r, j) = Status(p, j)
             /\ OwnerOf(r, j) = OwnerOf(p, j)
             /\ \A m \in Modules : Attr(r, j, m) = Attr(p, j, m)
             /\ Partial(r, j) = IF j = id \/ (j = OwnerOf(p, id) /\ Holds(task))
                                THEN FALSE ELSE Partial(p, j)
    <2>1. Obj(task) \in DOMAIN p
      BY <1>1
    <2>2. InitializingSet(p, r, task, FALSE)
      BY <1>1, <2>1, SetInitializingFields
    <2> HIDE DEF r
    <2> QED
      BY <1>1, <2>2 DEF InitializingSet, id
  <1> HIDE DEF r
  <1>5. ByName(task) =>
          /\ u \in Seq(ModuleRecord) /\ DOMAIN u = DOMAIN r
          /\ \A j \in DOMAIN r :
               /\ Name(u, j) = Name(r, j) /\ Status(u, j) = Status(r, j)
               /\ OwnerOf(u, j) = OwnerOf(r, j) /\ Partial(u, j) = Partial(r, j)
               /\ \A m \in Modules : Attr(u, j, m) =
                    IF j = owner /\ m = NameIn(task) THEN id ELSE Attr(r, j, m)
    <2>1. owner # M!Nothing => owner \in DOMAIN r
      BY <1>1, <1>4 DEF owner, id
    <2>2. AttrSet(r, u, owner, NameIn(task), id)
      BY <1>3, <1>4, <2>1, SetAttrFields
    <2> HIDE DEF u
    <2> QED
      BY <1>4, <2>2 DEF AttrSet
  <1> HIDE DEF u
  <1>6. /\ q \in Seq(ModuleRecord) /\ DOMAIN q = DOMAIN o
        /\ \A j \in DOMAIN o :
             /\ Name(q, j) = Name(r, j) /\ Status(q, j) = Status(r, j)
             /\ OwnerOf(q, j) = OwnerOf(r, j) /\ Partial(q, j) = Partial(r, j)
             /\ \A m \in Modules : Attr(q, j, m) =
                  IF j = owner /\ m = NameIn(task) /\ ByName(task) THEN id ELSE Attr(r, j, m)
    <2>1. CASE ByName(task)
      <3>1. q = u
        BY <2>1
      <3> HIDE DEF q
      <3> QED
        BY <1>1, <1>4, <1>5, <2>1, <3>1
    <2>2. CASE ~ByName(task)
      <3>1. q = r
        BY <2>2
      <3> HIDE DEF q
      <3> QED
        BY <1>1, <1>4, <2>2, <3>1
    <2> QED
      BY <2>1, <2>2
  <1> HIDE DEF q
  <1>7. id \in DOMAIN o
    BY DEF id
  <1>8. \A j \in DOMAIN o :
          /\ Name(q, j) = Name(o, j) /\ OwnerOf(q, j) = OwnerOf(o, j)
          /\ Status(q, j) = IF j = id THEN "done" ELSE Status(o, j)
          /\ Partial(q, j) = IF j = id \/ (j = owner /\ Holds(task)) THEN FALSE ELSE Partial(o, j)
          /\ \A m \in Modules : Attr(q, j, m) =
               IF j = owner /\ m = NameIn(task) /\ ByName(task) THEN id ELSE Attr(o, j, m)
    BY <1>1, <1>4, <1>6, <1>7, ZenonT(30) DEF owner
  <1>9. \A j \in DOMAIN o :
          Partial(q, j) <=> Partial(o, j) /\ j # id /\ ~(j = owner /\ Holds(task))
    BY <1>3, <1>8
  <1> QED
    BY <1>2, <1>6, <1>8, <1>9 DEF Ended, id, owner

(* The object of a module whose body raises, and its package. *)
Raised(o, task) ==
  LET failed == [o EXCEPT ![task.obj].status = "failed"]
  IN M!SetInitializing(IF task.kind = "import" THEN failed
                     ELSE M!SetAttr(failed, o[task.obj].owner, task.name, M!Nothing), task, FALSE)

LEMMA RaisedFields ==
  ASSUME NEW o \in Seq(ModuleRecord), NEW task \in TaskRecord, Obj(task) \in DOMAIN o,
         OwnerOf(o, Obj(task)) # M!Nothing => OwnerOf(o, Obj(task)) \in DOMAIN o
  PROVE  Ended(o, Raised(o, task), task, "failed", ~ByName(task), M!Nothing)
  <1> DEFINE id == Obj(task)
             owner == OwnerOf(o, id)
             p == [o EXCEPT ![id].status = "failed"]
             u == M!SetAttr(p, owner, NameIn(task), M!Nothing)
             r == IF ByName(task) THEN p ELSE u
             q == M!SetInitializing(r, task, FALSE)
  <1>1. /\ p \in Seq(ModuleRecord) /\ DOMAIN p = DOMAIN o
        /\ \A j \in DOMAIN o :
             /\ Name(p, j) = Name(o, j) /\ OwnerOf(p, j) = OwnerOf(o, j)
             /\ Partial(p, j) = Partial(o, j)
             /\ \A m \in Modules : Attr(p, j, m) = Attr(o, j, m)
             /\ Status(p, j) = IF j = id THEN "failed" ELSE Status(o, j)
    BY StatusFields
  <1>2. q = Raised(o, task)
    BY DEF Raised, ByName, Obj, OwnerOf, NameIn
  <1>3. owner \in Nat /\ NameIn(task) \in Modules /\ M!Nothing \in Nat
        /\ \A j \in DOMAIN o : Partial(o, j) \in BOOLEAN
    <2>1. \A j \in DOMAIN o : o[j] \in ModuleRecord
      OBVIOUS
    <2> QED
      BY <2>1 DEF ModuleRecord, TaskRecord, OwnerOf, Obj, NameIn, Partial, M!Nothing
  <1> HIDE DEF p, id, owner
  <1>4. /\ u \in Seq(ModuleRecord) /\ DOMAIN u = DOMAIN p
        /\ \A j \in DOMAIN p :
             /\ Name(u, j) = Name(p, j) /\ Status(u, j) = Status(p, j)
             /\ OwnerOf(u, j) = OwnerOf(p, j) /\ Partial(u, j) = Partial(p, j)
             /\ \A m \in Modules : Attr(u, j, m) =
                  IF j = owner /\ m = NameIn(task) THEN M!Nothing ELSE Attr(p, j, m)
    <2>1. owner # M!Nothing => owner \in DOMAIN p
      BY <1>1 DEF owner, id
    <2>2. AttrSet(p, u, owner, NameIn(task), M!Nothing)
      BY <1>1, <1>3, <2>1, SetAttrFields
    <2> HIDE DEF u
    <2> QED
      BY <1>1, <2>2 DEF AttrSet
  <1> HIDE DEF u
  <1>5. /\ r \in Seq(ModuleRecord) /\ DOMAIN r = DOMAIN o
        /\ \A j \in DOMAIN o :
             /\ Name(r, j) = Name(p, j) /\ Status(r, j) = Status(p, j)
             /\ OwnerOf(r, j) = OwnerOf(p, j) /\ Partial(r, j) = Partial(p, j)
             /\ \A m \in Modules : Attr(r, j, m) =
                  IF j = owner /\ m = NameIn(task) /\ ~ByName(task) THEN M!Nothing ELSE Attr(p, j, m)
    <2>1. CASE ~ByName(task)
      <3>1. r = u
        BY <2>1
      <3> HIDE DEF r
      <3> QED
        BY <1>1, <1>4, <2>1, <3>1
    <2>2. CASE ByName(task)
      <3>1. r = p
        BY <2>2
      <3> HIDE DEF r
      <3> QED
        BY <1>1, <2>2, <3>1
    <2> QED
      BY <2>1, <2>2
  <1> HIDE DEF r
  <1>6. /\ q \in Seq(ModuleRecord) /\ DOMAIN q = DOMAIN r
        /\ \A j \in DOMAIN r :
             /\ Name(q, j) = Name(r, j) /\ Status(q, j) = Status(r, j)
             /\ OwnerOf(q, j) = OwnerOf(r, j)
             /\ \A m \in Modules : Attr(q, j, m) = Attr(r, j, m)
             /\ Partial(q, j) = IF j = id \/ (j = OwnerOf(r, id) /\ Holds(task))
                                THEN FALSE ELSE Partial(r, j)
    <2>1. Obj(task) \in DOMAIN r
      BY <1>5
    <2>2. InitializingSet(r, q, task, FALSE)
      BY <1>5, <2>1, SetInitializingFields
    <2> HIDE DEF q
    <2> QED
      BY <1>5, <2>2 DEF InitializingSet, id
  <1> HIDE DEF q
  <1>7. id \in DOMAIN o
    BY DEF id
  <1>8. \A j \in DOMAIN o :
          /\ Name(q, j) = Name(o, j) /\ OwnerOf(q, j) = OwnerOf(o, j)
          /\ Status(q, j) = IF j = id THEN "failed" ELSE Status(o, j)
          /\ Partial(q, j) = IF j = id \/ (j = owner /\ Holds(task)) THEN FALSE ELSE Partial(o, j)
          /\ \A m \in Modules : Attr(q, j, m) =
               IF j = owner /\ m = NameIn(task) /\ ~ByName(task) THEN M!Nothing ELSE Attr(o, j, m)
    BY <1>1, <1>5, <1>6, <1>7 DEF owner
  <1>9. \A j \in DOMAIN o :
          Partial(q, j) <=> Partial(o, j) /\ j # id /\ ~(j = owner /\ Holds(task))
    BY <1>3, <1>8
  <1> QED
    BY <1>2, <1>5, <1>6, <1>8, <1>9 DEF Ended, id, owner

-----------------------------------------------------------------------------
(* The inductive invariant.                                                *)
Types == cached \in [Modules -> Nat] /\ objects \in Seq(ModuleRecord) /\ running \in Stacks

ImportsInv ==
  /\ Types
  /\ Once(running)
  /\ HeadsRun(running)
  /\ Sound(cached, objects, Bodies(running))

LEMMA NotRunning ==
  ASSUME NEW a \in Seq(TaskRecord), NEW b \in Seq(TaskRecord),
         \A k \in DOMAIN a : ~M!Running(a[k]), \A k \in DOMAIN b : ~M!Running(b[k])
  PROVE  a \o b \in Seq(TaskRecord) /\ \A k \in DOMAIN (a \o b) : ~M!Running((a \o b)[k])
  <1> DEFINE c == a \o b
             d == Len(a)
  <1>1. /\ c \in Seq(TaskRecord) /\ Len(c) = d + Len(b) /\ d \in Nat /\ Len(b) \in Nat
        /\ \A k \in 1..(d + Len(b)) : c[k] = IF k <= d THEN a[k] ELSE b[k - d]
    BY ConcatProperties
  <1>2. DOMAIN c = 1..(d + Len(b)) /\ DOMAIN a = 1..d /\ DOMAIN b = 1..Len(b)
    BY <1>1
  <1> HIDE DEF c, d
  <1>3. ASSUME NEW k \in DOMAIN c
        PROVE  ~M!Running(c[k])
    <2>1. CASE k <= d
      <3>1. k \in DOMAIN a /\ c[k] = a[k]
        BY <1>1, <1>2, <2>1
      <3> QED
        BY <3>1
    <2>2. CASE ~(k <= d)
      <3>1. k - d \in DOMAIN b /\ c[k] = b[k - d]
        BY <1>1, <1>2, <2>2
      <3> QED
        BY <3>1
    <2> QED
      BY <2>1, <2>2
  <1> QED
    BY <1>1, <1>3 DEF c

LEMMA LoadsAreTasks ==
  ASSUME ParentsAreModules, NEW n \in Modules
  PROVE  M!Loads(n) \in Seq(TaskRecord) /\ \A k \in DOMAIN M!Loads(n) : ~M!Running(M!Loads(n)[k])
  <1>1. /\ M!Task("import", n) \in TaskRecord /\ ~M!Running(M!Task("import", n))
        /\ M!InPackage(n) => /\ M!Task("import", ParentOf[n]) \in TaskRecord
                           /\ ~M!Running(M!Task("import", ParentOf[n]))
    BY DEF M!Task, TaskRecord, M!Running, M!Nothing, M!InPackage, ParentsAreModules
  <1>2. CASE M!InPackage(n)
    <2> DEFINE a == <<M!Task("import", ParentOf[n])>>
               b == <<M!Task("import", n)>>
    <2>1. /\ a \in Seq(TaskRecord) /\ b \in Seq(TaskRecord)
          /\ \A k \in DOMAIN a : ~M!Running(a[k])
          /\ \A k \in DOMAIN b : ~M!Running(b[k])
      BY <1>1, <1>2
    <2>2. M!Loads(n) = a \o b
      BY <1>2 DEF M!Loads
    <2> HIDE DEF a, b
    <2> QED
      BY <2>1, <2>2, NotRunning
  <1>3. CASE ~M!InPackage(n)
    <2>1. M!Loads(n) = <<M!Task("import", n)>>
      BY <1>3 DEF M!Loads
    <2> QED
      BY <1>1, <2>1
  <1> QED
    BY <1>2, <1>3

LEMMA FirstBody ==
  ASSUME ImportsInv, NEW t \in ThreadId, running[t] # <<>>
  PROVE  LET task == running[t][1]
             s2 == [running EXCEPT ![t] = Tail(running[t])]
         IN  /\ task \in TaskRecord /\ task \in Bodies(running) /\ M!Running(task)
             /\ Obj(task) \in DOMAIN objects
             /\ OwnerOf(objects, Obj(task)) # M!Nothing =>
                  OwnerOf(objects, Obj(task)) \in DOMAIN objects
             /\ ByName(task) => ~Holds(task)
             /\ s2 \in Stacks /\ Once(s2) /\ Bodies(s2) = Bodies(running) \ {task}
             /\ Tail(running[t]) \in Seq(TaskRecord)
  <1> DEFINE task == running[t][1]
             s2 == [running EXCEPT ![t] = Tail(running[t])]
  <1>1. M!Running(task)
    BY DEF ImportsInv, HeadsRun
  <1>2. task \in Bodies(running) /\ s2 \in Stacks /\ Once(s2) /\ Bodies(s2) = Bodies(running) \ {task}
    BY <1>1, EndedBodies DEF ImportsInv, Types
  <1>3. task \in TaskRecord
    BY <1>2 DEF Bodies
  <1>4. Tail(running[t]) \in Seq(TaskRecord)
    BY DEF ImportsInv, Types, Stacks
  <1> HIDE DEF task, s2
  <1>5. Obj(task) \in DOMAIN objects
        /\ (OwnerOf(objects, Obj(task)) # M!Nothing =>
              OwnerOf(objects, Obj(task)) \in DOMAIN objects)
    BY <1>2 DEF ImportsInv, Sound, BodiesRun, Typed
  <1>6. ByName(task) => ~Holds(task)
    BY DEF ByName, Holds
  <1> QED
    BY <1>1, <1>2, <1>3, <1>4, <1>5, <1>6 DEF task, s2

(* The thread goes on with tasks of which these bodies run. *)
LEMMA GoOnKeeps ==
  ASSUME Types, ParentsAreModules, HeadsRun(running),
         NEW t \in ThreadId, NEW tasks \in Seq(TaskRecord), NEW objs \in Seq(ModuleRecord),
         Once([running EXCEPT ![t] = tasks]),
         Sound(cached, objs, Bodies([running EXCEPT ![t] = tasks])),
         M!GoOn(t, tasks, objs)
  PROVE  ImportsInv'
  <1> DEFINE left == M!Left(tasks)
             s1 == [running EXCEPT ![t] = tasks]
             s2 == [running EXCEPT ![t] = left]
             B == Bodies(s1)
  <1>1. left \in Seq(TaskRecord) /\ SameBodies(tasks, left)
        /\ (left # <<>> => M!Running(left[1]) \/ M!Needed(left[1]))
    BY LeftBodies
  <1>2. s1 \in Stacks /\ s1[t] = tasks /\ s2 = [s1 EXCEPT ![t] = left] /\ s2[t] = left
        /\ \A u \in ThreadId : u # t => s2[u] = running[u]
    BY <1>1 DEF Types, Stacks
  <1> HIDE DEF left, s1, s2
  <1>3. s2 \in Stacks /\ Bodies(s2) = B /\ Once(s2) /\ Sound(cached, objs, B)
    BY <1>1, <1>2, SameBodiesKeep DEF s1
  <1>4. CASE objects' = objs /\ running' = s2 /\ cached' = cached /\ (left # <<>> => M!Running(left[1]))
    <2>1. HeadsRun(s2)
      BY <1>2, <1>4 DEF HeadsRun
    <2> QED
      BY <1>3, <1>4, <2>1 DEF ImportsInv, Types
  <1>5. CASE left # <<>> /\ ~M!Running(left[1]) /\ M!Begin(t, left, objs)
    <2> DEFINE n == left[1].name
               owner == M!Owner(n)
               task == [left[1] EXCEPT !.obj = Len(objs) + 1,
                          !.quiet = (owner # M!Nothing /\ objs[owner].initializing)]
    <2>1. left[1] \in TaskRecord /\ n \in Modules
      <3>1. left[1] \in TaskRecord
        BY <1>1, <1>5
      <3> QED
        BY <3>1 DEF TaskRecord
    <2>2. cached[n] = M!Nothing
      BY <1>1, <1>5 DEF M!Needed, M!IsThere, M!InSysModules
    <2>3. owner \in Nat /\ (owner # M!Nothing => owner \in DOMAIN objs)
      <3>1. M!InPackage(n) => ParentOf[n] \in Modules
        BY <2>1 DEF M!InPackage, ParentsAreModules
      <3> QED
        BY <1>3, <3>1 DEF M!Owner, Types, Sound, Typed, M!Nothing
    <2>4. /\ cached' = [cached EXCEPT ![n] = Len(objs) + 1]
          /\ objects' = Begun(objs, n, owner, task)
          /\ running' = [running EXCEPT ![t] = <<task>> \o Tail(left)]
      BY <1>5 DEF M!Begin, Begun, NewModule
    <2>5. /\ task \in TaskRecord /\ task.obj = Len(objs) + 1 /\ task.name = n
          /\ task.quiet = (owner # M!Nothing /\ objs[owner].initializing)
          /\ task.kind = left[1].kind
      <3>1. owner # M!Nothing => objs[owner].initializing \in BOOLEAN
        <4> SUFFICES ASSUME owner # M!Nothing PROVE objs[owner].initializing \in BOOLEAN
          OBVIOUS
        <4> HIDE DEF owner
        <4>1. objs[owner] \in ModuleRecord
          BY <2>3
        <4> QED
          BY <4>1 DEF ModuleRecord
      <3>2. (owner # M!Nothing /\ objs[owner].initializing) \in BOOLEAN
        BY <3>1
      <3>3. Len(objs) + 1 \in Nat
        OBVIOUS
      <3> DEFINE quiet == owner # M!Nothing /\ objs[owner].initializing
                 id == Len(objs) + 1
      <3> HIDE DEF quiet, id, owner
      <3> QED
        BY <2>1, <3>2, <3>3 DEF TaskRecord, quiet, id
    <2> HIDE DEF n, owner, task
    <2>6. Started(objs, objects', n, owner, task)
      BY <2>1, <2>3, <2>4, <2>5, BegunFields DEF n
    <2>7. M!Running(task) /\ Obj(task) = task.obj /\ NameIn(task) = n
          /\ (ByName(task) => ~Holds(task))
          /\ (Holds(task) => owner = M!Nothing \/ ~Partial(objs, owner))
      <3>1. Len(objs) + 1 # M!Nothing
        BY DEF M!Nothing
      <3> QED
        BY <2>5, <3>1 DEF M!Running, Obj, NameIn, ByName, Holds, Partial
    <2>8. \A b \in B : b.obj # task.obj
      BY <1>3, <2>6, <2>7 DEF Sound, BodiesRun, Started, Obj
    <2>9. running' = [s2 EXCEPT ![t] = <<task>> \o Tail(s2[t])]
      BY <1>2, <2>4 DEF s2, Types, Stacks
    <2>10. /\ running' \in Stacks /\ Bodies(running') = B \cup {task} /\ Once(running')
           /\ running'[t][1] = task
      <3>1. s2[t] # <<>> /\ ~M!Running(s2[t][1]) /\ \A b \in Bodies(s2) : b.obj # task.obj
        BY <1>2, <1>3, <1>5, <2>8
      <3>2. s2 \in Stacks /\ Once(s2) /\ task \in TaskRecord /\ M!Running(task)
        BY <1>3, <2>5, <2>7
      <3> DEFINE r == [s2 EXCEPT ![t] = <<task>> \o Tail(s2[t])]
      <3>3. r \in Stacks /\ Bodies(r) = Bodies(s2) \cup {task} /\ Once(r) /\ r[t][1] = task
        BY <3>1, <3>2, BegunBodies
      <3> HIDE DEF r
      <3>4. running' = r
        BY <2>9 DEF r
      <3> QED
        BY <1>3, <3>3, <3>4
    <2>11. HeadsRun(running')
      <3>1. \A u \in ThreadId : u # t => running'[u] = running[u]
        BY <2>4 DEF Types, Stacks
      <3> QED
        BY <2>7, <2>10, <3>1 DEF HeadsRun
    <2>12. Sound(cached', objects', B \cup {task})
      <3>1. cached'[n] = Obj(task) /\ \A m \in Modules : m # n => cached'[m] = cached[m]
        BY <2>1, <2>4, <2>5, <2>7 DEF Types, n
      <3> QED
        BY <1>3, <2>1, <2>2, <2>3, <2>6, <2>7, <3>1, BeginSound DEF n
    <2>13. Types'
      <3>1. cached' \in [Modules -> Nat]
        BY <2>1, <2>4 DEF Types, n
      <3> QED
        BY <2>6, <2>10, <3>1 DEF Types, Started
    <2> QED
      BY <2>10, <2>11, <2>12, <2>13 DEF ImportsInv
  <1> QED
    BY <1>4, <1>5 DEF M!GoOn, left, s2

(* An import statement adds tasks. *)
LEMMA ImportKeeps ==
  ASSUME ImportsInv, ParentsAreModules, NEW t \in ThreadId, NEW front \in Seq(TaskRecord),
         \A n \in DOMAIN front : ~M!Running(front[n]),
         M!GoOn(t, front \o running[t], objects)
  PROVE  ImportsInv'
  <1>1. running \in Stacks /\ running[t] \in Seq(TaskRecord) /\ objects \in Seq(ModuleRecord)
    BY DEF ImportsInv, Types, Stacks
  <1>2. front \o running[t] \in Seq(TaskRecord) /\ SameBodies(running[t], front \o running[t])
    BY <1>1, PrependedBodies
  <1> DEFINE tasks == front \o running[t]
  <1>3. M!GoOn(t, tasks, objects)
    OBVIOUS
  <1> HIDE DEF tasks
  <1>4. Bodies([running EXCEPT ![t] = tasks]) = Bodies(running) /\ Once([running EXCEPT ![t] = tasks])
    BY <1>1, <1>2, SameBodiesKeep DEF tasks, ImportsInv
  <1> QED
    BY <1>1, <1>2, <1>3, <1>4, GoOnKeeps DEF tasks, ImportsInv

LEMMA ReturnKeeps ==
  ASSUME ImportsInv, ParentsAreModules, M!BodyReturns
  PROVE  ImportsInv'
  <1>1. PICK t \in ThreadId :
          running[t] # <<>> /\ M!GoOn(t, Tail(running[t]), Returned(objects, running[t][1]))
    BY DEF M!BodyReturns, Returned
  <1> DEFINE task == running[t][1]
             s2 == [running EXCEPT ![t] = Tail(running[t])]
             objs == Returned(objects, task)
  <1>2. /\ task \in TaskRecord /\ task \in Bodies(running) /\ Obj(task) \in DOMAIN objects
        /\ OwnerOf(objects, Obj(task)) # M!Nothing =>
             OwnerOf(objects, Obj(task)) \in DOMAIN objects
        /\ ByName(task) => ~Holds(task)
        /\ s2 \in Stacks /\ Once(s2) /\ Bodies(s2) = Bodies(running) \ {task}
        /\ Tail(running[t]) \in Seq(TaskRecord)
    BY <1>1, FirstBody
  <1> HIDE DEF task
  <1>3. Ended(objects, objs, task, "done", ByName(task), Obj(task))
    BY <1>2, ReturnedFields DEF ImportsInv, Types
  <1> HIDE DEF objs
  <1>4. Sound(cached, objs, Bodies(running) \ {task})
    BY <1>2, <1>3, ReturnSound DEF ImportsInv
  <1>5. objs \in Seq(ModuleRecord)
    BY <1>3 DEF Ended
  <1> QED
    BY <1>1, <1>2, <1>4, <1>5, GoOnKeeps DEF ImportsInv, task, objs

LEMMA RaiseKeeps ==
  ASSUME ImportsInv, ParentsAreModules, M!BodyRaises
  PROVE  ImportsInv'
  <1> DEFINE Innermost(t) == LET bodies == {n \in 2..Len(running[t]) : M!Running(running[t][n])}
                                 next == CHOOSE n \in bodies : \A m \in bodies : n <= m
                             IN IF bodies = {} THEN <<>>
                                ELSE SubSeq(running[t], next, Len(running[t]))
  <1>1. PICK t \in ThreadId :
          /\ running[t] # <<>>
          /\ cached' = M!Uncached(running[t][1].name)
          /\ objects' = Raised(objects, running[t][1])
          /\ running' = [running EXCEPT ![t] = Innermost(t)]
    BY DEF M!BodyRaises, Raised
  <1> DEFINE task == running[t][1]
             s2 == [running EXCEPT ![t] = Tail(running[t])]
             rest == Innermost(t)
  <1>2. /\ task \in TaskRecord /\ task \in Bodies(running) /\ Obj(task) \in DOMAIN objects
        /\ OwnerOf(objects, Obj(task)) # M!Nothing =>
             OwnerOf(objects, Obj(task)) \in DOMAIN objects
        /\ ByName(task) => ~Holds(task)
        /\ s2 \in Stacks /\ Once(s2) /\ Bodies(s2) = Bodies(running) \ {task}
        /\ Tail(running[t]) \in Seq(TaskRecord)
    BY <1>1, FirstBody
  <1>3. /\ rest \in Seq(TaskRecord) /\ SameBodies(Tail(running[t]), rest)
        /\ rest # <<>> => M!Running(rest[1])
    <2> DEFINE a == running[t]
               b == Tail(a)
               bodies == {n \in 2..Len(a) : M!Running(a[n])}
               next == CHOOSE n \in bodies : \A m \in bodies : n <= m
    <2>1. a \in Seq(TaskRecord) /\ Len(a) \in Nat /\ Len(a) > 0
      BY <1>1 DEF ImportsInv, Types, Stacks
    <2>2. /\ b \in Seq(TaskRecord) /\ Len(b) = Len(a) - 1 /\ DOMAIN b = 1..(Len(a) - 1)
          /\ \A k \in 1..(Len(a) - 1) : b[k] = a[k + 1]
      BY <2>1
    <2>3. rest = IF bodies = {} THEN <<>> ELSE SubSeq(a, next, Len(a))
      OBVIOUS
    <2> HIDE DEF a, b, rest, Innermost
    <2>4. CASE bodies = {}
      <3>1. \A k \in DOMAIN b : ~M!Running(b[k])
        <4> SUFFICES ASSUME NEW k \in DOMAIN b, M!Running(b[k])
                     PROVE  FALSE
          OBVIOUS
        <4>1. k + 1 \in 2..Len(a) /\ b[k] = a[k + 1]
          BY <2>1, <2>2
        <4> QED
          BY <2>4, <4>1
      <3>2. rest = <<>> /\ SameBodies(b, <<>>)
        BY <2>2, <2>3, <2>4, <3>1, NoBodies
      <3> QED
        BY <3>2 DEF b, a
    <2>5. CASE bodies # {}
      <3>1. bodies \in SUBSET Nat
        BY <2>1
      <3>2. next \in bodies /\ \A m \in bodies : next <= m
        <4> HIDE DEF bodies
        <4> QED
          BY <2>5, <3>1, FirstOf
      <3> HIDE DEF next
      <3>3. next - 1 \in 1..Len(b) /\ next \in 2..Len(a) /\ M!Running(a[next])
        BY <2>1, <2>2, <3>2
      <3>4. \A k \in 1..(next - 1 - 1) : ~M!Running(b[k])
        <4> SUFFICES ASSUME NEW k \in 1..(next - 1 - 1), M!Running(b[k])
                     PROVE  FALSE
          OBVIOUS
        <4>1. k + 1 \in 2..Len(a) /\ b[k] = a[k + 1] /\ k + 1 < next
          BY <2>1, <2>2, <3>3
        <4>2. k + 1 \in bodies
          BY <4>1
        <4> QED
          BY <3>2, <3>3, <4>1, <4>2
      <3>5. SubSeq(b, next - 1, Len(b)) = SubSeq(a, next, Len(a))
        <4> DEFINE x == SubSeq(b, next - 1, Len(b))
                   y == SubSeq(a, next, Len(a))
        <4>1. /\ x \in Seq(TaskRecord) /\ Len(x) = Len(b) - next + 2
              /\ \A k \in 1..Len(x) : x[k] = b[k + next - 2]
          BY <2>1, <2>2, <3>3, SMTT(20)
        <4>2. /\ y \in Seq(TaskRecord) /\ Len(y) = Len(a) - next + 1
              /\ \A k \in 1..Len(y) : y[k] = a[k + next - 1]
          BY <2>1, <3>3
        <4> HIDE DEF x, y
        <4>4. Len(x) = Len(y)
          BY <2>1, <2>2, <3>3, <4>1, <4>2
        <4>3. ASSUME NEW k \in 1..Len(x)
              PROVE  x[k] = y[k]
          <5>1. k + next - 2 \in 1..(Len(a) - 1) /\ (k + next - 2) + 1 = k + next - 1
            BY <2>1, <2>2, <3>3, <4>1
          <5>2. b[k + next - 2] = a[(k + next - 2) + 1]
            BY <2>2, <5>1
          <5>3. x[k] = b[k + next - 2] /\ y[k] = a[k + next - 1]
            BY <4>1, <4>2, <4>4
          <5> QED
            BY <5>1, <5>2, <5>3
        <4>5. x = y
          BY <4>1, <4>2, <4>3, <4>4, SeqEqual
        <4> QED
          BY <4>5 DEF x, y
      <3> DEFINE k == next - 1
      <3>6. k \in 1..Len(b) /\ \A n \in 1..(k - 1) : ~M!Running(b[n])
        BY <3>3, <3>4
      <3>7. b[k] = a[next]
        BY <2>1, <2>2, <3>3
      <3> HIDE DEF k
      <3>8. /\ SubSeq(b, k, Len(b)) \in Seq(TaskRecord) /\ SameBodies(b, SubSeq(b, k, Len(b)))
            /\ SubSeq(b, k, Len(b))[1] = b[k]
        BY <2>2, <3>6, DroppedBodies
      <3>9. rest = SubSeq(b, k, Len(b))
        BY <2>3, <2>5, <3>5 DEF k
      <3> QED
        BY <3>3, <3>7, <3>8, <3>9 DEF b, a
    <2> QED
      BY <2>4, <2>5
  <1>4. task.name = NameIn(task) /\ NameIn(task) \in Modules
    BY <1>2 DEF NameIn, TaskRecord
  <1> HIDE DEF task, rest, Innermost
  <1>5. Ended(objects, objects', task, "failed", ~ByName(task), M!Nothing)
    BY <1>1, <1>2, RaisedFields DEF ImportsInv, Types, task
  <1>6. /\ cached' \in [Modules -> Nat] /\ cached'[NameIn(task)] = M!Nothing
        /\ \A m \in Modules : m # NameIn(task) => cached'[m] = cached[m]
    BY <1>1, <1>4 DEF M!Uncached, ImportsInv, Types, M!Nothing, task
  <1>7. Sound(cached', objects', Bodies(running) \ {task})
    BY <1>2, <1>5, <1>6, RaiseSound DEF ImportsInv
  <1>8. running' = [s2 EXCEPT ![t] = rest] /\ s2[t] = Tail(running[t])
    BY <1>1 DEF rest, ImportsInv, Types, Stacks
  <1> HIDE DEF s2
  <1>9. running' \in Stacks /\ Bodies(running') = Bodies(s2) /\ Once(running')
    BY <1>2, <1>3, <1>8, SameBodiesKeep
  <1>10. HeadsRun(running')
    <2>1. running'[t] = rest /\ \A u \in ThreadId : u # t => running'[u] = running[u]
      BY <1>1 DEF rest, ImportsInv, Types, Stacks
    <2> QED
      BY <1>3, <2>1 DEF ImportsInv, HeadsRun
  <1> QED
    BY <1>2, <1>5, <1>6, <1>7, <1>9, <1>10 DEF ImportsInv, Types, Ended

LEMMA ImportsKeep ==
  ASSUME ImportsInv, ParentsAreModules, [M!Next]_M!vars
  PROVE  ImportsInv'
  <1>1. CASE M!ImportModule
    <2>1. PICK t \in ThreadId, n \in Modules : M!GoOn(t, M!Loads(n) \o running[t], objects)
      BY <1>1 DEF M!ImportModule
    <2> QED
      BY <2>1, LoadsAreTasks, ImportKeeps
  <1>2. CASE M!ImportFrom
    <2>1. PICK t \in ThreadId, n \in Modules :
            /\ M!InPackage(n)
            /\ M!GoOn(t, M!Loads(ParentOf[n]) \o <<M!Task("from", n)>> \o running[t], objects)
      BY <1>2 DEF M!ImportFrom
    <2>2. ParentOf[n] \in Modules
      BY <2>1 DEF M!InPackage, ParentsAreModules
    <2> DEFINE a == M!Loads(ParentOf[n])
               b == <<M!Task("from", n)>>
    <2>3. a \in Seq(TaskRecord) /\ \A k \in DOMAIN a : ~M!Running(a[k])
      BY <2>2, LoadsAreTasks
    <2>4. b \in Seq(TaskRecord) /\ Len(b) = 1 /\ ~M!Running(b[1])
      BY DEF M!Task, TaskRecord, M!Running, M!Nothing
    <2> HIDE DEF a, b
    <2>5. a \o b \in Seq(TaskRecord) /\ \A k \in DOMAIN (a \o b) : ~M!Running((a \o b)[k])
      BY <2>3, <2>4, NotRunning
    <2>6. M!GoOn(t, (a \o b) \o running[t], objects)
      BY <2>1 DEF a, b
    <2> DEFINE f == a \o b
    <2> HIDE DEF f
    <2> QED
      BY <2>5, <2>6, ImportKeeps DEF f
  <1>3. CASE M!ImportRelative
    <2>1. PICK t \in ThreadId, n \in Modules :
            M!GoOn(t, <<M!Task("relative", n)>> \o running[t], objects)
      BY <1>3 DEF M!ImportRelative
    <2>2. /\ <<M!Task("relative", n)>> \in Seq(TaskRecord)
          /\ \A k \in DOMAIN <<M!Task("relative", n)>> : ~M!Running(<<M!Task("relative", n)>>[k])
      BY DEF M!Task, TaskRecord, M!Running, M!Nothing
    <2> QED
      BY <2>1, <2>2, ImportKeeps
  <1>4. CASE M!BodyReturns
    BY <1>4, ReturnKeeps
  <1>5. CASE M!BodyRaises
    BY <1>5, RaiseKeeps
  <1>6. CASE UNCHANGED M!vars
    <2>1. cached' = cached /\ objects' = objects /\ running' = running
      BY <1>6 DEF M!vars
    <2> QED
      BY <2>1 DEF ImportsInv, Types
  <1> QED
    BY <1>1, <1>2, <1>3, <1>4, <1>5, <1>6 DEF M!Next

LEMMA ImportsStart == M!Init => ImportsInv
  <1> SUFFICES ASSUME M!Init PROVE ImportsInv
    OBVIOUS
  <1>1. Types
    BY DEF M!Init, Types, Stacks, M!Nothing
  <1>2. Once(running) /\ HeadsRun(running) /\ Bodies(running) = {}
    BY DEF M!Init, Once, HeadsRun, Bodies
  <1>3. DOMAIN objects = {} /\ \A n \in Modules : cached[n] = M!Nothing
    BY DEF M!Init
  <1>4. Sound(cached, objects, {})
    BY <1>3 DEF Sound, Typed, Cached, BodiesRun, Attributes, Initializing
  <1> QED
    BY <1>1, <1>2, <1>4 DEF ImportsInv

LEMMA ImportsSuffice == ImportsInv => M!ModulesRunOnce
  <1> SUFFICES ASSUME ImportsInv PROVE M!ModulesRunOnce
    OBVIOUS
  <1> DEFINE c == cached
             o == objects
             B == Bodies(running)
  <1>1. Typed(c, o) /\ Cached(c, o) /\ BodiesRun(o, B) /\ Attributes(o, B) /\ Initializing(o, B)
    BY DEF ImportsInv, Sound
  <1>2. \A b \in B : \E t \in ThreadId : \E n \in DOMAIN running[t] : running[t][n] = b
    BY DEF Bodies
  <1>3. \A t \in ThreadId : \A n \in DOMAIN running[t] :
          M!Running(running[t][n]) => running[t][n] \in B
    BY DEF ImportsInv, Types, Stacks, Bodies
  <1> HIDE DEF c, o, B
  <1>4. M!CachedHaveRun
    <2>1. \A n \in Modules : cached[n] # M!Nothing =>
            objects[cached[n]].status \in {"running", "done"}
      <3> SUFFICES ASSUME NEW n \in Modules, cached[n] # M!Nothing
                   PROVE  objects[cached[n]].status \in {"running", "done"}
        OBVIOUS
      <3>1. cached[n] \in DOMAIN objects /\ Status(objects, cached[n]) # "failed"
        BY <1>1 DEF Typed, Cached, c, o
      <3>2. objects[cached[n]] \in ModuleRecord
        BY <3>1 DEF ImportsInv, Types
      <3> QED
        BY <3>1, <3>2 DEF ModuleRecord, Status
    <2>2. \A id \in M!Object : objects[id].status = "running" => cached[objects[id].name] = id
      BY <1>1 DEF Cached, M!Object, Status, Name, c, o
    <2>3. ASSUME NEW id \in M!Object
          PROVE  objects[id].status = "running" <=>
                   \E t \in ThreadId : \E n \in DOMAIN running[t] : running[t][n].obj = id
      <3>1. ASSUME objects[id].status = "running"
            PROVE  \E t \in ThreadId : \E n \in DOMAIN running[t] : running[t][n].obj = id
        <4>1. PICK b \in B : Obj(b) = id
          BY <1>1, <3>1 DEF BodiesRun, Status, M!Object, o
        <4> QED
          BY <1>2, <4>1 DEF Obj
      <3>2. ASSUME NEW t \in ThreadId, NEW n \in DOMAIN running[t], running[t][n].obj = id
            PROVE  objects[id].status = "running"
        <4>1. id # M!Nothing
          BY <1>1 DEF Typed, M!Object, o
        <4>2. running[t][n] \in B
          BY <1>3, <3>2, <4>1 DEF M!Running
        <4> QED
          BY <1>1, <3>2, <4>2 DEF BodiesRun, Status, Obj, o
      <3> QED
        BY <3>1, <3>2
    <2> QED
      BY <2>1, <2>2, <2>3 DEF M!CachedHaveRun, ImportsInv, Once
  <1>5. M!PackagesHaveModules
    BY <1>1 DEF M!PackagesHaveModules, Attributes, M!Object, Status, Name, OwnerOf, Attr, o
  <1>6. M!InitializingRun
    <2>1. \A id \in DOMAIN objects : objects[id].status = "running" => objects[id].initializing
      BY <1>1 DEF Initializing, Status, Partial, o
    <2>2. ASSUME NEW id \in DOMAIN objects, objects[id].initializing,
                 objects[id].status # "running"
          PROVE  \E m \in M!Object : objects[m].status = "running" /\ objects[m].owner = id
      <3>1. PICK b \in B : OwnerOf(o, Obj(b)) = id
        BY <1>1, <2>2 DEF Initializing, Status, Partial, o
      <3>2. Obj(b) \in DOMAIN o /\ Status(o, Obj(b)) = "running"
        BY <1>1 DEF BodiesRun
      <3> QED
        BY <3>1, <3>2 DEF M!Object, Status, OwnerOf, o
    <2> QED
      BY <2>1, <2>2 DEF M!InitializingRun, M!Object
  <1> QED
    BY <1>4, <1>5, <1>6 DEF M!ModulesRunOnce

(* Whatever statements import modules of packages, in whatever threads,    *)
(* with bodies that suspend or raise, no module runs twice at a time, what *)
(* is imported has run or is running, packages have the modules that have  *)
(* run and none that failed, and "partially initialized" is said only of   *)
(* what is.                                                                *)
THEOREM ModulesAlwaysRunOnce == M!Spec => []ModulesRunOnce
  <1>0. ParentsAreModules
    BY ProgramAssumption
  <1>1. ImportsInv /\ [M!Next]_M!vars => ImportsInv'
    BY <1>0, ImportsKeep
  <1> QED
    BY <1>1, ImportsStart, ImportsSuffice, PTL DEF M!Spec, ModulesRunOnce

-----------------------------------------------------------------------------
(* Generators (Generators).                                                *)

(* The operators on body, for the provers: b is body. *)
Behind(b, g) == 1 + CHOOSE i \in DOMAIN b[g] : b[g][i] = "end"
Tried(b, g, pc) == /\ \E i \in 1..(pc - 1) : b[g][i] = "try"
                   /\ \E i \in (pc + 1)..Len(b[g]) : b[g][i] = "end"
Gave(b, g, pc) == \E i \in 1..pc : Tried(b, g, i) /\ b[g][i] \in {"yield", "from"}
Stands(b, g, pc, statement) == pc \in DOMAIN b[g] /\ b[g][pc] = statement

FrameRecord(b) ==
  [gen : DOMAIN b, pc : Nat \ {0}, exc : Seq(Nat), due : Nat, canSuspend : BOOLEAN]
Entry == [pc : Nat \ {0}, got : Nat, due : Nat, raised : {"nothing", "caught", "uncaught"}]

-----------------------------------------------------------------------------
(* Traces.                                                                 *)
(* A statement at p may be what ends next, after e, *)
After(b, g, e, p) ==
  e.pc <= Len(b[g]) => IF e.raised = "nothing" THEN p = e.pc + 1
                       ELSE e.raised = "caught" /\ p = Behind(b, g)
(* after the trace s. *)
Follows(b, g, s, p) == /\ s = <<>> => p = 1
                       /\ s # <<>> => After(b, g, s[Len(s)], p)

EntryFits(b, g, e) ==
  /\ e.due # Y!Begun => e.got = e.due
  /\ (e.raised = "uncaught" /\ Tried(b, g, e.pc)) => Gave(b, g, e.pc)

Good(b, g, s) ==
  /\ s \in Seq(Entry)
  /\ \A i \in 1..Len(s) : EntryFits(b, g, s[i])
  /\ \A i \in 1..Len(s) : i = 1 => s[i].pc = 1
  /\ \A i \in 1..Len(s) : i # 1 => After(b, g, s[i - 1], s[i].pc)

LEMMA Logged ==
  ASSUME NEW b, NEW g, NEW s, NEW e \in Entry,
         Good(b, g, s), EntryFits(b, g, e), Follows(b, g, s, e.pc)
  PROVE  /\ Good(b, g, Append(s, e))
         /\ \A p : After(b, g, e, p) => Follows(b, g, Append(s, e), p)
  <1> DEFINE r == Append(s, e)
             n == Len(s)
  <1>1. s \in Seq(Entry) /\ n \in Nat
    BY DEF Good
  <1>2. /\ r \in Seq(Entry) /\ Len(r) = n + 1 /\ r # <<>>
        /\ r[n + 1] = e /\ \A i \in 1..n : r[i] = s[i]
    BY <1>1
  <1> HIDE DEF r
  <1>3. \A i \in 1..(n + 1) : EntryFits(b, g, r[i])
    BY <1>1, <1>2 DEF Good
  <1>4. \A i \in 1..(n + 1) : i = 1 => r[i].pc = 1
    <2> SUFFICES r[1].pc = 1
      BY <1>1
    <2>1. CASE n = 0
      BY <1>1, <1>2, <2>1 DEF Follows
    <2>2. CASE n # 0
      BY <1>1, <1>2, <2>2 DEF Good
    <2> QED
      BY <2>1, <2>2
  <1>5. ASSUME NEW i \in 1..(n + 1), i # 1
        PROVE  After(b, g, r[i - 1], r[i].pc)
    <2>1. CASE i = n + 1
      <3>1. n \in 1..n /\ r[i - 1] = s[n] /\ r[i] = e /\ s # <<>>
        BY <1>1, <1>2, <1>5, <2>1
      <3> QED
        BY <3>1 DEF Follows
    <2>2. CASE i # n + 1
      <3>1. i \in 1..n /\ i - 1 \in 1..n
        BY <1>1, <1>5, <2>2
      <3> QED
        BY <1>2, <1>5, <3>1 DEF Good
    <2> QED
      BY <2>1, <2>2
  <1> QED
    BY <1>1, <1>2, <1>3, <1>4, <1>5 DEF Good, Follows, r

-----------------------------------------------------------------------------
(* The invariant.  r, v and s are gi$resumeAt, gi$sentvalue and the trace  *)
(* of the generator of the frame f.                                        *)
Guarded(b, f) ==
  \/ f.exc = <<>> /\ (Tried(b, f.gen, f.pc) => Gave(b, f.gen, f.pc))
  \/ /\ f.exc = <<Behind(b, f.gen)>>
     /\ \E i \in 1..(f.pc - 1) : Stands(b, f.gen, i, "try")
     /\ \E i \in DOMAIN b[f.gen] : i >= f.pc /\ b[f.gen][i] = "end"

FrameFits(b, r, v, s, f) ==
  /\ f.pc >= r /\ (f.pc = r => f.due = v \/ f.due = Y!Begun)
  /\ Guarded(b, f)
  /\ Follows(b, f.gen, s, f.pc)

Left(b, g, r) == r # 0 => Stands(b, g, r, "yield") \/ Stands(b, g, r, "from")
Idle(b, g, r, s) == Follows(b, g, s, IF r = 0 THEN 1 ELSE r)

StackTypes(b, run, res, sent, frs, act, tr) ==
  /\ b \in GeneratorBodies
  /\ run \in [DOMAIN b -> BOOLEAN] /\ res \in [DOMAIN b -> Nat] /\ sent \in [DOMAIN b -> Nat]
  /\ frs \in [ThreadId -> Seq(FrameRecord(b))]
  /\ act \in ThreadId \cup {0}
  /\ DOMAIN tr = DOMAIN b

(* A stack s of a thread that runs, if on is TRUE, or is suspended.        *)
Stack(b, run, res, sent, tr, s, on) ==
  /\ \A k, m \in 1..Len(s) : s[k].gen = s[m].gen => k = m
  /\ \A k \in 1..Len(s) :
       /\ run[s[k].gen]
       /\ FrameFits(b, res[s[k].gen], sent[s[k].gen], tr[s[k].gen], s[k])
       /\ k < Len(s) => Stands(b, s[k].gen, s[k].pc, "from")
       /\ k = Len(s) /\ ~on => Stands(b, s[k].gen, s[k].pc, "wait")
  /\ on => s # <<>>

(* A generator, whether it is on a stack or not. *)
Kept(b, run, res, tr, g) == /\ Good(b, g, tr[g]) /\ Left(b, g, res[g])
                            /\ ~run[g] => Idle(b, g, res[g], tr[g])

Runs(s, g) == \E k \in 1..Len(s) : s[k].gen = g

Generating(b, run, res, sent, frs, act, tr) ==
  /\ StackTypes(b, run, res, sent, frs, act, tr)
  /\ \A t \in ThreadId : Stack(b, run, res, sent, tr, frs[t], t = act)
  /\ \A t, u \in ThreadId : \A g \in DOMAIN b : Runs(frs[t], g) /\ Runs(frs[u], g) => t = u
  /\ \A g \in DOMAIN b : Kept(b, run, res, tr, g)

GeneratorsInv == Generating(body, giRunning, giResumeAt, giSentValue, frames, active, trace)

(* What steps change, for the provers. *)
Unchanged(S, run, res, sent, tr, run2, res2, sent2, tr2) ==
  \A g \in S : /\ run2[g] = run[g] /\ res2[g] = res[g]
               /\ sent2[g] = sent[g] /\ tr2[g] = tr[g]
AllKept(S, b, run, res, tr) == \A g \in S : Kept(b, run, res, tr, g)
Only(s, Mine) == \A k \in 1..Len(s) : s[k].gen \in Mine
Free(Mine, s, run) == \A g \in Mine : Runs(s, g) \/ ~run[g]

(* A step changes the stack of one thread, and the generators on it.       *)
Changes(b, run, res, sent, frs, act, tr, t, s, Mine, on, run2, res2, sent2, act2, tr2, f) ==
  /\ Generating(b, run, res, sent, frs, act, tr) /\ 0 \notin ThreadId
  /\ t \in ThreadId /\ act \in {0, t} /\ act2 \in {0, t} /\ s \in Seq(FrameRecord(b))
  /\ StackTypes(b, run2, res2, sent2, frs, act2, tr2)
  /\ Free(Mine, frs[t], run) /\ Only(s, Mine)
  /\ Unchanged(DOMAIN b \ Mine, run, res, sent, tr, run2, res2, sent2, tr2)
  /\ on \in BOOLEAN /\ (on <=> act2 = t) /\ Stack(b, run2, res2, sent2, tr2, s, on)
  /\ AllKept(DOMAIN b \cap Mine, b, run2, res2, tr2) /\ f = [frs EXCEPT ![t] = s]

LEMMA StackStep ==
  ASSUME NEW b, NEW run, NEW res, NEW sent, NEW frs, NEW act, NEW tr, NEW t, NEW s, NEW Mine, NEW on,
         NEW run2, NEW res2, NEW sent2, NEW act2, NEW tr2, NEW f,
         Changes(b, run, res, sent, frs, act, tr, t, s, Mine, on, run2, res2, sent2, act2, tr2, f)
  PROVE  Generating(b, run2, res2, sent2, f, act2, tr2)
  <1>a. /\ Generating(b, run, res, sent, frs, act, tr) /\ 0 \notin ThreadId
        /\ t \in ThreadId /\ act \in {0, t} /\ act2 \in {0, t} /\ s \in Seq(FrameRecord(b))
        /\ StackTypes(b, run2, res2, sent2, frs, act2, tr2)
        /\ Free(Mine, frs[t], run) /\ Only(s, Mine)
        /\ Unchanged(DOMAIN b \ Mine, run, res, sent, tr, run2, res2, sent2, tr2)
        /\ on \in BOOLEAN /\ (on <=> act2 = t) /\ Stack(b, run2, res2, sent2, tr2, s, on)
        /\ AllKept(DOMAIN b \cap Mine, b, run2, res2, tr2) /\ f = [frs EXCEPT ![t] = s]
    BY DEF Changes
  <1> USE <1>a
  <1>1. /\ frs \in [ThreadId -> Seq(FrameRecord(b))]
        /\ \A u \in ThreadId : Stack(b, run, res, sent, tr, frs[u], u = act)
        /\ \A u, w \in ThreadId : \A g \in DOMAIN b : Runs(frs[u], g) /\ Runs(frs[w], g) => u = w
    BY DEF Generating, StackTypes
  <1>2. /\ f \in [ThreadId -> Seq(FrameRecord(b))] /\ f[t] = s
        /\ \A u \in ThreadId \ {t} : f[u] = frs[u]
    BY <1>1
  <1>0. /\ \A g \in Mine : Runs(frs[t], g) \/ ~run[g]
        /\ \A g \in DOMAIN b \ Mine : /\ run2[g] = run[g] /\ res2[g] = res[g]
                                      /\ sent2[g] = sent[g] /\ tr2[g] = tr[g]
        /\ \A k \in 1..Len(s) : s[k].gen \in Mine
        /\ \A g \in DOMAIN b \cap Mine : Kept(b, run2, res2, tr2, g)
    BY DEF Free, Only, Unchanged, AllKept
  <1>3. StackTypes(b, run2, res2, sent2, f, act2, tr2)
    BY <1>2 DEF StackTypes
  <1>4. ASSUME NEW u \in ThreadId \ {t}, NEW g \in DOMAIN b, Runs(frs[u], g)
        PROVE  g \notin Mine
    <2>1. ~Runs(frs[t], g)
      BY <1>1, <1>4
    <2>2. PICK k \in 1..Len(frs[u]) : frs[u][k].gen = g
      BY <1>4 DEF Runs
    <2>3. run[g]
      BY <1>1, <2>2 DEF Stack
    <2> QED
      BY <1>0, <2>1, <2>3
  <1>5. ASSUME NEW u \in ThreadId \ {t}
        PROVE  Stack(b, run2, res2, sent2, tr2, f[u], u = act2)
    <2> DEFINE q == frs[u]
    <2>1. q \in Seq(FrameRecord(b)) /\ Stack(b, run, res, sent, tr, q, u = act)
      BY <1>1
    <2>2. u # act /\ u # act2
      BY <1>5
    <2>3. \A k \in 1..Len(q) : q[k].gen \in DOMAIN b \ Mine
      <3> SUFFICES ASSUME NEW k \in 1..Len(q) PROVE q[k].gen \in DOMAIN b \ Mine
        OBVIOUS
      <3>1. q[k] \in FrameRecord(b)
        BY <2>1
      <3>2. Runs(frs[u], q[k].gen)
        BY DEF Runs
      <3> QED
        BY <1>4, <3>1, <3>2 DEF FrameRecord
    <2> HIDE DEF q
    <2>4. \A k \in 1..Len(q) :
            /\ run2[q[k].gen] = run[q[k].gen] /\ res2[q[k].gen] = res[q[k].gen]
            /\ sent2[q[k].gen] = sent[q[k].gen] /\ tr2[q[k].gen] = tr[q[k].gen]
      BY <1>0, <2>3
    <2>5. Stack(b, run2, res2, sent2, tr2, q, FALSE)
      BY <2>1, <2>2, <2>4 DEF Stack
    <2> QED
      BY <1>2, <2>2, <2>5 DEF q
  <1>6. ASSUME NEW u \in ThreadId, NEW w \in ThreadId, NEW g \in DOMAIN b, Runs(f[u], g), Runs(f[w], g)
        PROVE  u = w
    <2>1. Runs(s, g) => g \in Mine
      BY <1>0 DEF Runs
    <2>2. CASE u # t /\ w # t
      <3>1. Runs(frs[u], g) /\ Runs(frs[w], g)
        BY <1>2, <1>6, <2>2
      <3> QED
        BY <1>1, <3>1
    <2>3. CASE u = t /\ w # t
      BY <1>2, <1>4, <1>6, <2>1, <2>3
    <2>4. CASE u # t /\ w = t
      BY <1>2, <1>4, <1>6, <2>1, <2>4
    <2> QED
      BY <2>2, <2>3, <2>4
  <1>7. ASSUME NEW g \in DOMAIN b \ Mine
        PROVE  Kept(b, run2, res2, tr2, g)
    BY <1>0, <1>7 DEF Generating, Kept
  <1>8. \A u \in ThreadId : Stack(b, run2, res2, sent2, tr2, f[u], u = act2)
    <2>1. Stack(b, run2, res2, sent2, tr2, f[t], t = act2)
      BY <1>2 DEF Stack
    <2> QED
      BY <1>5, <2>1
  <1> QED
    BY <1>0, <1>3, <1>6, <1>7, <1>8 DEF Generating

-----------------------------------------------------------------------------
(* Handlers: $exc where the next statement is, *)
LEMMA GuardedNext ==
  ASSUME NEW b, NEW f \in FrameRecord(b), NEW q \in FrameRecord(b), SimpleBody(b[f.gen]),
         Guarded(b, f), NEW statement, Stands(b, f.gen, f.pc, statement),
         statement \notin {"try", "end"},
         q.gen = f.gen, q.pc = f.pc + 1, q.exc = f.exc
  PROVE  Guarded(b, q)
  <1> DEFINE w == b[f.gen]
             p == f.pc
  <1>1. /\ Len(w) \in Nat /\ DOMAIN w = 1..Len(w) /\ p \in 1..Len(w) /\ p \in Nat \ {0}
        /\ w[p] \notin {"try", "end"}
    BY DEF SimpleBody, Stands, FrameRecord
  <1> HIDE DEF w, p
  <1>2. CASE f.exc = <<>> /\ (Tried(b, f.gen, p) => Gave(b, f.gen, p))
    <2>1. Tried(b, f.gen, p + 1) => Tried(b, f.gen, p)
      <3> SUFFICES ASSUME Tried(b, f.gen, p + 1) PROVE Tried(b, f.gen, p)
        OBVIOUS
      <3>1. PICK i \in 1..p, j \in (p + 2)..Len(w) : w[i] = "try" /\ w[j] = "end"
        BY <1>1 DEF Tried, w
      <3>2. i \in 1..(p - 1) /\ j \in (p + 1)..Len(w)
        BY <1>1, <3>1
      <3> QED
        BY <3>1, <3>2 DEF Tried, w
    <2>2. Gave(b, f.gen, p) => Gave(b, f.gen, p + 1)
      BY <1>1 DEF Gave
    <2> QED
      BY <1>2, <2>1, <2>2 DEF Guarded, p
  <1>3. CASE /\ f.exc = <<Behind(b, f.gen)>>
             /\ \E i \in 1..(p - 1) : Stands(b, f.gen, i, "try")
             /\ \E i \in DOMAIN w : i >= p /\ w[i] = "end"
    <2>1. \E i \in 1..((p + 1) - 1) : Stands(b, f.gen, i, "try")
      BY <1>1, <1>3
    <2>2. \E i \in DOMAIN w : i >= p + 1 /\ w[i] = "end"
      BY <1>1, <1>3
    <2> QED
      BY <1>3, <2>1, <2>2 DEF Guarded, p, w
  <1> QED
    BY <1>2, <1>3 DEF Guarded, p, w

(* after a try, *)
LEMMA GuardedTry ==
  ASSUME NEW b, NEW f \in FrameRecord(b), NEW q \in FrameRecord(b), SimpleBody(b[f.gen]),
         Guarded(b, f), Stands(b, f.gen, f.pc, "try"),
         q.gen = f.gen, q.pc = f.pc + 1, q.exc = Append(f.exc, Behind(b, f.gen))
  PROVE  Guarded(b, q)
  <1> DEFINE w == b[f.gen]
             p == f.pc
  <1>1. /\ Len(w) \in Nat /\ DOMAIN w = 1..Len(w) /\ p \in 1..Len(w) /\ p \in Nat \ {0}
        /\ w[p] = "try"
    BY DEF SimpleBody, Stands, FrameRecord
  <1>2. f.exc = <<>>
    <2> SUFFICES ASSUME NEW i \in 1..(p - 1), Stands(b, f.gen, i, "try") PROVE FALSE
      BY DEF Guarded
    <2>1. i \in DOMAIN w /\ w[i] = "try" /\ i # p
      BY <1>1 DEF Stands
    <2> QED
      BY <1>1, <2>1 DEF SimpleBody
  <1>3. \E j \in DOMAIN w : j > p /\ w[j] = "end"
    BY <1>1 DEF SimpleBody
  <1> HIDE DEF w, p
  <1>4. \E i \in DOMAIN w : i >= p + 1 /\ w[i] = "end"
    BY <1>1, <1>3
  <1>5. p \in 1..((p + 1) - 1) /\ Stands(b, f.gen, p, "try")
    BY <1>1 DEF Stands, w
  <1>6. q.exc = <<Behind(b, f.gen)>>
    BY <1>2
  <1> QED
    BY <1>4, <1>5, <1>6 DEF Guarded, p, w

LEMMA OneEnd ==
  ASSUME NEW b, NEW g, SimpleBody(b[g]), NEW i \in DOMAIN b[g], b[g][i] = "end"
  PROVE  Behind(b, g) = i + 1 /\ i \in Nat /\ \A p \in Nat : p >= i => ~Tried(b, g, p)
  <1>1. DOMAIN b[g] = 1..Len(b[g]) /\ Len(b[g]) \in Nat
    BY DEF SimpleBody
  <1>2. \A j \in DOMAIN b[g] : b[g][j] = "end" => j = i
    BY DEF SimpleBody
  <1>3. Behind(b, g) = i + 1
    BY <1>1, <1>2 DEF Behind
  <1>4. ASSUME NEW p \in Nat, p >= i, NEW j \in (p + 1)..Len(b[g]), b[g][j] = "end"
        PROVE  FALSE
    <2>1. j \in DOMAIN b[g] /\ j # i
      BY <1>1, <1>4
    <2> QED
      BY <1>2, <1>4, <2>1
  <1> QED
    BY <1>1, <1>3, <1>4 DEF Tried

(* after the end of one, *)
LEMMA GuardedEnd ==
  ASSUME NEW b, NEW f \in FrameRecord(b), NEW q \in FrameRecord(b), SimpleBody(b[f.gen]),
         Guarded(b, f), Stands(b, f.gen, f.pc, "end"),
         q.gen = f.gen, q.pc = f.pc + 1, q.exc = IF f.exc = <<>> THEN <<>> ELSE Y!Front(f.exc)
  PROVE  Guarded(b, q)
  <1>1. f.pc \in DOMAIN b[f.gen] /\ b[f.gen][f.pc] = "end" /\ f.pc \in Nat
    BY DEF Stands, FrameRecord
  <1>2. ~Tried(b, f.gen, f.pc + 1)
    BY <1>1, OneEnd
  <1>3. q.exc = <<>>
    <2>1. f.exc = <<>> \/ f.exc = <<Behind(b, f.gen)>>
      BY DEF Guarded
    <2>2. CASE f.exc = <<Behind(b, f.gen)>>
      <3>1. SubSeq(<<Behind(b, f.gen)>>, 1, 0) = <<>>
        OBVIOUS
      <3> QED
        BY <2>2, <3>1 DEF Y!Front
    <2> QED
      BY <2>1, <2>2
  <1> QED
    BY <1>2, <1>3 DEF Guarded

(* where an exception is caught, *)
LEMMA GuardedHandler ==
  ASSUME NEW b, NEW f \in FrameRecord(b), NEW q \in FrameRecord(b), SimpleBody(b[f.gen]),
         Guarded(b, f), f.exc # <<>>,
         q.gen = f.gen, q.pc = Y!Last(f.exc), q.exc = Y!Front(f.exc)
  PROVE  Guarded(b, q) /\ q.pc = Behind(b, f.gen) /\ q.pc > f.pc
  <1>1. /\ f.exc = <<Behind(b, f.gen)>>
        /\ \E i \in DOMAIN b[f.gen] : i >= f.pc /\ b[f.gen][i] = "end"
    BY DEF Guarded
  <1>2. PICK i \in DOMAIN b[f.gen] : i >= f.pc /\ b[f.gen][i] = "end"
    BY <1>1
  <1>3. Behind(b, f.gen) = i + 1 /\ i \in Nat /\ \A p \in Nat : p >= i => ~Tried(b, f.gen, p)
    BY <1>2, OneEnd
  <1>4. q.exc = <<>> /\ q.pc = i + 1
    BY <1>1, <1>3 DEF Y!Front, Y!Last
  <1>5. f.pc \in Nat
    BY DEF FrameRecord
  <1> QED
    BY <1>2, <1>3, <1>4, <1>5 DEF Guarded

(* and where a body is entered. *)
LEMMA GuardedFresh ==
  ASSUME NEW b, NEW q \in FrameRecord(b), SimpleBody(b[q.gen]), q.exc = <<>>,
         NEW r \in Nat, Left(b, q.gen, r),
         q.pc = IF r # 0 /\ Stands(b, q.gen, r, "from") THEN r ELSE r + 1
  PROVE  Guarded(b, q)
  <1> DEFINE w == b[q.gen]
  <1> SUFFICES ASSUME Tried(b, q.gen, q.pc) PROVE Gave(b, q.gen, q.pc)
    BY DEF Guarded
  <1>1. Len(w) \in Nat /\ DOMAIN w = 1..Len(w)
    BY DEF SimpleBody
  <1>2. CASE r = 0
    BY <1>2 DEF Tried
  <1>3. CASE r # 0 /\ Stands(b, q.gen, r, "from")
    <2>1. q.pc = r /\ r \in 1..r /\ w[r] = "from"
      BY <1>3 DEF Stands
    <2> QED
      BY <2>1 DEF Gave
  <1>4. CASE r # 0 /\ ~Stands(b, q.gen, r, "from")
    <2>1. q.pc = r + 1 /\ r \in 1..(r + 1) /\ w[r] = "yield" /\ r \in 1..Len(w)
      BY <1>1, <1>4 DEF Left, Stands
    <2>2. PICK i \in 1..r, j \in (r + 2)..Len(w) : w[i] = "try" /\ w[j] = "end"
      BY <2>1 DEF Tried
    <2>3. i # r
      BY <2>1, <2>2
    <2> HIDE DEF w
    <2>4. i \in 1..(r - 1) /\ j \in (r + 1)..Len(w)
      BY <1>1, <2>1, <2>2, <2>3
    <2>5. Tried(b, q.gen, r)
      BY <2>2, <2>4 DEF Tried, w
    <2> QED
      BY <2>1, <2>5 DEF Gave, w
  <1> QED
    BY <1>2, <1>3, <1>4

-----------------------------------------------------------------------------
(* Stacks: the first m frames of s stay, and another one is put on them.   *)
MayStay(b, s, m) == m = Len(s) /\ m > 0 => Stands(b, s[m].gen, s[m].pc, "from")
StaysBelow(s, m, g, run, res, sent, tr, run2, res2, sent2, tr2) ==
  \A k \in 1..m : /\ s[k].gen # g
                  /\ run2[s[k].gen] = run[s[k].gen] /\ res2[s[k].gen] = res[s[k].gen]
                  /\ sent2[s[k].gen] = sent[s[k].gen] /\ tr2[s[k].gen] = tr[s[k].gen]
(* q instead of the frames from m on. *)
IsPushed(r, s, m, q) ==
  Len(r) = m + 1 /\ r[m + 1] = q /\ \A k \in 1..m : r[k] = s[k]

LEMMA Pushed ==
  ASSUME NEW b, NEW run, NEW res, NEW sent, NEW tr, NEW s \in Seq(FrameRecord(b)), NEW on,
         Stack(b, run, res, sent, tr, s, on),
         NEW m \in 0..Len(s), MayStay(b, s, m),
         NEW run2, NEW res2, NEW sent2, NEW tr2, NEW q \in FrameRecord(b), run2[q.gen],
         FrameFits(b, res2[q.gen], sent2[q.gen], tr2[q.gen], q),
         StaysBelow(s, m, q.gen, run, res, sent, tr, run2, res2, sent2, tr2),
         NEW r, r = Append(SubSeq(s, 1, m), q)
  PROVE  /\ r \in Seq(FrameRecord(b)) /\ IsPushed(r, s, m, q)
         /\ Stack(b, run2, res2, sent2, tr2, r, TRUE)
  <1>0. /\ m = Len(s) /\ m > 0 => Stands(b, s[m].gen, s[m].pc, "from")
        /\ \A k \in 1..m :
             /\ s[k].gen # q.gen
             /\ run2[s[k].gen] = run[s[k].gen] /\ res2[s[k].gen] = res[s[k].gen]
             /\ sent2[s[k].gen] = sent[s[k].gen] /\ tr2[s[k].gen] = tr[s[k].gen]
    BY DEF MayStay, StaysBelow
  <1> DEFINE c == SubSeq(s, 1, m)
  <1>1. Len(s) \in Nat /\ m \in Nat /\ m <= Len(s)
    OBVIOUS
  <1>2. c \in Seq(FrameRecord(b)) /\ Len(c) = m /\ \A k \in 1..m : c[k] = s[k]
    BY <1>1
  <1> HIDE DEF c
  <1>3. /\ r \in Seq(FrameRecord(b)) /\ Len(r) = m + 1 /\ r # <<>>
        /\ r[m + 1] = q /\ \A k \in 1..m : r[k] = s[k]
    BY <1>1, <1>2 DEF c
  <1>4. \A k, l \in 1..(m + 1) : r[k].gen = r[l].gen => k = l
    <2> SUFFICES ASSUME NEW k \in 1..(m + 1), NEW l \in 1..(m + 1), r[k].gen = r[l].gen
                 PROVE  k = l
      OBVIOUS
    <2>1. CASE k \in 1..m /\ l \in 1..m
      <3>1. k \in 1..Len(s) /\ l \in 1..Len(s) /\ s[k].gen = s[l].gen
        BY <1>1, <1>3, <2>1
      <3> QED
        BY <3>1 DEF Stack
    <2>2. CASE k = m + 1 /\ l \in 1..m
      BY <1>0, <1>3, <2>2
    <2>3. CASE l = m + 1 /\ k \in 1..m
      BY <1>0, <1>3, <2>3
    <2> QED
      BY <1>1, <2>1, <2>2, <2>3
  <1>5. ASSUME NEW k \in 1..m
        PROVE  /\ run2[r[k].gen]
               /\ FrameFits(b, res2[r[k].gen], sent2[r[k].gen], tr2[r[k].gen], r[k])
               /\ Stands(b, r[k].gen, r[k].pc, "from")
    <2>1. k \in 1..Len(s) /\ r[k] = s[k]
      BY <1>1, <1>3
    <2>2. /\ run[s[k].gen] /\ FrameFits(b, res[s[k].gen], sent[s[k].gen], tr[s[k].gen], s[k])
          /\ k < Len(s) => Stands(b, s[k].gen, s[k].pc, "from")
      BY <2>1 DEF Stack
    <2>3. k = Len(s) => k = m /\ m = Len(s) /\ m > 0
      BY <1>1
    <2>4. Stands(b, s[k].gen, s[k].pc, "from")
      BY <1>0, <1>1, <2>1, <2>2, <2>3
    <2> QED
      BY <1>0, <2>1, <2>2, <2>4
  <1>6. Stack(b, run2, res2, sent2, tr2, r, TRUE)
    <2> SUFFICES ASSUME NEW k \in 1..(m + 1)
                 PROVE  /\ run2[r[k].gen]
                        /\ FrameFits(b, res2[r[k].gen], sent2[r[k].gen], tr2[r[k].gen], r[k])
                        /\ k < m + 1 => Stands(b, r[k].gen, r[k].pc, "from")
      BY <1>3, <1>4 DEF Stack
    <2>1. CASE k \in 1..m
      BY <1>5, <2>1
    <2>2. CASE k = m + 1
      BY <1>1, <1>3, <2>2
    <2> QED
      BY <1>1, <2>1, <2>2
  <1> QED
    BY <1>3, <1>6 DEF IsPushed

(* What is known of the stack of a thread. *)
LEMMA OnStack ==
  ASSUME NEW b, NEW run, NEW res, NEW sent, NEW frs, NEW act, NEW tr,
         Generating(b, run, res, sent, frs, act, tr), NEW t \in ThreadId
  PROVE  /\ frs[t] \in Seq(FrameRecord(b)) /\ Len(frs[t]) \in Nat
         /\ Stack(b, run, res, sent, tr, frs[t], t = act)
         /\ \A k \in 1..Len(frs[t]) :
              LET f == frs[t][k]
              IN  /\ f \in FrameRecord(b) /\ f.gen \in DOMAIN b /\ f.pc \in Nat \ {0}
                  /\ Runs(frs[t], f.gen) /\ run[f.gen]
                  /\ FrameFits(b, res[f.gen], sent[f.gen], tr[f.gen], f)
                  /\ Kept(b, run, res, tr, f.gen)
                  /\ \A m \in 1..Len(frs[t]) : frs[t][m].gen = f.gen => m = k
  <1> DEFINE s == frs[t]
  <1>1. s \in Seq(FrameRecord(b)) /\ Stack(b, run, res, sent, tr, s, t = act)
    BY DEF Generating, StackTypes
  <1>2. \A g \in DOMAIN b : Kept(b, run, res, tr, g)
    BY DEF Generating
  <1> HIDE DEF s
  <1>3. ASSUME NEW k \in 1..Len(s)
        PROVE  /\ s[k] \in FrameRecord(b) /\ s[k].gen \in DOMAIN b /\ s[k].pc \in Nat \ {0}
               /\ Runs(s, s[k].gen) /\ run[s[k].gen]
               /\ FrameFits(b, res[s[k].gen], sent[s[k].gen], tr[s[k].gen], s[k])
               /\ Kept(b, run, res, tr, s[k].gen)
               /\ \A m \in 1..Len(s) : s[m].gen = s[k].gen => m = k
    <2>1. s[k] \in FrameRecord(b)
      BY <1>1
    <2>2. s[k].gen \in DOMAIN b /\ s[k].pc \in Nat \ {0}
      BY <2>1 DEF FrameRecord
    <2>3. Runs(s, s[k].gen)
      BY DEF Runs
    <2>4. /\ run[s[k].gen] /\ FrameFits(b, res[s[k].gen], sent[s[k].gen], tr[s[k].gen], s[k])
          /\ \A m \in 1..Len(s) : s[m].gen = s[k].gen => m = k
      BY <1>1 DEF Stack
    <2> QED
      BY <1>2, <2>1, <2>2, <2>3, <2>4
  <1> QED
    BY <1>1, <1>3 DEF s

FreeAbove(Mine, s, m, run) ==
  \A g \in Mine : ~run[g] \/ \E k \in (m + 1)..Len(s) : s[k].gen = g

(* A step by which q replaces those frames of t, and changes Mine. *)
Pushes(b, run, res, sent, frs, act, tr, t, s, m, q, r, Mine, run2, res2, sent2, tr2, frs2) ==
  /\ Generating(b, run, res, sent, frs, act, tr) /\ 0 \notin ThreadId
  /\ t \in ThreadId /\ act \in {0, t} /\ s = frs[t] /\ m \in 0..Len(s) /\ MayStay(b, s, m)
  /\ q \in FrameRecord(b) /\ run2[q.gen] /\ q.gen \in Mine
  /\ FrameFits(b, res2[q.gen], sent2[q.gen], tr2[q.gen], q)
  /\ r = Append(SubSeq(s, 1, m), q) /\ frs2 = [frs EXCEPT ![t] = r]
  /\ StackTypes(b, run2, res2, sent2, frs, t, tr2)
  /\ FreeAbove(Mine, s, m, run)
  /\ Unchanged(DOMAIN b \ Mine, run, res, sent, tr, run2, res2, sent2, tr2)
  /\ AllKept(DOMAIN b \cap Mine, b, run2, res2, tr2)

LEMMA PushStep ==
  ASSUME NEW b, NEW run, NEW res, NEW sent, NEW frs, NEW act, NEW tr, NEW t, NEW s, NEW m, NEW q,
         NEW r, NEW Mine, NEW run2, NEW res2, NEW sent2, NEW tr2, NEW frs2,
         Pushes(b, run, res, sent, frs, act, tr, t, s, m, q, r, Mine, run2, res2, sent2, tr2, frs2)
  PROVE  Generating(b, run2, res2, sent2, frs2, t, tr2)
  <1>a. /\ Generating(b, run, res, sent, frs, act, tr) /\ 0 \notin ThreadId
        /\ t \in ThreadId /\ act \in {0, t} /\ s = frs[t] /\ m \in 0..Len(s) /\ MayStay(b, s, m)
        /\ q \in FrameRecord(b) /\ run2[q.gen] /\ q.gen \in Mine
        /\ FrameFits(b, res2[q.gen], sent2[q.gen], tr2[q.gen], q)
        /\ r = Append(SubSeq(s, 1, m), q) /\ frs2 = [frs EXCEPT ![t] = r]
        /\ StackTypes(b, run2, res2, sent2, frs, t, tr2)
        /\ FreeAbove(Mine, s, m, run)
        /\ Unchanged(DOMAIN b \ Mine, run, res, sent, tr, run2, res2, sent2, tr2)
        /\ AllKept(DOMAIN b \cap Mine, b, run2, res2, tr2)
    BY DEF Pushes
  <1> USE <1>a
  <1> DEFINE Others == {s[k].gen : k \in 1..m}
             All == Mine \cup Others
  <1>0. /\ \A g \in Mine : ~run[g] \/ \E k \in (m + 1)..Len(s) : s[k].gen = g
        /\ \A g \in DOMAIN b \ Mine : /\ run2[g] = run[g] /\ res2[g] = res[g]
                                      /\ sent2[g] = sent[g] /\ tr2[g] = tr[g]
        /\ \A g \in DOMAIN b \cap Mine : Kept(b, run2, res2, tr2, g)
    BY DEF FreeAbove, Unchanged, AllKept
  <1>1. /\ s \in Seq(FrameRecord(b)) /\ Len(s) \in Nat /\ m \in Nat /\ m <= Len(s)
        /\ Stack(b, run, res, sent, tr, s, t = act)
        /\ \A k \in 1..Len(s) :
             /\ s[k].gen \in DOMAIN b /\ Runs(s, s[k].gen) /\ run[s[k].gen]
             /\ Kept(b, run, res, tr, s[k].gen)
             /\ \A l \in 1..Len(s) : s[l].gen = s[k].gen => l = k
    BY OnStack
  <1>2. ASSUME NEW k \in 1..m
        PROVE  k \in 1..Len(s) /\ s[k].gen \in DOMAIN b \ Mine
    <2>1. k \in 1..Len(s) /\ s[k].gen \in DOMAIN b /\ run[s[k].gen]
      BY <1>1
    <2>2. ASSUME NEW l \in (m + 1)..Len(s) PROVE s[l].gen # s[k].gen
      <3>1. l \in 1..Len(s) /\ l # k
        BY <1>1
      <3> QED
        BY <1>1, <2>1, <3>1
    <2> QED
      BY <1>0, <2>1, <2>2
  <1>3. /\ StaysBelow(s, m, q.gen, run, res, sent, tr, run2, res2, sent2, tr2)
        /\ Unchanged(Others, run, res, sent, tr, run2, res2, sent2, tr2)
    BY <1>0, <1>2 DEF StaysBelow, Unchanged
  <1>4. /\ r \in Seq(FrameRecord(b)) /\ IsPushed(r, s, m, q)
        /\ Stack(b, run2, res2, sent2, tr2, r, TRUE)
    <2> DEFINE on == t = act
    <2>1. Stack(b, run, res, sent, tr, s, on)
      BY <1>1
    <2> HIDE DEF on
    <2> QED
      BY <1>1, <1>3, <2>1, Pushed
  <1>5. Free(All, s, run)
    <2>1. \A g \in Others : Runs(s, g)
      BY <1>1, <1>2
    <2>2. \A g \in Mine : ~run[g] \/ Runs(s, g)
      BY <1>0, <1>1 DEF Runs
    <2> QED
      BY <2>1, <2>2 DEF Free
  <1>6. Only(r, All)
    <2> SUFFICES ASSUME NEW k \in 1..(m + 1) PROVE r[k].gen \in All
      BY <1>4 DEF Only, IsPushed
    <2>1. CASE k \in 1..m
      BY <1>4, <2>1 DEF IsPushed
    <2>2. CASE k = m + 1
      BY <1>4, <2>2 DEF IsPushed
    <2> QED
      BY <1>1, <2>1, <2>2
  <1>7. AllKept(DOMAIN b \cap All, b, run2, res2, tr2)
    <2>1. ASSUME NEW k \in 1..m PROVE Kept(b, run2, res2, tr2, s[k].gen)
      <3>1. Kept(b, run, res, tr, s[k].gen)
        BY <1>1, <1>2
      <3> QED
        BY <1>3, <3>1 DEF Kept, StaysBelow
    <2> QED
      BY <1>0, <2>1 DEF AllKept
  <1>8. Unchanged(DOMAIN b \ All, run, res, sent, tr, run2, res2, sent2, tr2)
    BY <1>0 DEF Unchanged
  <1> HIDE DEF All, Others
  <1>9. t \in {0, t} /\ r \in Seq(FrameRecord(b)) /\ (TRUE <=> t = t) /\ Free(All, frs[t], run)
    BY <1>4, <1>5
  <1> QED
    <2>1. Changes(b, run, res, sent, frs, act, tr, t, r, All, TRUE, run2, res2, sent2, t, tr2, frs2)
      BY <1>4, <1>6, <1>7, <1>8, <1>9 DEF Changes
    <2> QED
      BY <2>1, StackStep

-----------------------------------------------------------------------------
(* The steps. *)
(* The last statement e of the frame f has ended, and t goes on with q.    *)
Advances(b, run, res, sent, frs, act, tr, t, s, n, f, q, e, tr2, frs2) ==
  /\ Generating(b, run, res, sent, frs, act, tr) /\ 0 \notin ThreadId
  /\ t \in ThreadId /\ act \in {0, t} /\ s = frs[t] /\ n = Len(s) /\ n > 0 /\ f = s[n]
  /\ q \in FrameRecord(b) /\ Guarded(b, q) /\ q.gen = f.gen /\ q.pc = f.pc + 1
  /\ e \in Entry /\ EntryFits(b, f.gen, e) /\ e.pc = f.pc /\ e.raised = "nothing"
  /\ tr2 = [tr EXCEPT ![f.gen] = Append(tr[f.gen], e)]
  /\ frs2 = [frs EXCEPT ![t] = Append(SubSeq(s, 1, n - 1), q)]

LEMMA Advance ==
  ASSUME NEW b, NEW run, NEW res, NEW sent, NEW frs, NEW act, NEW tr, NEW t, NEW s, NEW n, NEW f,
         NEW q, NEW e, NEW tr2, NEW frs2,
         Advances(b, run, res, sent, frs, act, tr, t, s, n, f, q, e, tr2, frs2)
  PROVE  Generating(b, run, res, sent, frs2, t, tr2)
  <1>a. /\ Generating(b, run, res, sent, frs, act, tr) /\ 0 \notin ThreadId
        /\ t \in ThreadId /\ act \in {0, t} /\ s = frs[t] /\ n = Len(s) /\ n > 0 /\ f = s[n]
        /\ q \in FrameRecord(b) /\ Guarded(b, q) /\ q.gen = f.gen /\ q.pc = f.pc + 1
        /\ e \in Entry /\ EntryFits(b, f.gen, e) /\ e.pc = f.pc /\ e.raised = "nothing"
        /\ tr2 = [tr EXCEPT ![f.gen] = Append(tr[f.gen], e)]
        /\ frs2 = [frs EXCEPT ![t] = Append(SubSeq(s, 1, n - 1), q)]
    BY DEF Advances
  <1> USE <1>a
  <1> DEFINE g == f.gen
             r == Append(SubSeq(s, 1, n - 1), q)
  <1>1. /\ s \in Seq(FrameRecord(b)) /\ n \in Nat /\ n \in 1..Len(s)
        /\ f \in FrameRecord(b) /\ g \in DOMAIN b /\ f.pc \in Nat \ {0}
        /\ run[g] /\ FrameFits(b, res[g], sent[g], tr[g], f) /\ Kept(b, run, res, tr, g)
    <2>1. n \in 1..Len(s)
      BY OnStack
    <2> QED
      BY <2>1, OnStack
  <1>2. /\ b \in GeneratorBodies /\ res \in [DOMAIN b -> Nat] /\ DOMAIN tr = DOMAIN b
        /\ StackTypes(b, run, res, sent, frs, act, tr)
    BY DEF Generating, StackTypes
  <1>3. tr2[g] = Append(tr[g], e) /\ DOMAIN tr2 = DOMAIN b
        /\ \A h \in DOMAIN b \ {g} : tr2[h] = tr[h]
    BY <1>1, <1>2
  <1>4. q.gen = g /\ g = f.gen
    OBVIOUS
  <1> HIDE DEF g, r
  <1>5. Good(b, g, tr2[g]) /\ Follows(b, g, tr2[g], q.pc)
    <2>1. Good(b, g, tr[g]) /\ EntryFits(b, g, e) /\ Follows(b, g, tr[g], e.pc)
      BY <1>1, <1>4 DEF Kept, FrameFits
    <2>2. /\ Good(b, g, Append(tr[g], e))
          /\ \A p : After(b, g, e, p) => Follows(b, g, Append(tr[g], e), p)
      BY <2>1, Logged
    <2>3. After(b, g, e, q.pc)
      BY DEF After
    <2> QED
      BY <1>3, <2>2, <2>3
  <1>6. FrameFits(b, res[q.gen], sent[q.gen], tr2[q.gen], q)
    <2>1. f.pc >= res[g] /\ res[g] \in Nat
      BY <1>1, <1>2 DEF FrameFits
    <2>2. q.pc >= res[g] /\ q.pc # res[g]
      BY <1>1, <2>1
    <2>3. Guarded(b, q) /\ Follows(b, q.gen, tr2[q.gen], q.pc) /\ q.gen = g
      BY <1>4, <1>5
    <2> QED
      BY <2>2, <2>3 DEF FrameFits
  <1>7. Kept(b, run, res, tr2, g)
    BY <1>1, <1>5 DEF Kept
  <1>8. StackTypes(b, run, res, sent, frs, t, tr2)
    BY <1>2, <1>3 DEF StackTypes
  <1> DEFINE m == n - 1
             Mine == {g}
  <1>9. m \in 0..Len(s) /\ m # Len(s) /\ m + 1 = n /\ n \in n..Len(s)
    BY <1>1
  <1>10. /\ MayStay(b, s, m) /\ r = Append(SubSeq(s, 1, m), q) /\ frs2 = [frs EXCEPT ![t] = r]
         /\ run[q.gen] /\ q.gen \in Mine
    BY <1>1, <1>4, <1>9 DEF MayStay, r
  <1>11. FreeAbove(Mine, s, m, run)
    BY <1>1, <1>4, <1>9 DEF FreeAbove
  <1>12. Unchanged(DOMAIN b \ Mine, run, res, sent, tr, run, res, sent, tr2)
    BY <1>3 DEF Unchanged
  <1>13. AllKept(DOMAIN b \cap Mine, b, run, res, tr2)
    BY <1>7 DEF AllKept
  <1> HIDE DEF m, Mine
  <1> QED
    <2>1. Pushes(b, run, res, sent, frs, act, tr, t, s, m, q, r, Mine, run, res, sent, tr2, frs2)
      BY <1>6, <1>8, <1>9, <1>10, <1>11, <1>12, <1>13 DEF Pushes
    <2> QED
      BY <2>1, PushStep

(* A generator is asked by the last one on a stack, or by the program. *)
Enters(b, run, res, sent, frs, act, tr, t, s, g, value, due, q, tr2, run2, sent2, frs2) ==
  /\ Generating(b, run, res, sent, frs, act, tr) /\ 0 \notin ThreadId
  /\ t \in ThreadId /\ act \in {0, t} /\ s = frs[t]
  /\ s # <<>> => Stands(b, s[Len(s)].gen, s[Len(s)].pc, "from")
  /\ g \in DOMAIN b /\ SimpleBody(b[g]) /\ ~run[g]
  /\ value \in Nat /\ due \in Nat /\ (due = value \/ due = Y!Begun)
  /\ q \in FrameRecord(b) /\ q.gen = g /\ q.due = due /\ q.exc = <<>>
  /\ q.pc = IF res[g] # 0 /\ Stands(b, g, res[g], "from") THEN res[g] ELSE res[g] + 1
  /\ tr2 = IF res[g] # 0 /\ Stands(b, g, res[g], "yield")
           THEN [tr EXCEPT ![g] = Append(tr[g], Y!Ended(res[g], value, due))] ELSE tr
  /\ run2 = [run EXCEPT ![g] = TRUE] /\ sent2 = [sent EXCEPT ![g] = value]
  /\ frs2 = [frs EXCEPT ![t] = Append(s, q)]

LEMMA EnterStep ==
  ASSUME NEW b, NEW run, NEW res, NEW sent, NEW frs, NEW act, NEW tr, NEW t, NEW s, NEW g,
         NEW value, NEW due, NEW q, NEW tr2, NEW run2, NEW sent2, NEW frs2,
         Enters(b, run, res, sent, frs, act, tr, t, s, g, value, due, q, tr2, run2, sent2, frs2)
  PROVE  Generating(b, run2, res, sent2, frs2, t, tr2)
  <1>a. /\ Generating(b, run, res, sent, frs, act, tr) /\ 0 \notin ThreadId
        /\ t \in ThreadId /\ act \in {0, t} /\ s = frs[t]
        /\ s # <<>> => Stands(b, s[Len(s)].gen, s[Len(s)].pc, "from")
        /\ g \in DOMAIN b /\ SimpleBody(b[g]) /\ ~run[g]
        /\ value \in Nat /\ due \in Nat /\ (due = value \/ due = Y!Begun)
        /\ q \in FrameRecord(b) /\ q.gen = g /\ q.due = due /\ q.exc = <<>>
        /\ q.pc = IF res[g] # 0 /\ Stands(b, g, res[g], "from") THEN res[g] ELSE res[g] + 1
        /\ tr2 = IF res[g] # 0 /\ Stands(b, g, res[g], "yield")
                 THEN [tr EXCEPT ![g] = Append(tr[g], Y!Ended(res[g], value, due))] ELSE tr
        /\ run2 = [run EXCEPT ![g] = TRUE] /\ sent2 = [sent EXCEPT ![g] = value]
        /\ frs2 = [frs EXCEPT ![t] = Append(s, q)]
    BY DEF Enters
  <1> USE <1>a
  <1> DEFINE e == Y!Ended(res[g], value, due)
             m == Len(s)
             Mine == {g}
             r == Append(s, q)
  <1>1. /\ s \in Seq(FrameRecord(b)) /\ m \in Nat /\ StackTypes(b, run, res, sent, frs, act, tr)
        /\ Kept(b, run, res, tr, g)
    BY OnStack DEF Generating
  <1>2. /\ b \in GeneratorBodies /\ res \in [DOMAIN b -> Nat] /\ DOMAIN tr = DOMAIN b
        /\ run \in [DOMAIN b -> BOOLEAN] /\ sent \in [DOMAIN b -> Nat]
    BY <1>1 DEF StackTypes
  <1>3. /\ run2 \in [DOMAIN b -> BOOLEAN] /\ run2[g]
        /\ sent2 \in [DOMAIN b -> Nat] /\ sent2[g] = value /\ DOMAIN tr2 = DOMAIN b
        /\ \A h \in DOMAIN b \ {g} : run2[h] = run[h] /\ sent2[h] = sent[h] /\ tr2[h] = tr[h]
    BY <1>2
  <1>4. res[g] \in Nat /\ Left(b, g, res[g]) /\ Good(b, g, tr[g]) /\ Idle(b, g, res[g], tr[g])
    BY <1>1, <1>2 DEF Kept
  <1>5. Good(b, g, tr2[g]) /\ Follows(b, g, tr2[g], q.pc)
    <2>1. CASE res[g] = 0
      BY <1>4, <2>1 DEF Idle
    <2>2. CASE res[g] # 0 /\ Stands(b, g, res[g], "from")
      <3>1. ~Stands(b, g, res[g], "yield")
        BY <2>2 DEF Stands
      <3> QED
        BY <1>4, <2>2, <3>1 DEF Idle
    <2>3. CASE res[g] # 0 /\ ~Stands(b, g, res[g], "from")
      <3>1. Stands(b, g, res[g], "yield")
        BY <1>4, <2>3 DEF Left
      <3>2. tr2[g] = Append(tr[g], e)
        BY <1>2, <2>3, <3>1
      <3>3. e \in Entry /\ e.pc = res[g] /\ e.raised = "nothing" /\ EntryFits(b, g, e)
        BY <1>4, <2>3 DEF Y!Ended, Entry, EntryFits
      <3>4. Follows(b, g, tr[g], e.pc)
        BY <1>4, <2>3, <3>3 DEF Idle
      <3>5. After(b, g, e, q.pc)
        BY <2>3, <3>3 DEF After
      <3> HIDE DEF e
      <3>6. /\ Good(b, g, Append(tr[g], e))
            /\ \A p : After(b, g, e, p) => Follows(b, g, Append(tr[g], e), p)
        BY <1>4, <3>3, <3>4, Logged
      <3> QED
        BY <3>2, <3>5, <3>6
    <2> QED
      BY <2>1, <2>2, <2>3
  <1>6. Guarded(b, q)
    <2> DEFINE l == res[g]
    <2>1. l \in Nat /\ Left(b, q.gen, l) /\ SimpleBody(b[q.gen])
      BY <1>4
    <2>2. q.pc = IF l # 0 /\ Stands(b, q.gen, l, "from") THEN l ELSE l + 1
      OBVIOUS
    <2> HIDE DEF l
    <2> QED
      BY <2>1, <2>2, GuardedFresh
  <1>7. FrameFits(b, res[q.gen], sent2[q.gen], tr2[q.gen], q)
    BY <1>3, <1>4, <1>5, <1>6 DEF FrameFits
  <1>8. StackTypes(b, run2, res, sent2, frs, t, tr2)
    BY <1>1, <1>3 DEF StackTypes
  <1>9. Kept(b, run2, res, tr2, g)
    BY <1>3, <1>4, <1>5 DEF Kept
  <1>10. /\ m \in 0..Len(s) /\ MayStay(b, s, m) /\ run2[q.gen] /\ q.gen \in Mine
         /\ r = Append(SubSeq(s, 1, m), q) /\ frs2 = [frs EXCEPT ![t] = r]
    <2>1. SubSeq(s, 1, m) = s
      BY <1>1
    <2>2. m > 0 => s # <<>>
      BY <1>1
    <2> QED
      BY <1>1, <1>3, <2>1, <2>2 DEF MayStay
  <1>11. FreeAbove(Mine, s, m, run)
    BY DEF FreeAbove
  <1>12. Unchanged(DOMAIN b \ Mine, run, res, sent, tr, run2, res, sent2, tr2)
    BY <1>3 DEF Unchanged
  <1>13. AllKept(DOMAIN b \cap Mine, b, run2, res, tr2)
    BY <1>9 DEF AllKept
  <1> HIDE DEF m, Mine, r
  <1> QED
    <2>1. Pushes(b, run, res, sent, frs, act, tr, t, s, m, q, r, Mine, run2, res, sent2, tr2, frs2)
      BY <1>7, <1>8, <1>10, <1>11, <1>12, <1>13 DEF Pushes
    <2> QED
      BY <2>1, PushStep

(* The generator that runs. *)
LEMMA AtTop ==
  ASSUME BodiesAreSimple, GeneratorsInv, active # 0, NEW s, s = frames[active], NEW n, n = Len(s)
  PROVE  /\ active \in ThreadId /\ 0 \notin ThreadId /\ active \in {0, active}
         /\ s \in Seq(FrameRecord(body)) /\ n \in Nat /\ n > 0 /\ n \in 1..Len(s)
         /\ Y!Top = s[n] /\ Y!Below = SubSeq(s, 1, n - 1)
         /\ Y!Top \in FrameRecord(body) /\ Y!Top.gen \in DOMAIN body /\ Y!Top.gen \in Nat
         /\ Y!Top.pc \in Nat \ {0} /\ Y!Top.due \in Nat /\ Y!Top.exc \in Seq(Nat)
         /\ SimpleBody(body[Y!Top.gen]) /\ giRunning[Y!Top.gen]
         /\ FrameFits(body, giResumeAt[Y!Top.gen], giSentValue[Y!Top.gen], trace[Y!Top.gen], Y!Top)
         /\ Generating(body, giRunning, giResumeAt, giSentValue, frames, active, trace)
  <1>1. Generating(body, giRunning, giResumeAt, giSentValue, frames, active, trace)
    BY DEF GeneratorsInv
  <1>2. active \in ThreadId /\ body \in GeneratorBodies
    BY <1>1 DEF Generating, StackTypes
  <1> DEFINE on == active = active
  <1>3. /\ s \in Seq(FrameRecord(body)) /\ Len(s) \in Nat
        /\ Stack(body, giRunning, giResumeAt, giSentValue, trace, s, on)
    BY <1>1, <1>2, OnStack
  <1>4. s # <<>>
    BY <1>3 DEF Stack
  <1>5. n \in Nat /\ n > 0 /\ n \in 1..Len(s) /\ Y!Top = s[n] /\ Y!Below = SubSeq(s, 1, n - 1)
    BY <1>3, <1>4 DEF Y!Top, Y!Below, Y!Last, Y!Front
  <1>6. /\ s[n] \in FrameRecord(body) /\ s[n].gen \in DOMAIN body /\ giRunning[s[n].gen]
        /\ FrameFits(body, giResumeAt[s[n].gen], giSentValue[s[n].gen], trace[s[n].gen], s[n])
    BY <1>1, <1>2, <1>5, OnStack
  <1>7. s[n].pc \in Nat \ {0} /\ s[n].due \in Nat /\ s[n].exc \in Seq(Nat)
    BY <1>6 DEF FrameRecord
  <1>8. s[n].gen \in Nat /\ SimpleBody(body[s[n].gen]) /\ 0 \notin ThreadId
    BY <1>2, <1>6 DEF BodiesAreSimple
  <1> QED
    BY <1>1, <1>2, <1>3, <1>5, <1>6, <1>7, <1>8

LEMMA PlainlyFits ==
  ASSUME NEW b, NEW f \in FrameRecord(b)
  PROVE  /\ Y!Plainly(f) \in Entry /\ EntryFits(b, f.gen, Y!Plainly(f))
         /\ Y!Plainly(f).pc = f.pc /\ Y!Plainly(f).raised = "nothing"
  <1>1. f.pc \in Nat \ {0}
    BY DEF FrameRecord
  <1> QED
    BY <1>1 DEF Y!Plainly, Y!Ended, Y!None, Entry, EntryFits

(* The frame f where the next statement is. *)
NextFrameOf(f, tries) == [f EXCEPT !.pc = f.pc + 1, !.due = Y!None, !.exc = tries]

LEMMA NextFrame ==
  ASSUME NEW b, NEW f \in FrameRecord(b), NEW tries \in Seq(Nat)
  PROVE  /\ NextFrameOf(f, tries) \in FrameRecord(b) /\ NextFrameOf(f, tries).gen = f.gen
         /\ NextFrameOf(f, tries).pc = f.pc + 1 /\ NextFrameOf(f, tries).exc = tries
  <1>1. /\ f.gen \in DOMAIN b /\ f.pc \in Nat \ {0} /\ f.canSuspend \in BOOLEAN
        /\ f = [gen |-> f.gen, pc |-> f.pc, exc |-> f.exc, due |-> f.due, canSuspend |-> f.canSuspend]
    BY DEF FrameRecord
  <1> DEFINE p == f.pc + 1
             c == f.canSuspend
             g == f.gen
             none == 0
             h == NextFrameOf(f, tries)
  <1>2. p \in Nat \ {0} /\ p = f.pc + 1 /\ c \in BOOLEAN /\ g \in DOMAIN b /\ g = f.gen /\ none \in Nat
    BY <1>1
  <1>3. PICK pc, handlers, due :
          f = [gen |-> g, pc |-> pc, exc |-> handlers, due |-> due, canSuspend |-> c]
    BY <1>1
  <1>4. h = [f EXCEPT !.pc = p, !.due = none, !.exc = tries]
    BY DEF NextFrameOf, Y!None
  <1> HIDE DEF p, c, g, none, h
  <1>5. h = [gen |-> g, pc |-> p, exc |-> tries, due |-> none, canSuspend |-> c]
    BY <1>3, <1>4
  <1> QED
    BY <1>2, <1>5 DEF FrameRecord, h

LEMMA TryKeeps == BodiesAreSimple /\ GeneratorsInv /\ Y!Try => GeneratorsInv'
  <1> SUFFICES ASSUME BodiesAreSimple, GeneratorsInv, Y!Try PROVE GeneratorsInv'
    OBVIOUS
  <1> DEFINE s == frames[active]
             n == Len(s)
             f == Y!Top
             tries == Append(f.exc, Y!Handler(f.gen))
             q == NextFrameOf(f, tries)
             e == Y!Plainly(f)
  <1>1. /\ active # 0 /\ Stands(body, f.gen, f.pc, "try")
        /\ frames' = [frames EXCEPT ![active] = Append(Y!Below, q)]
        /\ trace' = [trace EXCEPT ![f.gen] = Append(trace[f.gen], e)]
        /\ body' = body /\ giRunning' = giRunning /\ giResumeAt' = giResumeAt
        /\ giSentValue' = giSentValue /\ active' = active
    BY DEF Y!Try, Y!At, Y!GoesOn, Y!Log, Stands, NextFrameOf
  <1>2. /\ active \in ThreadId /\ 0 \notin ThreadId /\ active \in {0, active}
        /\ n > 0 /\ f = s[n] /\ Y!Below = SubSeq(s, 1, n - 1)
        /\ f \in FrameRecord(body) /\ f.exc \in Seq(Nat) /\ SimpleBody(body[f.gen])
        /\ FrameFits(body, giResumeAt[f.gen], giSentValue[f.gen], trace[f.gen], f)
        /\ Generating(body, giRunning, giResumeAt, giSentValue, frames, active, trace)
    BY <1>1, AtTop
  <1> HIDE DEF f, s, n
  <1>3. Y!Handler(f.gen) = Behind(body, f.gen) /\ Y!Handler(f.gen) \in Nat
    <2>1. PICK i \in DOMAIN body[f.gen] : body[f.gen][i] = "end"
      BY <1>1, <1>2 DEF Stands, SimpleBody
    <2>2. Behind(body, f.gen) = i + 1 /\ i \in Nat
      BY <1>2, <2>1, OneEnd
    <2> QED
      BY <2>2 DEF Y!Handler, Behind
  <1>4. tries \in Seq(Nat) /\ tries = Append(f.exc, Behind(body, f.gen))
    BY <1>2, <1>3
  <1> HIDE DEF tries
  <1>5. q \in FrameRecord(body) /\ q.gen = f.gen /\ q.pc = f.pc + 1 /\ q.exc = tries
    BY <1>2, <1>4, NextFrame, ZenonT(30)
  <1> HIDE DEF q
  <1>6. Guarded(body, f)
    BY <1>2 DEF FrameFits
  <1>7. Guarded(body, q)
    BY <1>1, <1>2, <1>4, <1>5, <1>6, GuardedTry
  <1>8. e \in Entry /\ EntryFits(body, f.gen, e) /\ e.pc = f.pc /\ e.raised = "nothing"
    BY <1>2, PlainlyFits
  <1> HIDE DEF e
  <1>9. s = frames[active] /\ n = Len(s) /\ frames' = [frames EXCEPT ![active] = Append(SubSeq(s, 1, n - 1), q)]
    BY <1>1, <1>2 DEF s, n
  <1>10. Generating(body, giRunning, giResumeAt, giSentValue, frames', active, trace')
    <2>1. Advances(body, giRunning, giResumeAt, giSentValue, frames, active, trace,
                   active, s, n, f, q, e, trace', frames')
      BY <1>1, <1>2, <1>5, <1>7, <1>8, <1>9 DEF Advances
    <2> QED
      BY <2>1, Advance
  <1> QED
    BY <1>1, <1>10 DEF GeneratorsInv

LEMMA EndTryKeeps == BodiesAreSimple /\ GeneratorsInv /\ Y!EndTry => GeneratorsInv'
  <1> SUFFICES ASSUME BodiesAreSimple, GeneratorsInv, Y!EndTry PROVE GeneratorsInv'
    OBVIOUS
  <1> DEFINE s == frames[active]
             n == Len(s)
             f == Y!Top
             tries == IF f.exc = <<>> THEN <<>> ELSE Y!Front(f.exc)
             q == NextFrameOf(f, tries)
             e == Y!Plainly(f)
  <1>1. /\ active # 0 /\ Stands(body, f.gen, f.pc, "end")
        /\ frames' = [frames EXCEPT ![active] = Append(Y!Below, q)]
        /\ trace' = [trace EXCEPT ![f.gen] = Append(trace[f.gen], e)]
        /\ body' = body /\ giRunning' = giRunning /\ giResumeAt' = giResumeAt
        /\ giSentValue' = giSentValue /\ active' = active
    BY DEF Y!EndTry, Y!At, Y!GoesOn, Y!Log, Stands, NextFrameOf
  <1>2. /\ active \in ThreadId /\ 0 \notin ThreadId /\ active \in {0, active}
        /\ n > 0 /\ f = s[n] /\ Y!Below = SubSeq(s, 1, n - 1)
        /\ f \in FrameRecord(body) /\ f.exc \in Seq(Nat) /\ SimpleBody(body[f.gen])
        /\ FrameFits(body, giResumeAt[f.gen], giSentValue[f.gen], trace[f.gen], f)
        /\ Generating(body, giRunning, giResumeAt, giSentValue, frames, active, trace)
    BY <1>1, AtTop
  <1> HIDE DEF f, s, n
  <1>3. tries \in Seq(Nat)
    <2>1. CASE f.exc = <<>>
      BY <2>1
    <2>2. CASE f.exc # <<>>
      BY <1>2, <2>2 DEF Y!Front
    <2> QED
      BY <2>1, <2>2
  <1>4. tries = IF f.exc = <<>> THEN <<>> ELSE Y!Front(f.exc)
    OBVIOUS
  <1> HIDE DEF tries
  <1>5. q \in FrameRecord(body) /\ q.gen = f.gen /\ q.pc = f.pc + 1 /\ q.exc = tries
    BY <1>2, <1>3, NextFrame
  <1> HIDE DEF q
  <1>6. Guarded(body, f)
    BY <1>2 DEF FrameFits
  <1>7. Guarded(body, q)
    BY <1>1, <1>2, <1>4, <1>5, <1>6, GuardedEnd
  <1>8. e \in Entry /\ EntryFits(body, f.gen, e) /\ e.pc = f.pc /\ e.raised = "nothing"
    BY <1>2, PlainlyFits
  <1> HIDE DEF e
  <1>9. s = frames[active] /\ n = Len(s) /\ frames' = [frames EXCEPT ![active] = Append(SubSeq(s, 1, n - 1), q)]
    BY <1>1, <1>2 DEF s, n
  <1>10. Generating(body, giRunning, giResumeAt, giSentValue, frames', active, trace')
    <2>1. Advances(body, giRunning, giResumeAt, giSentValue, frames, active, trace,
                   active, s, n, f, q, e, trace', frames')
      BY <1>1, <1>2, <1>5, <1>7, <1>8, <1>9 DEF Advances
    <2> QED
      BY <2>1, Advance
  <1> QED
    BY <1>1, <1>10 DEF GeneratorsInv

LEMMA WakeKeeps ==
  ASSUME BodiesAreSimple, GeneratorsInv, NEW t \in ThreadId, Y!Wake(t)
  PROVE  GeneratorsInv'
  <1> DEFINE s == frames[t]
             n == Len(s)
             f == s[n]
             q == NextFrameOf(f, f.exc)
             e == Y!Plainly(f)
             on == t = active
  <1>1. /\ active = 0 /\ s # <<>> /\ f = Y!Last(frames[t]) /\ Y!Front(s) = SubSeq(s, 1, n - 1)
        /\ active' = t /\ Y!Woken(f) = [f EXCEPT !.pc = @ + 1, !.due = Y!None]
        /\ frames' = [frames EXCEPT ![t] = Append(Y!Front(@), Y!Woken(f))]
        /\ trace' = [trace EXCEPT ![f.gen] = Append(trace[f.gen], e)]
        /\ body' = body /\ giRunning' = giRunning /\ giResumeAt' = giResumeAt
        /\ giSentValue' = giSentValue
    BY DEF Y!Wake, Y!Log, Y!Last, Y!Front, Y!Woken
  <1>2. Generating(body, giRunning, giResumeAt, giSentValue, frames, active, trace)
    BY DEF GeneratorsInv
  <1>3. /\ s \in Seq(FrameRecord(body)) /\ n \in Nat /\ on = FALSE
        /\ Stack(body, giRunning, giResumeAt, giSentValue, trace, s, on)
    BY <1>1, <1>2, OnStack DEF BodiesAreSimple
  <1>4. n > 0 /\ n \in 1..Len(s)
    BY <1>1, <1>3
  <1>5. /\ f \in FrameRecord(body) /\ f.gen \in DOMAIN body
        /\ FrameFits(body, giResumeAt[f.gen], giSentValue[f.gen], trace[f.gen], f)
    BY <1>2, <1>4, OnStack
  <1>6. Stands(body, f.gen, f.pc, "wait")
    BY <1>3, <1>4 DEF Stack
  <1>7. /\ f.pc \in Nat /\ f.exc \in Seq(Nat) /\ SimpleBody(body[f.gen]) /\ 0 \notin ThreadId
        /\ frames \in [ThreadId -> Seq(FrameRecord(body))] /\ f = [f EXCEPT !.exc = f.exc]
    BY <1>2, <1>5 DEF FrameRecord, BodiesAreSimple, Generating, StackTypes
  <1>8. Y!Woken(f) = q
    BY <1>1, <1>5 DEF NextFrameOf, FrameRecord
  <1>9. frames' = [frames EXCEPT ![t] = Append(SubSeq(s, 1, n - 1), q)]
    BY <1>1, <1>7, <1>8
  <1>10. s = frames[t] /\ n = Len(s) /\ f = s[n]
    OBVIOUS
  <1> HIDE DEF s, n, f
  <1>11. q \in FrameRecord(body) /\ q.gen = f.gen /\ q.pc = f.pc + 1 /\ q.exc = f.exc
    BY <1>5, <1>7, NextFrame
  <1> HIDE DEF q
  <1>12. Guarded(body, f)
    BY <1>5 DEF FrameFits
  <1>13. Guarded(body, q)
    <2> DEFINE statement == "wait"
    <2>1. Stands(body, f.gen, f.pc, statement) /\ statement \notin {"try", "end"}
      BY <1>6
    <2> HIDE DEF statement
    <2> QED
      BY <1>5, <1>7, <1>11, <1>12, <2>1, GuardedNext
  <1>14. e \in Entry /\ EntryFits(body, f.gen, e) /\ e.pc = f.pc /\ e.raised = "nothing"
    BY <1>5, PlainlyFits
  <1> HIDE DEF e
  <1>15. active \in {0, t}
    BY <1>1
  <1>16. Generating(body, giRunning, giResumeAt, giSentValue, frames', t, trace')
    <2>1. Advances(body, giRunning, giResumeAt, giSentValue, frames, active, trace,
                   t, s, n, f, q, e, trace', frames')
      BY <1>1, <1>2, <1>4, <1>7, <1>9, <1>10, <1>11, <1>13, <1>14, <1>15 DEF Advances
    <2> QED
      BY <2>1, Advance
  <1> QED
    BY <1>1, <1>16 DEF GeneratorsInv

-----------------------------------------------------------------------------
(* A generator is asked, by the program or by the one that runs. *)
LEMMA EntryFrame ==
  ASSUME NEW b, NEW g \in DOMAIN b, NEW pc \in Nat \ {0}, NEW due \in Nat, NEW c \in BOOLEAN,
         NEW q, q = [gen |-> g, pc |-> pc, exc |-> <<>>, due |-> due, canSuspend |-> c]
  PROVE  q \in FrameRecord(b) /\ q.gen = g /\ q.due = due /\ q.exc = <<>> /\ q.pc = pc
  BY DEF FrameRecord

LEMMA EnterKeeps ==
  ASSUME BodiesAreSimple, GeneratorsInv, NEW t \in ThreadId, active \in {0, t},
         NEW g \in Y!Generator, Y!CanEnter(g), NEW value \in Nat, NEW due \in Nat,
         due = value \/ due = Y!Begun, NEW c \in BOOLEAN,
         NEW s, s = frames[t], s # <<>> => Stands(body, s[Len(s)].gen, s[Len(s)].pc, "from"),
         Y!Enter(t, s, g, value, due, c), active' = t
  PROVE  GeneratorsInv'
  <1> DEFINE q == Y!Frame(g, due, c)
             r == giResumeAt[g]
             pc == IF r # 0 /\ Stands(body, g, r, "from") THEN r ELSE r + 1
  <1>1. /\ Generating(body, giRunning, giResumeAt, giSentValue, frames, active, trace)
        /\ body \in GeneratorBodies /\ giResumeAt \in [DOMAIN body -> Nat] /\ g \in DOMAIN body
        /\ 0 \notin ThreadId /\ SimpleBody(body[g]) /\ Left(body, g, r)
    BY DEF GeneratorsInv, Generating, StackTypes, BodiesAreSimple, Y!Generator, Kept
  <1>2. r \in Nat /\ pc \in Nat \ {0}
    BY <1>1
  <1>3. \A statement : Y!LeftAt(g, statement) <=> r # 0 /\ Stands(body, g, r, statement)
    BY <1>1 DEF Y!LeftAt, Left, Stands
  <1>4. Y!EntryBlock(g) = pc
    BY <1>3 DEF Y!EntryBlock
  <1>5. q = [gen |-> g, pc |-> pc, exc |-> <<>>, due |-> due, canSuspend |-> c]
    BY <1>4 DEF Y!Frame
  <1>6. /\ giRunning' = [giRunning EXCEPT ![g] = TRUE]
        /\ giSentValue' = [giSentValue EXCEPT ![g] = value]
        /\ frames' = [frames EXCEPT ![t] = Append(s, q)]
        /\ body' = body /\ giResumeAt' = giResumeAt
    BY DEF Y!Enter
  <1>7. trace' = IF r # 0 /\ Stands(body, g, r, "yield")
                 THEN [trace EXCEPT ![g] = Append(trace[g], Y!Ended(r, value, due))] ELSE trace
    BY <1>3 DEF Y!Enter, Y!Log
  <1>8. ~giRunning[g] /\ pc = IF r # 0 /\ Stands(body, g, r, "from") THEN r ELSE r + 1
    BY DEF Y!CanEnter
  <1> HIDE DEF pc, q
  <1>9. q \in FrameRecord(body) /\ q.gen = g /\ q.due = due /\ q.exc = <<>> /\ q.pc = pc
    BY <1>1, <1>2, <1>5, EntryFrame
  <1>10. Enters(body, giRunning, giResumeAt, giSentValue, frames, active, trace,
                t, s, g, value, due, q, trace', giRunning', giSentValue', frames')
    BY <1>1, <1>6, <1>7, <1>8, <1>9 DEF Enters
  <1>11. Generating(body, giRunning', giResumeAt, giSentValue', frames', t, trace')
    BY <1>10, EnterStep
  <1> QED
    BY <1>6, <1>11 DEF GeneratorsInv

LEMMA AskKeeps ==
  ASSUME BodiesAreSimple, GeneratorsInv, NEW t \in ThreadId, NEW g \in Y!Generator, Y!Ask(t, g),
         requests \in Nat
  PROVE  GeneratorsInv'
  <1>1. PICK value \in {Y!None, requests + 1}, c \in BOOLEAN : Y!Enter(t, <<>>, g, value, value, c)
    BY DEF Y!Ask
  <1>2. value \in Nat /\ active \in {0, t} /\ Y!CanEnter(g) /\ frames[t] = <<>> /\ active' = t
    BY DEF Y!Ask, Y!None
  <1> DEFINE s == frames[t]
  <1>3. /\ s = frames[t] /\ (s # <<>> => Stands(body, s[Len(s)].gen, s[Len(s)].pc, "from"))
        /\ Y!Enter(t, s, g, value, value, c)
    BY <1>1, <1>2
  <1> HIDE DEF s
  <1> QED
    BY <1>2, <1>3, EnterKeeps

-----------------------------------------------------------------------------
(* A thread is left by all its generators, *)
Empties(b, run, res, sent, frs, act, tr, Mine, run2, res2, sent2, tr2, frs2) ==
  /\ Generating(b, run, res, sent, frs, act, tr) /\ 0 \notin ThreadId /\ act \in ThreadId
  /\ StackTypes(b, run2, res2, sent2, frs, act, tr2)
  /\ \A g \in Mine : Runs(frs[act], g)
  /\ Unchanged(DOMAIN b \ Mine, run, res, sent, tr, run2, res2, sent2, tr2)
  /\ AllKept(DOMAIN b \cap Mine, b, run2, res2, tr2)
  /\ frs2 = [frs EXCEPT ![act] = <<>>]

LEMMA EmptyStep ==
  ASSUME NEW b, NEW run, NEW res, NEW sent, NEW frs, NEW act, NEW tr, NEW Mine,
         NEW run2, NEW res2, NEW sent2, NEW tr2, NEW frs2,
         Empties(b, run, res, sent, frs, act, tr, Mine, run2, res2, sent2, tr2, frs2)
  PROVE  Generating(b, run2, res2, sent2, frs2, 0, tr2)
  <1>1. /\ Generating(b, run, res, sent, frs, act, tr) /\ 0 \notin ThreadId /\ act \in ThreadId
        /\ StackTypes(b, run2, res2, sent2, frs, act, tr2)
        /\ \A g \in Mine : Runs(frs[act], g)
        /\ Unchanged(DOMAIN b \ Mine, run, res, sent, tr, run2, res2, sent2, tr2)
        /\ AllKept(DOMAIN b \cap Mine, b, run2, res2, tr2)
        /\ frs2 = [frs EXCEPT ![act] = <<>>]
    BY DEF Empties
  <1> DEFINE s == <<>>
             none == 0
  <1>2. /\ s \in Seq(FrameRecord(b)) /\ Only(s, Mine) /\ frs2 = [frs EXCEPT ![act] = s]
        /\ Stack(b, run2, res2, sent2, tr2, s, FALSE)
    BY <1>1 DEF Only, Stack
  <1>3. /\ Free(Mine, frs[act], run) /\ act \in {0, act} /\ none \in {0, act} /\ (FALSE <=> none = act)
        /\ StackTypes(b, run2, res2, sent2, frs, none, tr2)
    BY <1>1 DEF Free, StackTypes
  <1>4. none = 0
    OBVIOUS
  <1> HIDE DEF s, none
  <1>5. Generating(b, run2, res2, sent2, frs2, none, tr2)
    <2>1. Changes(b, run, res, sent, frs, act, tr, act, s, Mine, FALSE,
                  run2, res2, sent2, none, tr2, frs2)
      BY <1>1, <1>2, <1>3 DEF Changes
    <2> QED
      BY <2>1, StackStep
  <1> QED
    BY <1>4, <1>5

(* which it suspends, *)
LEMMA WaitKeeps == BodiesAreSimple /\ GeneratorsInv /\ Y!Wait => GeneratorsInv'
  <1> SUFFICES ASSUME BodiesAreSimple, GeneratorsInv, Y!Wait PROVE GeneratorsInv'
    OBVIOUS
  <1> DEFINE s == frames[active]
             n == Len(s)
             none == {}
  <1>1. /\ active # 0 /\ Stands(body, Y!Top.gen, Y!Top.pc, "wait") /\ active' = 0
        /\ frames' = frames \/ frames' = [frames EXCEPT ![active] = <<>>]
        /\ body' = body /\ giRunning' = giRunning /\ giResumeAt' = giResumeAt
        /\ giSentValue' = giSentValue /\ trace' = trace
    BY DEF Y!Wait, Y!At, Stands
  <1>2. /\ active \in ThreadId /\ 0 \notin ThreadId /\ active \in {0, active}
        /\ n \in Nat /\ n > 0 /\ Y!Top = s[n] /\ s \in Seq(FrameRecord(body))
        /\ Generating(body, giRunning, giResumeAt, giSentValue, frames, active, trace)
    BY <1>1, AtTop
  <1>3. StackTypes(body, giRunning, giResumeAt, giSentValue, frames, active, trace)
    BY <1>2 DEF Generating
  <1>4. /\ Unchanged(DOMAIN body \ none, giRunning, giResumeAt, giSentValue, trace,
                     giRunning, giResumeAt, giSentValue, trace)
        /\ AllKept(DOMAIN body \cap none, body, giRunning, giResumeAt, trace)
        /\ \A g \in none : Runs(frames[active], g)
    BY DEF Unchanged, AllKept
  <1>5. CASE frames' = [frames EXCEPT ![active] = <<>>]
    <2>1. Empties(body, giRunning, giResumeAt, giSentValue, frames, active, trace, none,
                  giRunning, giResumeAt, giSentValue, trace, frames')
      BY <1>2, <1>3, <1>4, <1>5 DEF Empties
    <2> HIDE DEF none
    <2>2. Generating(body, giRunning, giResumeAt, giSentValue, frames', 0, trace)
      BY <2>1, EmptyStep
    <2> QED
      BY <1>1, <2>2 DEF GeneratorsInv
  <1>6. CASE frames' = frames
    <2>1. \A t \in ThreadId : Stack(body, giRunning, giResumeAt, giSentValue, trace, frames[t], t = 0)
      <3> SUFFICES ASSUME NEW t \in ThreadId
                   PROVE  Stack(body, giRunning, giResumeAt, giSentValue, trace, frames[t], FALSE)
        BY <1>2 DEF Stack
      <3>1. Stack(body, giRunning, giResumeAt, giSentValue, trace, frames[t], t = active)
        BY <1>2 DEF Generating
      <3>2. CASE t # active
        BY <3>1, <3>2 DEF Stack
      <3>3. CASE t = active
        BY <1>1, <1>2, <3>1, <3>3 DEF Stack
      <3> QED
        BY <3>2, <3>3
    <2>2. StackTypes(body, giRunning, giResumeAt, giSentValue, frames, 0, trace)
      BY <1>3 DEF StackTypes
    <2>3. Generating(body, giRunning, giResumeAt, giSentValue, frames, 0, trace)
      BY <1>2, <2>1, <2>2 DEF Generating
    <2> QED
      BY <1>1, <1>6, <2>3 DEF GeneratorsInv
  <1> QED
    BY <1>1, <1>5, <1>6

(* or when they give a value. *)
LEMMA YieldKeeps == BodiesAreSimple /\ GeneratorsInv /\ Y!Yield => GeneratorsInv'
  <1> SUFFICES ASSUME BodiesAreSimple, GeneratorsInv, Y!Yield PROVE GeneratorsInv'
    OBVIOUS
  <1> DEFINE s == frames[active]
             n == Len(s)
             Mine == {s[k].gen : k \in 1..n}
  <1>1. /\ active # 0 /\ Stands(body, Y!Top.gen, Y!Top.pc, "yield") /\ active' = 0
        /\ frames' = [frames EXCEPT ![active] = <<>>]
        /\ body' = body /\ giSentValue' = giSentValue /\ trace' = trace
    BY DEF Y!Yield, Y!At, Stands
  <1>2. /\ active \in ThreadId /\ 0 \notin ThreadId
        /\ n \in Nat /\ n > 0 /\ Y!Top = s[n] /\ s \in Seq(FrameRecord(body)) /\ DOMAIN s = 1..n
        /\ Generating(body, giRunning, giResumeAt, giSentValue, frames, active, trace)
    <2>1. s = frames[active] /\ n = Len(s)
      OBVIOUS
    <2>2. active # 0
      BY <1>1
    <2> HIDE DEF s, n, Mine
    <2>3. /\ active \in ThreadId /\ 0 \notin ThreadId /\ n \in Nat /\ n > 0 /\ Y!Top = s[n]
          /\ s \in Seq(FrameRecord(body))
          /\ Generating(body, giRunning, giResumeAt, giSentValue, frames, active, trace)
      BY <2>1, <2>2, AtTop
    <2> QED
      BY <2>1, <2>3
  <1>3. /\ giRunning \in [DOMAIN body -> BOOLEAN] /\ giResumeAt \in [DOMAIN body -> Nat]
        /\ StackTypes(body, giRunning, giResumeAt, giSentValue, frames, active, trace)
    BY <1>2 DEF Generating, StackTypes
  <1>4. \A k \in 1..n :
          /\ s[k].gen \in DOMAIN body /\ s[k].pc \in Nat \ {0} /\ Runs(s, s[k].gen)
          /\ FrameFits(body, giResumeAt[s[k].gen], giSentValue[s[k].gen], trace[s[k].gen], s[k])
          /\ Kept(body, giRunning, giResumeAt, trace, s[k].gen)
          /\ \A m \in 1..n : s[m].gen = s[k].gen => m = k
    BY <1>2, OnStack
  <1>5. /\ giRunning' = [g \in DOMAIN body |-> giRunning[g] /\ ~\E k \in 1..n : s[k].gen = g]
        /\ giResumeAt' = [g \in DOMAIN body |->
             IF \E k \in 1..n : s[k].gen = g THEN s[CHOOSE k \in 1..n : s[k].gen = g].pc
             ELSE giResumeAt[g]]
    BY <1>2 DEF Y!Yield, Y!Generator
  <1>6. \A k \in 1..n : ~giRunning'[s[k].gen] /\ giResumeAt'[s[k].gen] = s[k].pc
    <2> SUFFICES ASSUME NEW k \in 1..n PROVE ~giRunning'[s[k].gen] /\ giResumeAt'[s[k].gen] = s[k].pc
      OBVIOUS
    <2>1. (CHOOSE m \in 1..n : s[m].gen = s[k].gen) = k
      BY <1>4
    <2> QED
      BY <1>4, <1>5, <2>1
  <1>7. \A g \in DOMAIN body \ Mine : giRunning'[g] = giRunning[g] /\ giResumeAt'[g] = giResumeAt[g]
    BY <1>3, <1>5
  <1>8. giRunning' \in [DOMAIN body -> BOOLEAN] /\ giResumeAt' \in [DOMAIN body -> Nat]
    <2>1. \A g \in DOMAIN body : giResumeAt'[g] \in Nat
      <3> SUFFICES ASSUME NEW g \in DOMAIN body PROVE giResumeAt'[g] \in Nat
        OBVIOUS
      <3>1. CASE \E k \in 1..n : s[k].gen = g
        BY <1>4, <1>6, <3>1
      <3>2. CASE ~\E k \in 1..n : s[k].gen = g
        BY <1>3, <1>7, <3>2
      <3> QED
        BY <3>1, <3>2
    <2> QED
      BY <1>5, <2>1
  <1>9. \A k \in 1..n : Stands(body, s[k].gen, s[k].pc, "yield") \/ Stands(body, s[k].gen, s[k].pc, "from")
    <2> SUFFICES ASSUME NEW k \in 1..n, k # n PROVE Stands(body, s[k].gen, s[k].pc, "from")
      BY <1>1, <1>2
    <2>1. Stack(body, giRunning, giResumeAt, giSentValue, trace, s, TRUE)
      BY <1>2 DEF Generating, Stack
    <2> QED
      BY <1>2, <2>1 DEF Stack
  <1>10. ASSUME NEW k \in 1..n
         PROVE  Kept(body, giRunning', giResumeAt', trace, s[k].gen)
    <2>1. Good(body, s[k].gen, trace[s[k].gen]) /\ Follows(body, s[k].gen, trace[s[k].gen], s[k].pc)
      BY <1>4 DEF Kept, FrameFits
    <2>2. s[k].pc # 0
      BY <1>4
    <2> QED
      BY <1>6, <1>9, <2>1, <2>2 DEF Kept, Left, Idle
  <1>11. /\ AllKept(DOMAIN body \cap Mine, body, giRunning', giResumeAt', trace)
         /\ \A g \in Mine : Runs(frames[active], g)
    BY <1>4, <1>10 DEF AllKept
  <1>12. /\ Unchanged(DOMAIN body \ Mine, giRunning, giResumeAt, giSentValue, trace,
                      giRunning', giResumeAt', giSentValue, trace)
         /\ StackTypes(body, giRunning', giResumeAt', giSentValue, frames, active, trace)
    BY <1>3, <1>7, <1>8 DEF Unchanged, StackTypes
  <1> HIDE DEF Mine
  <1>13. Empties(body, giRunning, giResumeAt, giSentValue, frames, active, trace, Mine,
                 giRunning', giResumeAt', giSentValue, trace, frames')
    BY <1>1, <1>2, <1>11, <1>12 DEF Empties
  <1>14. Generating(body, giRunning', giResumeAt', giSentValue, frames', 0, trace)
    BY <1>13, EmptyStep
  <1> QED
    BY <1>1, <1>14 DEF GeneratorsInv

-----------------------------------------------------------------------------
(* Exceptions. *)
LEMMA RaisedFits ==
  ASSUME NEW b, NEW f \in FrameRecord(b), NEW caught \in BOOLEAN,
         caught \/ (Tried(b, f.gen, f.pc) => Gave(b, f.gen, f.pc))
  PROVE  /\ Y!Raised(f, caught) \in Entry /\ EntryFits(b, f.gen, Y!Raised(f, caught))
         /\ Y!Raised(f, caught).pc = f.pc
         /\ caught => Y!Raised(f, caught).raised = "caught"
  <1> DEFINE r == IF caught THEN "caught" ELSE "uncaught"
             e == Y!Raised(f, caught)
             pc == f.pc
             none == 0
  <1>1. pc \in Nat \ {0} /\ r \in {"nothing", "caught", "uncaught"}
    BY DEF FrameRecord
  <1>2. e = [[pc |-> pc, got |-> none, due |-> none, raised |-> "nothing"] EXCEPT !.raised = r]
    BY DEF Y!Raised, Y!Plainly, Y!Ended, Y!None
  <1>3. e = [pc |-> pc, got |-> none, due |-> none, raised |-> r]
    <2> HIDE DEF pc, none, r, e
    <2> QED
      BY <1>2
  <1>4. none \in Nat /\ pc = f.pc /\ (caught => r = "caught") /\ (r = "uncaught" => ~caught)
    OBVIOUS
  <1> HIDE DEF pc, none, r, e
  <1>5. e \in Entry /\ e.pc = pc /\ e.raised = r /\ e.got = e.due
    BY <1>1, <1>3, <1>4 DEF Entry
  <1>6. EntryFits(b, f.gen, e)
    BY <1>4, <1>5 DEF EntryFits
  <1> QED
    BY <1>4, <1>5, <1>6 DEF e

(* The traces when an exception goes through the frames of S; those of C   *)
(* could catch it.                                                         *)
Passes(b, tr, s, S, C) ==
  [g \in DOMAIN b |->
     IF \E j \in S : s[j].gen = g
     THEN LET j == CHOOSE j \in S : s[j].gen = g
          IN Append(tr[g], Y!Raised(s[j], j \in C))
     ELSE tr[g]]

LEMMA PassesTraces ==
  ASSUME NEW b, NEW tr, NEW s, NEW S, NEW C, NEW tr2, tr2 = Passes(b, tr, s, S, C),
         \A j \in S : s[j].gen \in DOMAIN b /\ \A k \in S : s[k].gen = s[j].gen => k = j
  PROVE  /\ DOMAIN tr2 = DOMAIN b
         /\ \A j \in S : tr2[s[j].gen] = Append(tr[s[j].gen], Y!Raised(s[j], j \in C))
         /\ \A g \in DOMAIN b \ {s[j].gen : j \in S} : tr2[g] = tr[g]
  <1>1. ASSUME NEW j \in S
        PROVE  tr2[s[j].gen] = Append(tr[s[j].gen], Y!Raised(s[j], j \in C))
    <2>1. (CHOOSE k \in S : s[k].gen = s[j].gen) = j
      OBVIOUS
    <2> QED
      BY <2>1 DEF Passes
  <1>2. DOMAIN tr2 = DOMAIN b
    BY DEF Passes
  <1>3. ASSUME NEW g \in DOMAIN b \ {s[j].gen : j \in S} PROVE tr2[g] = tr[g]
    BY DEF Passes
  <1> QED
    BY <1>1, <1>2, <1>3

(* The frame f at the handler of the exception. *)
AtHandler(f) == [f EXCEPT !.pc = Y!Last(f.exc), !.exc = Y!Front(f.exc), !.due = Y!None]

LEMMA HandlerFrame ==
  ASSUME NEW b, NEW f \in FrameRecord(b), SimpleBody(b[f.gen]), Guarded(b, f), f.exc # <<>>
  PROVE  /\ AtHandler(f) \in FrameRecord(b) /\ AtHandler(f).gen = f.gen
         /\ AtHandler(f).pc = Y!Last(f.exc) /\ AtHandler(f).exc = Y!Front(f.exc)
  <1> DEFINE g == f.gen
             c == f.canSuspend
             none == 0
             h == AtHandler(f)
             p == Y!Last(f.exc)
             tries == Y!Front(f.exc)
  <1>1. /\ g \in DOMAIN b /\ c \in BOOLEAN /\ none \in Nat
        /\ f = [gen |-> g, pc |-> f.pc, exc |-> f.exc, due |-> f.due, canSuspend |-> c]
    BY DEF FrameRecord
  <1>2. f.exc = <<Behind(b, g)>> /\ \E i \in DOMAIN b[g] : b[g][i] = "end"
    BY DEF Guarded
  <1>3. Behind(b, g) \in Nat \ {0}
    <2>1. PICK i \in DOMAIN b[g] : b[g][i] = "end"
      BY <1>2
    <2>2. Behind(b, g) = i + 1 /\ i \in Nat
      BY <2>1, OneEnd
    <2> QED
      BY <2>2
  <1>4. p \in Nat \ {0} /\ tries \in Seq(Nat)
    BY <1>2, <1>3 DEF Y!Last, Y!Front
  <1>5. PICK pc, e, due : f = [gen |-> g, pc |-> pc, exc |-> e, due |-> due, canSuspend |-> c]
    BY <1>1
  <1>6. h = [f EXCEPT !.pc = p, !.exc = tries, !.due = none]
    BY DEF AtHandler, Y!None
  <1>7. g = f.gen /\ p = Y!Last(f.exc) /\ tries = Y!Front(f.exc) /\ h = AtHandler(f)
    OBVIOUS
  <1> HIDE DEF g, c, none, h, p, tries
  <1>8. h = [gen |-> g, pc |-> p, exc |-> tries, due |-> none, canSuspend |-> c]
    BY <1>5, <1>6
  <1>9. h \in FrameRecord(b) /\ h.gen = g /\ h.pc = p /\ h.exc = tries
    BY <1>1, <1>4, <1>8 DEF FrameRecord
  <1> QED
    BY <1>7, <1>9

(* The frames that an exception may go through. *)
LEMMA ThrowKeeps == BodiesAreSimple /\ GeneratorsInv /\ active # 0 /\ Y!Throw => GeneratorsInv'
  <1> SUFFICES ASSUME BodiesAreSimple, GeneratorsInv, active # 0, Y!Throw PROVE GeneratorsInv'
    OBVIOUS
  <1> DEFINE s == frames[active]
             n == Len(s)
             C == {k \in DOMAIN s : s[k].exc # <<>>}
             k == CHOOSE k \in C : \A j \in C : j <= k
             S == IF C = {} THEN DOMAIN s ELSE k..n
             Mine == {s[j].gen : j \in S}
  <1>1. /\ body' = body /\ giRunning' = giRunning /\ giResumeAt' = giResumeAt
        /\ giSentValue' = giSentValue /\ trace' = Passes(body, trace, s, S, C)
        /\ C = {} => frames' = [frames EXCEPT ![active] = <<>>] /\ active' = 0
        /\ C # {} => /\ frames' = [frames EXCEPT ![active] =
                          Append(SubSeq(frames[active], 1, k - 1), AtHandler(s[k]))]
                     /\ active' = active
    BY DEF Y!Throw, Passes, AtHandler, Y!Generator
  <1>2. /\ active \in ThreadId /\ 0 \notin ThreadId /\ n \in Nat /\ n > 0 /\ DOMAIN s = 1..n
        /\ s \in Seq(FrameRecord(body)) /\ s = frames[active] /\ n = Len(s)
        /\ Generating(body, giRunning, giResumeAt, giSentValue, frames, active, trace)
        /\ StackTypes(body, giRunning, giResumeAt, giSentValue, frames, active, trace)
    <2>1. s = frames[active] /\ n = Len(s)
      OBVIOUS
    <2>2. active # 0
      BY active # 0
    <2> HIDE DEF s, n, C, k, S, Mine
    <2>3. /\ active \in ThreadId /\ 0 \notin ThreadId /\ n \in Nat /\ n > 0 /\ Y!Top = s[n]
          /\ s \in Seq(FrameRecord(body))
          /\ Generating(body, giRunning, giResumeAt, giSentValue, frames, active, trace)
      BY <2>1, <2>2, AtTop
    <2> QED
      BY <2>1, <2>3 DEF Generating
  <1>3. \A j \in 1..n :
          /\ s[j] \in FrameRecord(body) /\ s[j].gen \in DOMAIN body /\ s[j].pc \in Nat \ {0}
          /\ Runs(s, s[j].gen) /\ giRunning[s[j].gen]
          /\ FrameFits(body, giResumeAt[s[j].gen], giSentValue[s[j].gen], trace[s[j].gen], s[j])
          /\ Kept(body, giRunning, giResumeAt, trace, s[j].gen)
          /\ \A m \in 1..n : s[m].gen = s[j].gen => m = j
    BY <1>2, OnStack
  <1> HIDE DEF s, n
  <1>4. C # {} => k \in C /\ \A j \in C : j <= k
    <2>1. C \in SUBSET (1..n)
      BY <1>2
    <2> HIDE DEF C
    <2>2. C # {} => \E m \in C : \A j \in C : j <= m
      BY <1>2, <2>1, HasGreatest
    <2> QED
      BY <2>2
  <1>5. S \subseteq 1..n /\ (C # {} => k \in 1..n /\ k \in S /\ s[k].exc # <<>>)
        /\ \A j \in S : j \in C => C # {} /\ j = k
    <2>1. CASE C = {}
      BY <1>2, <2>1
    <2>2. CASE C # {}
      <3>1. k \in 1..n /\ s[k].exc # <<>>
        BY <1>2, <1>4, <2>2
      <3> HIDE DEF k
      <3>2. S = k..n
        BY <2>2
      <3>3. \A j \in S : j \in C => j = k
        BY <1>2, <1>4, <2>2, <3>1, <3>2
      <3> QED
        BY <1>2, <2>2, <3>1, <3>2, <3>3
    <2> QED
      BY <2>1, <2>2
  <1>6. \A j \in 1..n : (j \in C <=> s[j].exc # <<>>) /\ (j \in C) \in BOOLEAN
    BY <1>2
  <1>7. C # {} => S = k..n
    OBVIOUS
  <1> HIDE DEF C, k, S
  <1>8. /\ DOMAIN trace' = DOMAIN body
        /\ \A j \in S : trace'[s[j].gen] = Append(trace[s[j].gen], Y!Raised(s[j], j \in C))
        /\ \A g \in DOMAIN body \ Mine : trace'[g] = trace[g]
    <2>1. \A j \in S : s[j].gen \in DOMAIN body /\ \A m \in S : s[m].gen = s[j].gen => m = j
      BY <1>3, <1>5
    <2> QED
      BY <1>1, <2>1, PassesTraces
  <1>9. ASSUME NEW j \in S
        PROVE  /\ Good(body, s[j].gen, trace'[s[j].gen])
               /\ j \in C => Follows(body, s[j].gen, trace'[s[j].gen], Behind(body, s[j].gen))
    <2> DEFINE f == s[j]
               g == s[j].gen
               c == j \in C
               e == Y!Raised(f, c)
    <2>1. /\ j \in 1..n /\ f \in FrameRecord(body) /\ g = f.gen /\ c \in BOOLEAN
          /\ Guarded(body, f) /\ Follows(body, g, trace[g], f.pc) /\ Good(body, g, trace[g])
          /\ trace'[g] = Append(trace[g], e) /\ (c <=> f.exc # <<>>)
      BY <1>3, <1>5, <1>6, <1>8 DEF FrameFits, Kept
    <2> HIDE DEF f, g, c
    <2>2. c \/ (Tried(body, f.gen, f.pc) => Gave(body, f.gen, f.pc))
      <3>1. CASE c
        BY <3>1
      <3>2. CASE ~c
        <4>1. f.exc = <<>> /\ <<Behind(body, f.gen)>> # <<>>
          BY <2>1, <3>2
        <4>2. f.exc # <<Behind(body, f.gen)>>
          BY <4>1
        <4> QED
          BY <2>1, <4>2 DEF Guarded
      <3> QED
        BY <3>1, <3>2
    <2>3. /\ e \in Entry /\ EntryFits(body, g, e) /\ e.pc = f.pc
          /\ c => e.raised = "caught"
      BY <2>1, <2>2, RaisedFits
    <2> HIDE DEF e
    <2>4. /\ Good(body, g, Append(trace[g], e))
          /\ \A p : After(body, g, e, p) => Follows(body, g, Append(trace[g], e), p)
      BY <2>1, <2>3, Logged
    <2>5. c => After(body, g, e, Behind(body, g))
      BY <2>3 DEF After
    <2> QED
      BY <2>1, <2>4, <2>5 DEF c, g
  <1>10. AllKept(DOMAIN body \cap Mine, body, giRunning, giResumeAt, trace')
    <2> SUFFICES ASSUME NEW j \in S PROVE Kept(body, giRunning, giResumeAt, trace', s[j].gen)
      BY DEF AllKept
    <2>1. Kept(body, giRunning, giResumeAt, trace, s[j].gen) /\ giRunning[s[j].gen]
      BY <1>3, <1>5
    <2> QED
      BY <1>9, <2>1 DEF Kept
  <1>11. /\ Unchanged(DOMAIN body \ Mine, giRunning, giResumeAt, giSentValue, trace,
                      giRunning, giResumeAt, giSentValue, trace')
         /\ StackTypes(body, giRunning, giResumeAt, giSentValue, frames, active, trace')
    BY <1>2, <1>8 DEF Unchanged, StackTypes
  <1>12. CASE C = {}
    <2>1. \A g \in Mine : Runs(frames[active], g)
      BY <1>2, <1>3, <1>5
    <2> HIDE DEF Mine
    <2>2. Empties(body, giRunning, giResumeAt, giSentValue, frames, active, trace, Mine,
                  giRunning, giResumeAt, giSentValue, trace', frames')
      BY <1>1, <1>2, <1>10, <1>11, <1>12, <2>1 DEF Empties
    <2>3. Generating(body, giRunning, giResumeAt, giSentValue, frames', 0, trace')
      BY <2>2, EmptyStep
    <2> QED
      BY <1>1, <1>12, <2>3 DEF GeneratorsInv
  <1>13. CASE C # {}
    <2> DEFINE f == s[k]
               q == AtHandler(f)
               m == k - 1
               r == Append(SubSeq(s, 1, m), q)
    <2>1. /\ k \in 1..n /\ k \in S /\ S = k..n /\ f \in FrameRecord(body) /\ f.exc # <<>>
          /\ FrameFits(body, giResumeAt[f.gen], giSentValue[f.gen], trace[f.gen], f)
          /\ giRunning[f.gen] /\ f.gen \in Mine /\ f.gen \in DOMAIN body
      BY <1>3, <1>5, <1>7, <1>13
    <2>2. SimpleBody(body[f.gen]) /\ Guarded(body, f) /\ giResumeAt[f.gen] \in Nat /\ f.pc \in Nat
      BY <1>2, <2>1 DEF FrameFits, StackTypes, BodiesAreSimple, FrameRecord
    <2>3. /\ q \in FrameRecord(body) /\ q.gen = f.gen /\ q.pc = Y!Last(f.exc) /\ q.exc = Y!Front(f.exc)
      BY <2>1, <2>2, HandlerFrame
    <2>4. Follows(body, f.gen, trace'[f.gen], Behind(body, f.gen))
      BY <1>5, <1>6, <1>9, <2>1
    <2>5. m \in 0..Len(s) /\ m # Len(s) /\ m + 1 = k /\ r = Append(SubSeq(s, 1, m), q)
      BY <1>2, <2>1
    <2>6. frames' = [frames EXCEPT ![active] = r]
      BY <1>1, <1>2, <1>13
    <2> HIDE DEF f, q, m, r
    <2>7. Guarded(body, q) /\ q.pc = Behind(body, f.gen) /\ q.pc > f.pc
      BY <2>1, <2>2, <2>3, GuardedHandler
    <2>8. FrameFits(body, giResumeAt[q.gen], giSentValue[q.gen], trace'[q.gen], q)
      <3>1. f.pc >= giResumeAt[f.gen]
        BY <2>1 DEF FrameFits
      <3>2. q.pc \in Nat
        BY <2>3 DEF FrameRecord
      <3>3. q.pc >= giResumeAt[q.gen] /\ q.pc # giResumeAt[q.gen]
        BY <2>2, <2>3, <2>7, <3>1, <3>2
      <3> QED
        BY <2>3, <2>4, <2>7, <3>3 DEF FrameFits
    <2>9. FreeAbove(Mine, s, m, giRunning) /\ MayStay(body, s, m)
      <3>1. \A j \in S : j \in (m + 1)..Len(s)
        BY <1>2, <2>1, <2>5
      <3> QED
        BY <2>5, <3>1 DEF FreeAbove, MayStay
    <2> HIDE DEF Mine
    <2>10. Pushes(body, giRunning, giResumeAt, giSentValue, frames, active, trace, active, s, m, q, r,
                  Mine, giRunning, giResumeAt, giSentValue, trace', frames')
      BY <1>2, <1>10, <1>11, <2>1, <2>3, <2>5, <2>6, <2>8, <2>9 DEF Pushes
    <2>11. Generating(body, giRunning, giResumeAt, giSentValue, frames', active, trace')
      BY <2>10, PushStep
    <2> QED
      BY <1>1, <1>13, <2>11 DEF GeneratorsInv
  <1> QED
    BY <1>12, <1>13

LEMMA RaiseKeepsTraces == BodiesAreSimple /\ GeneratorsInv /\ Y!Raise => GeneratorsInv'
  BY ThrowKeeps DEF Y!Raise, Y!At

(* yield from, which raises an exception if its generator runs. *)
LEMMA YieldFromKeeps == BodiesAreSimple /\ GeneratorsInv /\ Y!YieldFrom => GeneratorsInv'
  <1> SUFFICES ASSUME BodiesAreSimple, GeneratorsInv, Y!YieldFrom PROVE GeneratorsInv'
    OBVIOUS
  <1>1. active # 0 /\ Stands(body, Y!Top.gen, Y!Top.pc, "from")
    BY DEF Y!YieldFrom, Y!At, Stands
  <1>2. CASE ~Y!CanEnter(Delegate)
    BY <1>1, <1>2, ThrowKeeps DEF Y!YieldFrom
  <1>3. CASE Y!CanEnter(Delegate)
    <2> DEFINE s == frames[active]
               value == Y!PassedOn(Y!Top.gen)
               due == IF Y!Top.pc = giResumeAt[Y!Top.gen] THEN Y!Top.due ELSE Y!Begun
               c == TRUE
    <2>1. /\ active \in ThreadId /\ active \in {0, active} /\ Y!Top = s[Len(s)] /\ s # <<>>
          /\ Y!Top.gen \in DOMAIN body /\ Y!Top.due \in Nat
          /\ FrameFits(body, giResumeAt[Y!Top.gen], giSentValue[Y!Top.gen], trace[Y!Top.gen], Y!Top)
          /\ Generating(body, giRunning, giResumeAt, giSentValue, frames, active, trace)
      BY <1>1, AtTop
    <2>2. giSentValue \in [DOMAIN body -> Nat] /\ Delegate \in Y!Generator
      BY <2>1 DEF Generating, StackTypes, BodiesAreSimple, Y!Generator
    <2>3. value \in Nat /\ due \in Nat /\ c \in BOOLEAN
      BY <2>1, <2>2 DEF Y!PassedOn, Y!Begun
    <2>4. due = value \/ due = Y!Begun
      BY <2>1 DEF FrameFits, Y!PassedOn
    <2>5. Y!Enter(active, s, Delegate, value, due, c) /\ active' = active
      BY <1>3 DEF Y!YieldFrom
    <2>6. s = frames[active] /\ (s # <<>> => Stands(body, s[Len(s)].gen, s[Len(s)].pc, "from"))
      BY <1>1, <2>1
    <2> HIDE DEF s, value, due, c
    <2> QED
      BY <1>3, <2>1, <2>2, <2>3, <2>4, <2>5, <2>6, EnterKeeps
  <1> QED
    BY <1>2, <1>3

-----------------------------------------------------------------------------
(* The end of a body. *)
LEMMA ReturnedKept ==
  ASSUME NEW b, NEW run, NEW res, NEW tr, NEW f \in FrameRecord(b), f.pc > Len(b[f.gen]),
         SimpleBody(b[f.gen]), Good(b, f.gen, tr[f.gen]), Follows(b, f.gen, tr[f.gen], f.pc),
         Left(b, f.gen, res[f.gen]),
         NEW run2, NEW tr2, tr2[f.gen] = Append(tr[f.gen], Y!Plainly(f))
  PROVE  Kept(b, run2, res, tr2, f.gen)
  <1> DEFINE e == Y!Plainly(f)
             g == f.gen
  <1>1. e \in Entry /\ EntryFits(b, g, e) /\ e.pc = f.pc /\ f.pc \in Nat /\ Len(b[g]) \in Nat
    BY PlainlyFits DEF FrameRecord, SimpleBody
  <1>2. Good(b, g, tr[g]) /\ Follows(b, g, tr[g], e.pc) /\ ~(e.pc <= Len(b[g])) /\ g = f.gen
    BY <1>1
  <1>3. tr2[g] = Append(tr[g], e) /\ Left(b, g, res[g])
    OBVIOUS
  <1> HIDE DEF e, g
  <1>4. /\ Good(b, g, Append(tr[g], e))
        /\ \A p : After(b, g, e, p) => Follows(b, g, Append(tr[g], e), p)
    BY <1>1, <1>2, Logged
  <1>5. \A p : Follows(b, g, tr2[g], p)
    BY <1>2, <1>3, <1>4 DEF After
  <1> QED
    BY <1>2, <1>3, <1>4, <1>5 DEF Kept, Idle

LEMMA ReturnKeepsTraces == BodiesAreSimple /\ GeneratorsInv /\ Y!Return => GeneratorsInv'
  <1> SUFFICES ASSUME BodiesAreSimple, GeneratorsInv, Y!Return PROVE GeneratorsInv'
    OBVIOUS
  <1> DEFINE s == frames[active]
             n == Len(s)
             T == Y!Top
             g == T.gen
  <1>1. /\ active # 0 /\ T.pc > Len(body[g]) /\ giRunning' = [giRunning EXCEPT ![g] = FALSE]
        /\ body' = body /\ giResumeAt' = giResumeAt
        /\ Y!Below = <<>> =>
             /\ frames' = [frames EXCEPT ![active] = <<>>] /\ active' = 0
             /\ trace' = [trace EXCEPT ![g] = Append(trace[g], Y!Plainly(T))]
             /\ giSentValue' = giSentValue
        /\ Y!Below # <<>> => LET f == Y!Last(Y!Below) IN
             /\ frames' = [frames EXCEPT ![active] =
                  Append(Y!Front(Y!Below), [f EXCEPT !.pc = @ + 1, !.due = Y!None])]
             /\ giSentValue' = [giSentValue EXCEPT ![f.gen] = g]
             /\ trace' = [trace EXCEPT ![g] = Append(@, Y!Plainly(T)),
                                       ![f.gen] = Append(@, Y!Ended(f.pc, giSentValue'[f.gen], g))]
             /\ active' = active
    BY DEF Y!Return, Y!Log
  <1>2. /\ active \in ThreadId /\ 0 \notin ThreadId /\ active \in {0, active}
        /\ s \in Seq(FrameRecord(body)) /\ n \in Nat /\ n > 0 /\ n \in 1..Len(s)
        /\ T = s[n] /\ Y!Below = SubSeq(s, 1, n - 1) /\ s = frames[active] /\ n = Len(s) /\ g = T.gen
        /\ T \in FrameRecord(body) /\ g \in DOMAIN body /\ g \in Nat /\ SimpleBody(body[g])
        /\ FrameFits(body, giResumeAt[g], giSentValue[g], trace[g], T)
        /\ Generating(body, giRunning, giResumeAt, giSentValue, frames, active, trace)
    BY <1>1, AtTop
  <1>3. /\ StackTypes(body, giRunning, giResumeAt, giSentValue, frames, active, trace)
        /\ giRunning \in [DOMAIN body -> BOOLEAN] /\ giSentValue \in [DOMAIN body -> Nat]
        /\ giResumeAt \in [DOMAIN body -> Nat]
        /\ DOMAIN trace = DOMAIN body /\ Kept(body, giRunning, giResumeAt, trace, g)
    BY <1>2 DEF Generating, StackTypes
  <1>4. /\ Good(body, g, trace[g]) /\ Follows(body, g, trace[g], T.pc) /\ Left(body, g, giResumeAt[g])
    BY <1>2, <1>3 DEF Kept, FrameFits
  <1> HIDE DEF s, n, T, g
  <1>5. /\ giRunning' \in [DOMAIN body -> BOOLEAN] /\ ~giRunning'[g]
        /\ \A h \in DOMAIN body \ {g} : giRunning'[h] = giRunning[h]
    BY <1>1, <1>2, <1>3
  <1>6. trace'[g] = Append(trace[g], Y!Plainly(T)) => Kept(body, giRunning', giResumeAt, trace', g)
    BY <1>1, <1>2, <1>4, ReturnedKept
  <1>7. CASE Y!Below = <<>>
    <2> DEFINE Mine == {g}
    <2>1. /\ trace'[g] = Append(trace[g], Y!Plainly(T)) /\ DOMAIN trace' = DOMAIN body
          /\ \A h \in DOMAIN body \ {g} : trace'[h] = trace[h]
      BY <1>1, <1>2, <1>3, <1>7
    <2>2. /\ AllKept(DOMAIN body \cap Mine, body, giRunning', giResumeAt, trace')
          /\ \A h \in Mine : Runs(frames[active], h)
      BY <1>2, <1>6, <2>1 DEF AllKept, Runs
    <2>3. /\ Unchanged(DOMAIN body \ Mine, giRunning, giResumeAt, giSentValue, trace,
                       giRunning', giResumeAt, giSentValue, trace')
          /\ StackTypes(body, giRunning', giResumeAt, giSentValue, frames, active, trace')
      BY <1>3, <1>5, <2>1 DEF Unchanged, StackTypes
    <2> HIDE DEF Mine
    <2>4. Empties(body, giRunning, giResumeAt, giSentValue, frames, active, trace, Mine,
                  giRunning', giResumeAt, giSentValue, trace', frames')
      BY <1>1, <1>2, <1>7, <2>2, <2>3 DEF Empties
    <2>5. Generating(body, giRunning', giResumeAt, giSentValue, frames', 0, trace')
      BY <2>4, EmptyStep
    <2> QED
      BY <1>1, <1>7, <2>5 DEF GeneratorsInv
  <1>8. CASE Y!Below # <<>>
    <2> DEFINE f == s[n - 1]
               h == f.gen
               q == NextFrameOf(f, f.exc)
               e == Y!Ended(f.pc, g, g)
               m == n - 2
               r == Append(SubSeq(s, 1, m), q)
               Mine == {g, h}
    <2>1. /\ n - 1 \in 1..Len(s) /\ n - 1 # n /\ n - 1 < n
          /\ m \in 0..Len(s) /\ m # Len(s) /\ m + 1 = n - 1
      <3>1. n # 1
        BY <1>2, <1>8
      <3>2. n \in Nat /\ n > 0 /\ Len(s) = n
        BY <1>2
      <3>3. n > 1
        BY <3>1, <3>2
      <3> HIDE DEF f, h, q, e, r, Mine
      <3> QED
        BY <3>2, <3>3
    <2>2. /\ Y!Last(Y!Below) = f /\ Y!Front(Y!Below) = SubSeq(s, 1, m)
      <3> DEFINE c == n - 1
      <3>1. c \in Nat /\ c <= Len(s) /\ Len(s) \in Nat /\ c - 1 = m /\ c > 0
        BY <1>2, <2>1
      <3>2. Y!Below \in Seq(FrameRecord(body)) /\ Len(Y!Below) = c /\ Y!Below[c] = s[c]
        BY <1>2, <3>1
      <3>3. SubSeq(Y!Below, 1, c - 1) = SubSeq(s, 1, c - 1)
        <4> HIDE DEF c
        <4> QED
          BY <1>2, <3>1
      <3> QED
        BY <3>1, <3>2, <3>3 DEF Y!Last, Y!Front
    <2>3. /\ f \in FrameRecord(body) /\ h \in DOMAIN body /\ h # g /\ giRunning[h]
          /\ FrameFits(body, giResumeAt[h], giSentValue[h], trace[h], f)
          /\ Kept(body, giRunning, giResumeAt, trace, h)
      <3>1. n \in 1..Len(s)
        BY <1>2
      <3> QED
        BY <1>2, <2>1, <3>1, OnStack, SMTT(20)
    <2>4. Stands(body, h, f.pc, "from")
      <3>1. Stack(body, giRunning, giResumeAt, giSentValue, trace, s, TRUE)
        BY <1>2 DEF Generating, Stack
      <3> QED
        BY <1>2, <2>1, <3>1 DEF Stack
    <2>5. f.pc \in Nat \ {0} /\ f.exc \in Seq(Nat) /\ SimpleBody(body[h]) /\ Guarded(body, f)
      BY <1>3, <2>3 DEF FrameRecord, FrameFits, StackTypes, BodiesAreSimple
    <2>6. [f EXCEPT !.pc = @ + 1, !.due = Y!None] = q
      BY <2>3 DEF NextFrameOf, FrameRecord
    <2>7. /\ frames' = [frames EXCEPT ![active] = r] /\ active' = active
          /\ giSentValue' = [giSentValue EXCEPT ![h] = g]
      BY <1>1, <1>8, <2>2, <2>6
    <2>8. /\ giSentValue' \in [DOMAIN body -> Nat] /\ giSentValue'[h] = g
          /\ \A j \in DOMAIN body \ {h} : giSentValue'[j] = giSentValue[j]
      BY <1>2, <1>3, <2>3, <2>7
    <2>9. /\ trace'[g] = Append(trace[g], Y!Plainly(T)) /\ trace'[h] = Append(trace[h], e)
          /\ DOMAIN trace' = DOMAIN body /\ \A j \in DOMAIN body \ {g, h} : trace'[j] = trace[j]
      <3>1. trace' = [trace EXCEPT ![g] = Append(@, Y!Plainly(T)), ![h] = Append(@, e)]
        BY <1>1, <1>8, <2>2, <2>8
      <3> HIDE DEF h, e
      <3> QED
        BY <1>2, <1>3, <2>3, <3>1
    <2>10. e \in Entry /\ EntryFits(body, h, e) /\ e.pc = f.pc /\ e.raised = "nothing"
      BY <1>2, <2>5 DEF Y!Ended, Entry, EntryFits
    <2>11. q \in FrameRecord(body) /\ q.gen = h /\ q.pc = f.pc + 1 /\ q.exc = f.exc
      BY <2>3, <2>5, NextFrame
    <2>12. h = f.gen /\ r = Append(SubSeq(s, 1, m), q) /\ Mine = {g, h} /\ s[n - 1] = f
      OBVIOUS
    <2> HIDE DEF f, h, q, e, m, r, Mine
    <2>13. Guarded(body, q)
      <3> DEFINE statement == "from"
      <3>1. Stands(body, f.gen, f.pc, statement) /\ statement \notin {"try", "end"}
        BY <2>4, <2>12
      <3> HIDE DEF statement
      <3> QED
        BY <2>3, <2>5, <2>11, <2>12, <3>1, GuardedNext
    <2>14. Good(body, h, trace'[h]) /\ Follows(body, h, trace'[h], q.pc)
      <3>1. Good(body, h, trace[h]) /\ Follows(body, h, trace[h], e.pc)
        BY <2>3, <2>10, <2>12 DEF Kept, FrameFits
      <3>2. /\ Good(body, h, Append(trace[h], e))
            /\ \A p : After(body, h, e, p) => Follows(body, h, Append(trace[h], e), p)
        BY <2>10, <3>1, Logged
      <3> QED
        BY <2>9, <2>10, <2>11, <3>2 DEF After
    <2>15. Kept(body, giRunning', giResumeAt, trace', h) /\ giRunning'[h]
      BY <1>5, <2>3, <2>14 DEF Kept
    <2>16. FrameFits(body, giResumeAt[q.gen], giSentValue'[q.gen], trace'[q.gen], q)
      <3>1. f.pc >= giResumeAt[h] /\ giResumeAt[h] \in Nat
        BY <1>3, <2>3 DEF FrameFits
      <3>2. q.pc >= giResumeAt[h] /\ q.pc # giResumeAt[h]
        BY <2>5, <2>11, <3>1
      <3> QED
        BY <2>11, <2>13, <2>14, <3>2 DEF FrameFits
    <2>17. /\ Unchanged(DOMAIN body \ Mine, giRunning, giResumeAt, giSentValue, trace,
                        giRunning', giResumeAt, giSentValue', trace')
           /\ AllKept(DOMAIN body \cap Mine, body, giRunning', giResumeAt, trace')
      BY <1>5, <1>6, <2>8, <2>9, <2>12, <2>15 DEF Unchanged, AllKept
    <2>18. StackTypes(body, giRunning', giResumeAt, giSentValue', frames, active, trace')
      BY <1>3, <1>5, <2>8, <2>9 DEF StackTypes
    <2>19. FreeAbove(Mine, s, m, giRunning) /\ MayStay(body, s, m)
      <3>1. n - 1 \in (m + 1)..Len(s) /\ n \in (m + 1)..Len(s)
        BY <1>2, <2>1
      <3>2. \A j \in Mine : \E k \in (m + 1)..Len(s) : s[k].gen = j
        BY <1>2, <2>12, <3>1
      <3> QED
        BY <2>1, <3>2 DEF FreeAbove, MayStay
    <2>20. Pushes(body, giRunning, giResumeAt, giSentValue, frames, active, trace, active, s, m, q, r,
                  Mine, giRunning', giResumeAt, giSentValue', trace', frames')
      BY <1>2, <2>1, <2>7, <2>11, <2>12, <2>15, <2>16, <2>17, <2>18, <2>19 DEF Pushes
    <2>21. Generating(body, giRunning', giResumeAt, giSentValue', frames', active, trace')
      BY <2>20, PushStep
    <2> QED
      BY <1>1, <2>7, <2>21 DEF GeneratorsInv
  <1> QED
    BY <1>7, <1>8

-----------------------------------------------------------------------------
LEMMA GeneratorsStart == BodiesAreSimple /\ Y!Init => GeneratorsInv
  <1> SUFFICES ASSUME BodiesAreSimple, Y!Init PROVE GeneratorsInv
    OBVIOUS
  <1> USE DEF Y!Init, Y!Generator, Y!None
  <1>1. StackTypes(body, giRunning, giResumeAt, giSentValue, frames, active, trace)
    BY DEF StackTypes
  <1>2. \A t \in ThreadId : frames[t] = <<>> /\ t # active
    BY DEF BodiesAreSimple
  <1>3. \A t \in ThreadId :
          /\ Stack(body, giRunning, giResumeAt, giSentValue, trace, frames[t], t = active)
          /\ \A g : ~Runs(frames[t], g)
    BY <1>2 DEF Stack, Runs
  <1>4. \A g \in DOMAIN body : Kept(body, giRunning, giResumeAt, trace, g)
    <2> SUFFICES ASSUME NEW g \in DOMAIN body PROVE Kept(body, giRunning, giResumeAt, trace, g)
      OBVIOUS
    <2>1. trace[g] = <<>> /\ giResumeAt[g] = 0 /\ <<>> \in Seq(Entry)
      OBVIOUS
    <2> QED
      BY <2>1 DEF Kept, Good, Left, Idle, Follows
  <1> QED
    BY <1>1, <1>3, <1>4 DEF GeneratorsInv, Generating

LEMMA GeneratorsNext == BodiesAreSimple /\ GeneratorsInv /\ requests \in Nat /\ [Y!Next]_Y!vars =>
                        GeneratorsInv' /\ requests' \in Nat
  <1> SUFFICES ASSUME BodiesAreSimple, GeneratorsInv, requests \in Nat, [Y!Next]_Y!vars
               PROVE  GeneratorsInv' /\ requests' \in Nat
    OBVIOUS
  <1>1. CASE UNCHANGED Y!vars
    BY <1>1 DEF Y!vars, GeneratorsInv
  <1>2. CASE \E t \in ThreadId : Y!Wake(t)
    BY <1>2, WakeKeeps DEF Y!Wake
  <1>3. CASE \E t \in ThreadId, g \in Y!Generator : Y!Ask(t, g)
    BY <1>3, AskKeeps DEF Y!Ask
  <1>4. CASE Y!Try
    BY <1>4, TryKeeps DEF Y!Try
  <1>5. CASE Y!EndTry
    BY <1>5, EndTryKeeps DEF Y!EndTry
  <1>6. CASE Y!Raise
    BY <1>6, RaiseKeepsTraces DEF Y!Raise, Y!Throw
  <1>7. CASE Y!Yield
    BY <1>7, YieldKeeps DEF Y!Yield
  <1>8. CASE Y!YieldFrom
    BY <1>8, YieldFromKeeps DEF Y!YieldFrom, Y!Throw
  <1>9. CASE Y!Return
    BY <1>9, ReturnKeepsTraces DEF Y!Return
  <1>10. CASE Y!Wait
    BY <1>10, WaitKeeps DEF Y!Wait
  <1> QED
    BY <1>1, <1>2, <1>3, <1>4, <1>5, <1>6, <1>7, <1>8, <1>9, <1>10 DEF Y!Next

LEMMA GeneratorsSuffice == GeneratorsInv => Y!GeneratorsGoOn
  <1> SUFFICES ASSUME GeneratorsInv, NEW g \in Y!Generator, NEW i \in DOMAIN trace[g]
               PROVE  LET e == trace[g][i]
                      IN /\ e.due # Y!Begun => e.got = e.due
                         /\ IF i = 1 THEN e.pc = 1
                            ELSE LET previous == trace[g][i - 1]
                                 IN Y!ByPython(g, previous) =>
                                      IF previous.raised = "nothing" THEN e.pc = previous.pc + 1
                                      ELSE previous.raised = "caught" /\ e.pc = Y!Handler(g)
                         /\ (e.raised = "uncaught" /\ Y!InTry(g, e.pc)) => Y!GivesWithin(g, e.pc)
    BY DEF Y!GeneratorsGoOn
  <1> DEFINE e == trace[g][i]
  <1>1. Good(body, g, trace[g])
    BY DEF GeneratorsInv, Generating, Kept, Y!Generator
  <1>2. /\ i \in 1..Len(trace[g]) /\ EntryFits(body, g, e) /\ (i = 1 => e.pc = 1)
        /\ i # 1 => After(body, g, trace[g][i - 1], e.pc)
    BY <1>1 DEF Good
  <1>3. /\ \A pc : Y!InTry(g, pc) <=> Tried(body, g, pc)
        /\ \A pc : Y!GivesWithin(g, pc) <=> Gave(body, g, pc)
        /\ Y!Handler(g) = Behind(body, g)
    BY DEF Y!InTry, Tried, Y!GivesWithin, Gave, Y!Handler, Behind
  <1> HIDE DEF e
  <1>4. /\ e.due # Y!Begun => e.got = e.due
        /\ (e.raised = "uncaught" /\ Y!InTry(g, e.pc)) => Y!GivesWithin(g, e.pc)
    BY <1>2, <1>3 DEF EntryFits
  <1>5. ASSUME i # 1, Y!ByPython(g, trace[g][i - 1])
        PROVE  IF trace[g][i - 1].raised = "nothing" THEN e.pc = trace[g][i - 1].pc + 1
               ELSE trace[g][i - 1].raised = "caught" /\ e.pc = Y!Handler(g)
    BY <1>2, <1>3, <1>5 DEF After, Y!ByPython
  <1> QED
    BY <1>2, <1>4, <1>5 DEF e

(* Whatever threads ask generators for values, and however they are        *)
(* suspended meanwhile, a generator runs the statements of its body once   *)
(* each and in order.                                                      *)
THEOREM GeneratorsAlwaysGoOn == Y!Spec => []GeneratorsGoOn
  <1>0. BodiesAreSimple
    BY ProgramAssumption
  <1>1. Y!Init => GeneratorsInv /\ requests \in Nat
    BY <1>0, GeneratorsStart DEF Y!Init
  <1>2. GeneratorsInv /\ requests \in Nat /\ [Y!Next]_Y!vars => (GeneratorsInv /\ requests \in Nat)'
    BY <1>0, GeneratorsNext
  <1> QED
    BY <1>1, <1>2, GeneratorsSuffice, PTL DEF Y!Spec, GeneratorsGoOn

=============================================================================
