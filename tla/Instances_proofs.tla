-------------------------- MODULE Instances_proofs --------------------------
(***************************************************************************)
(* Proofs about instances and draw layers, for any number of actors, of    *)
(* instances and any moves: what is drawn and what the actors have agree,  *)
(* and nothing but a move changes the order.  The invariant, InstInv, also *)
(* holds when the program clones sprites it has deleted; the projects      *)
(* which use instances build on it.                                        *)
(***************************************************************************)
EXTENDS Instances, SequenceTheorems, WellFoundedInduction, TLAPS

-----------------------------------------------------------------------------
(* Concatenation and filtering.                                            *)

(* Where the elements of a concatenation are. *)
LEMMA ConcatPlaces ==
  ASSUME NEW S, NEW s \in Seq(S), NEW t \in Seq(S), NEW u, u = s \o t
  PROVE  /\ DOMAIN s = 1..Len(s) /\ DOMAIN t = 1..Len(t) /\ DOMAIN u = 1..(Len(s) + Len(t))
         /\ Len(s) \in Nat /\ Len(t) \in Nat /\ Len(u) = Len(s) + Len(t) /\ u \in Seq(S)
         /\ \A k \in 1..Len(s) : u[k] = s[k]
         /\ \A k \in 1..Len(t) : u[Len(s) + k] = t[k]
  <1>1. /\ Len(s) \in Nat /\ Len(t) \in Nat
        /\ DOMAIN s = 1..Len(s) /\ DOMAIN t = 1..Len(t)
    BY LenProperties
  <1>2. /\ u \in Seq(S) /\ Len(u) = Len(s) + Len(t)
        /\ \A k \in 1..(Len(s) + Len(t)) : u[k] = IF k <= Len(s) THEN s[k] ELSE t[k - Len(s)]
    BY ConcatProperties
  <1>3. DOMAIN u = 1..(Len(s) + Len(t))
    BY <1>2, LenProperties
  <1>4. \A k \in 1..Len(s) : u[k] = s[k]
    BY <1>1, <1>2
  <1>5. ASSUME NEW k \in 1..Len(t) PROVE u[Len(s) + k] = t[k]
    <2>1. PICK n \in 1..(Len(s) + Len(t)) : n = Len(s) + k
      BY <1>1
    <2>2. ~(n <= Len(s)) /\ n - Len(s) = k
      BY <1>1, <2>1
    <2>3. u[n] = t[n - Len(s)]
      BY <1>2, <2>2
    <2> QED
      BY <2>1, <2>2, <2>3
  <1> QED
    BY <1>1, <1>2, <1>3, <1>4, <1>5

(* One step of filtering. *)
Kept(left, s, S, n) ==
  IF n = 0 THEN <<>>
  ELSE IF s[n] \in S THEN Append(left[n - 1], s[n]) ELSE left[n - 1]

(* A property which fails for a natural number fails for a least one. *)
LEMMA LeastFailure ==
  ASSUME NEW F \in SUBSET Nat, F # {}
  PROVE  \E n \in F : \A k \in F : n <= k
  <1>1. PICK n \in F : \A k \in F : ~(<<k, n>> \in OpToRel(<, Nat))
    BY NatLessThanWellFounded, WFMin
  <1>2. \A k \in F : ~(k < n)
    BY <1>1 DEF OpToRel
  <1> QED
    BY <1>2

(* Filtered is a recursive function; it is what its equation says.         *)
LEMMA FilteringIsDefined ==
  ASSUME NEW s, NEW S, Len(s) \in Nat
  PROVE  \E left : left = [n \in 0..Len(s) |-> Kept(left, s, S, n)]
  <1> DEFINE Done(m) == \E left : left = [n \in 0..m |-> Kept(left, s, S, n)]
             F == {m \in Nat : ~Done(m)}
  <1>1. ASSUME F # {} PROVE FALSE
    <2>1. PICK m \in F : \A k \in F : m <= k
      BY <1>1, LeastFailure
    <2>2. CASE m = 0
      <3>1. PICK left : left = [n \in 0..0 |-> <<>>]
        OBVIOUS
      <3>2. left = [n \in 0..0 |-> Kept(left, s, S, n)]
        BY <3>1 DEF Kept
      <3> QED
        BY <2>1, <2>2, <3>2
    <2>3. CASE m > 0
      <3>1. m - 1 \in Nat /\ m \in Nat
        BY <2>3
      <3>2. Done(m - 1)
        BY <2>1, <3>1
      <3>3. PICK left : left = [n \in 0..(m - 1) |-> Kept(left, s, S, n)]
        BY <3>2
      <3>4. PICK more : more = [n \in 0..m |-> IF n = m THEN Kept(left, s, S, m) ELSE left[n]]
        OBVIOUS
      <3>5. ASSUME NEW n \in 0..m PROVE more[n] = Kept(more, s, S, n)
        <4>1. n # 0 => n - 1 \in 0..m /\ n - 1 # m
          BY <3>1
        <4>2. n # 0 => more[n - 1] = left[n - 1]
          BY <3>4, <4>1
        <4>3. Kept(more, s, S, n) = Kept(left, s, S, n)
          BY <4>2 DEF Kept
        <4>4. n # m => n \in 0..(m - 1)
          BY <3>1
        <4>5. n # m => left[n] = Kept(left, s, S, n)
          BY <3>3, <4>4
        <4> QED
          BY <3>4, <4>3, <4>5
      <3>6. more = [n \in 0..m |-> Kept(more, s, S, n)]
        BY <3>4, <3>5
      <3> QED
        BY <2>1, <3>6
    <2> QED
      BY <2>2, <2>3
  <1>2. Done(Len(s))
    BY <1>1
  <1> QED
    BY <1>2

LEMMA FilteringSteps ==
  ASSUME NEW s, NEW S, Len(s) \in Nat
  PROVE  \E left : /\ \A n \in 0..Len(s) : left[n] = Kept(left, s, S, n)
                   /\ Filtered(s, S) = left[Len(s)]
  <1>1. PICK left : /\ left = CHOOSE f : f = [n \in 0..Len(s) |-> Kept(f, s, S, n)]
    OBVIOUS
  <1>2. left = [n \in 0..Len(s) |-> Kept(left, s, S, n)]
    BY <1>1, FilteringIsDefined
  <1>3. Filtered(s, S) = left[Len(s)]
    BY <1>1 DEF Filtered, Kept
  <1> QED
    BY <1>2, <1>3

(* p tells from which places up to n the elements of t were taken. *)
Picks(t, p, s, S, n) ==
  /\ p \in [1..Len(t) -> 1..n]
  /\ \A k \in 1..Len(t) : t[k] = s[p[k]] /\ s[p[k]] \in S
  /\ \A j, k \in 1..Len(t) : j < k => p[j] < p[k]
  /\ \A j \in 1..n : s[j] \in S => \E k \in 1..Len(t) : p[k] = j

(* One more element is looked at, and taken...                             *)
LEMMA PickOne ==
  ASSUME NEW T, NEW s \in Seq(T), NEW S, NEW n \in 1..Len(s), NEW t \in Seq(T), NEW p,
         Picks(t, p, s, S, n - 1), s[n] \in S
  PROVE  \E q : Picks(Append(t, s[n]), q, s, S, n)
  <1>1. s[n] \in T /\ Len(t) \in Nat /\ Len(s) \in Nat
    BY ElementOfSeq, LenProperties
  <1>2. PICK u : u = Append(t, s[n])
    OBVIOUS
  <1>3. PICK q : q = [k \in 1..(Len(t) + 1) |-> IF k = Len(t) + 1 THEN n ELSE p[k]]
    OBVIOUS
  <1>4. /\ Len(u) = Len(t) + 1 /\ u[Len(t) + 1] = s[n]
        /\ \A k \in 1..Len(t) : u[k] = t[k]
    BY <1>1, <1>2, AppendProperties
  <1>5. /\ \A k \in 1..Len(t) : q[k] = p[k] /\ p[k] \in 1..(n - 1)
        /\ q[Len(t) + 1] = n
    BY <1>1, <1>3 DEF Picks
  <1>6. \A k \in 1..Len(u) : k \in 1..Len(t) \/ k = Len(t) + 1
    BY <1>1, <1>4
  <1>7. q \in [1..Len(u) -> 1..n]
    <2>1. \A k \in 1..Len(u) : q[k] \in 1..n
      BY <1>5, <1>6
    <2>2. DOMAIN q = 1..Len(u)
      BY <1>3, <1>4
    <2> QED
      BY <1>3, <1>4, <2>1
  <1>8. \A k \in 1..Len(u) : u[k] = s[q[k]] /\ s[q[k]] \in S
    BY <1>4, <1>5, <1>6 DEF Picks
  <1>9. ASSUME NEW j \in 1..Len(u), NEW k \in 1..Len(u), j < k PROVE q[j] < q[k]
    <2>1. j \in 1..Len(t)
      BY <1>1, <1>4, <1>9
    <2>2. CASE k \in 1..Len(t)
      BY <1>5, <1>9, <2>1, <2>2 DEF Picks
    <2>3. CASE k = Len(t) + 1
      BY <1>5, <2>1, <2>3
    <2> QED
      BY <1>6, <2>2, <2>3
  <1>10. ASSUME NEW j \in 1..n, s[j] \in S PROVE \E k \in 1..Len(u) : q[k] = j
    <2>1. CASE j = n
      <3>1. Len(t) + 1 \in 1..Len(u)
        BY <1>1, <1>4
      <3> QED
        BY <1>5, <2>1, <3>1
    <2>2. CASE j # n
      <3>1. j \in 1..(n - 1)
        BY <2>2
      <3>2. PICK k \in 1..Len(t) : p[k] = j
        BY <1>10, <3>1 DEF Picks
      <3>3. k \in 1..Len(u)
        BY <1>1, <1>4
      <3> QED
        BY <1>5, <3>2, <3>3
    <2> QED
      BY <2>1, <2>2
  <1> QED
    BY <1>2, <1>7, <1>8, <1>9, <1>10 DEF Picks

(* ...or left out.                                                         *)
LEMMA PickNone ==
  ASSUME NEW s, NEW S, NEW n \in Nat \ {0}, NEW t, NEW p,
         Picks(t, p, s, S, n - 1), s[n] \notin S
  PROVE  Picks(t, p, s, S, n)
  <1>1. \A j \in 1..n : j # n => j \in 1..(n - 1)
    OBVIOUS
  <1>2. p \in [1..Len(t) -> 1..n]
    BY DEF Picks
  <1> QED
    BY <1>1, <1>2 DEF Picks

(* Filtering keeps the elements of S, in the places p takes them from.     *)
LEMMA FilteredPlaces ==
  ASSUME NEW T, NEW s \in Seq(T), NEW S
  PROVE  /\ Filtered(s, S) \in Seq(T)
         /\ \E p : Picks(Filtered(s, S), p, s, S, Len(s))
  <1>1. Len(s) \in Nat
    BY LenProperties
  <1>2. PICK left : /\ \A n \in 0..Len(s) : left[n] = Kept(left, s, S, n)
                    /\ Filtered(s, S) = left[Len(s)]
    BY <1>1, FilteringSteps
  <1> DEFINE Done(n) == left[n] \in Seq(T) /\ \E p : Picks(left[n], p, s, S, n)
             F == {n \in 0..Len(s) : ~Done(n)}
  <1>3. ASSUME F # {} PROVE FALSE
    <2>1. F \in SUBSET Nat
      OBVIOUS
    <2>2. PICK n \in F : \A k \in F : n <= k
      BY <1>3, <2>1, LeastFailure
    <2>3. CASE n = 0
      <3>1. left[0] = <<>>
        BY <1>1, <1>2 DEF Kept
      <3>2. PICK t : t = <<>>
        OBVIOUS
      <3>3. PICK p : p = <<>>
        OBVIOUS
      <3>4. t \in Seq(T) /\ Len(t) = 0
        BY <3>2
      <3>5. Picks(t, p, s, S, 0)
        BY <3>3, <3>4 DEF Picks
      <3> QED
        BY <2>2, <2>3, <3>1, <3>2, <3>4, <3>5
    <2>4. CASE n # 0
      <3>1. n - 1 \in 0..Len(s) /\ n \in 1..Len(s) /\ n \in Nat \ {0} /\ ~(n <= n - 1)
        BY <1>1, <2>4
      <3>2. Done(n - 1)
        BY <2>2, <3>1
      <3>3. PICK t : t = left[n - 1]
        OBVIOUS
      <3>4. PICK p : t \in Seq(T) /\ Picks(t, p, s, S, n - 1)
        BY <3>2, <3>3
      <3>5. left[n] = IF s[n] \in S THEN Append(t, s[n]) ELSE t
        BY <1>2, <2>4, <3>3 DEF Kept
      <3>6. CASE s[n] \in S
        <4>1. \E q : Picks(Append(t, s[n]), q, s, S, n)
          BY <3>1, <3>4, <3>6, PickOne
        <4>2. s[n] \in T
          BY <3>1, ElementOfSeq
        <4>3. Append(t, s[n]) \in Seq(T)
          BY <3>4, <4>2, AppendProperties
        <4> QED
          BY <2>2, <3>5, <3>6, <4>1, <4>3
      <3>7. CASE s[n] \notin S
        <4>1. Picks(t, p, s, S, n)
          BY <3>1, <3>4, <3>7, PickNone
        <4> QED
          BY <2>2, <3>4, <3>5, <3>7, <4>1
      <3> QED
        BY <3>6, <3>7
    <2> QED
      BY <2>3, <2>4
  <1>4. Done(Len(s))
    BY <1>1, <1>3
  <1> QED
    BY <1>2, <1>4

-----------------------------------------------------------------------------
(* Layers: where the elements are after an insertion or a removal.         *)

LEMMA InsertPlaces ==
  ASSUME NEW T, NEW s \in Seq(T), NEW e \in T, NEW k \in 1..(Len(s) + 1), NEW u,
         u = InsertAt(s, k, e)
  PROVE  /\ u \in Seq(T) /\ Len(s) \in Nat /\ Len(u) = Len(s) + 1
         /\ \A j \in 1..Len(s) : j < k => u[j] = s[j]
         /\ u[k] = e
         /\ \A j \in 1..Len(u) : j > k => u[j] = s[j - 1]
  <1>1. Len(s) \in Nat /\ \A j \in 1..Len(s) : s[j] \in T
    BY LenProperties, ElementOfSeq
  <1>2. PICK a : a = SubSeq(s, 1, k - 1)
    OBVIOUS
  <1>3. PICK b : b = SubSeq(s, k, Len(s))
    OBVIOUS
  <1>4. a \in Seq(T) /\ Len(a) = k - 1 /\ \A j \in 1..(k - 1) : a[j] = s[j]
    BY <1>1, <1>2, SubSeqProperties
  <1>5. b \in Seq(T) /\ Len(b) = Len(s) - k + 1 /\ \A j \in 1..(Len(s) - k + 1) : b[j] = s[k + j - 1]
    BY <1>1, <1>3, SubSeqProperties
  <1>6. PICK c : c = <<e>>
    OBVIOUS
  <1>7. c \in Seq(T) /\ Len(c) = 1 /\ c[1] = e
    BY <1>6
  <1>8. PICK d : d = a \o c
    OBVIOUS
  <1>9. d \in Seq(T) /\ Len(d) = k /\ (\A j \in 1..(k - 1) : d[j] = s[j]) /\ d[k] = e
    <2>1. /\ d \in Seq(T) /\ Len(d) = Len(a) + Len(c)
          /\ \A j \in 1..Len(a) : d[j] = a[j]
          /\ \A j \in 1..Len(c) : d[Len(a) + j] = c[j]
      <3>1. a \in Seq(T) /\ c \in Seq(T)
        BY <1>4, <1>7
      <3> QED
        BY <3>1, <1>8, ConcatPlaces
    <2>2. \A j \in 1..(k - 1) : d[j] = s[j]
      BY <2>1, <1>4
    <2>3. Len(d) = k /\ Len(a) + 1 = k
      BY <2>1, <1>4, <1>7
    <2>4. d[k] = c[1]
      BY <2>1, <2>3, <1>7
    <2> QED
      BY <2>1, <2>2, <2>4, <2>3, <1>7
  <1>10. u = d \o b
    BY <1>2, <1>3, <1>6, <1>8 DEF InsertAt
  <1>11. /\ u \in Seq(T) /\ Len(u) = Len(d) + Len(b)
         /\ \A j \in 1..Len(d) : u[j] = d[j]
         /\ \A j \in 1..Len(b) : u[Len(d) + j] = b[j]
    <2>1. d \in Seq(T) /\ b \in Seq(T)
      BY <1>5, <1>9
    <2> QED
      BY <2>1, <1>10, ConcatPlaces
  <1>12. u \in Seq(T) /\ Len(u) = Len(s) + 1 /\ \A j \in 1..k : u[j] = d[j]
    BY <1>1, <1>5, <1>9, <1>11
  <1>13. ASSUME NEW j \in 1..Len(u), j > k PROVE u[j] = s[j - 1]
    <2>1. PICK n \in 1..(Len(s) - k + 1) : n = j - k
      BY <1>1, <1>12, <1>13
    <2>2. j = Len(d) + n /\ n \in 1..Len(b)
      BY <2>1, <1>1, <1>5, <1>9, <1>12
    <2>3. u[j] = b[n]
      BY <1>11, <2>2
    <2>4. k + n - 1 = j - 1
      BY <2>1, <1>1, <1>12
    <2> QED
      BY <1>5, <2>3, <2>4
  <1> QED
    BY <1>1, <1>9, <1>12, <1>13

LEMMA RemovePlaces ==
  ASSUME NEW T, NEW s \in Seq(T), NEW k \in 1..Len(s), NEW u, u = RemoveAt(s, k)
  PROVE  /\ u \in Seq(T) /\ Len(s) \in Nat /\ Len(u) = Len(s) - 1
         /\ \A j \in 1..Len(u) : j < k => u[j] = s[j]
         /\ \A j \in 1..Len(u) : j >= k => u[j] = s[j + 1]
  <1>1. Len(s) \in Nat /\ \A j \in 1..Len(s) : s[j] \in T
    BY LenProperties, ElementOfSeq
  <1>2. PICK a : a = SubSeq(s, 1, k - 1)
    OBVIOUS
  <1>3. PICK b : b = SubSeq(s, k + 1, Len(s))
    OBVIOUS
  <1>4. a \in Seq(T) /\ Len(a) = k - 1 /\ \A j \in 1..(k - 1) : a[j] = s[j]
    BY <1>1, <1>2, SubSeqProperties
  <1>5. b \in Seq(T) /\ Len(b) = Len(s) - k /\ \A j \in 1..(Len(s) - k) : b[j] = s[(k + 1) + j - 1]
    BY <1>1, <1>3, SubSeqProperties
  <1>6. u = a \o b
    BY <1>2, <1>3 DEF RemoveAt
  <1>7. /\ u \in Seq(T) /\ Len(u) = Len(a) + Len(b)
        /\ \A j \in 1..Len(a) : u[j] = a[j]
        /\ \A j \in 1..Len(b) : u[Len(a) + j] = b[j]
    <2>1. a \in Seq(T) /\ b \in Seq(T)
      BY <1>4, <1>5
    <2> QED
      BY <2>1, <1>6, ConcatPlaces
  <1>8. u \in Seq(T) /\ Len(u) = Len(s) - 1 /\ \A j \in 1..(k - 1) : u[j] = a[j]
    BY <1>1, <1>4, <1>5, <1>7
  <1>9. ASSUME NEW j \in 1..Len(u), j >= k PROVE u[j] = s[j + 1]
    <2>1. PICK n \in 1..(Len(s) - k) : n = j - (k - 1)
      BY <1>1, <1>8, <1>9
    <2>2. j = Len(a) + n /\ n \in 1..Len(b)
      BY <2>1, <1>1, <1>4, <1>5, <1>8
    <2>3. u[j] = b[n]
      BY <1>7, <2>2
    <2>4. (k + 1) + n - 1 = j + 1
      BY <2>1, <1>1, <1>8
    <2> QED
      BY <1>5, <2>3, <2>4
  <1> QED
    BY <1>1, <1>4, <1>8, <1>9

(* i stands before j in the layer s. *)
Earlier(s, i, j) == \E a, b \in DOMAIN s : a < b /\ s[a] = i /\ s[b] = j

(* The places of a sequence.                                               *)
LEMMA Positions ==
  ASSUME NEW T, NEW s \in Seq(T)
  PROVE  /\ Len(s) \in Nat /\ DOMAIN s = 1..Len(s)
         /\ \A k \in DOMAIN s : k \in Nat /\ s[k] \in T
         /\ Range(s) = {s[k] : k \in DOMAIN s}
  <1>1. Len(s) \in Nat /\ DOMAIN s = 1..Len(s)
    BY LenProperties
  <1>2. \A k \in DOMAIN s : k \in Nat /\ s[k] \in T
    BY <1>1, ElementOfSeq
  <1> QED
    BY <1>1, <1>2 DEF Range

(* Behind, which compares first places, is to stand before when no         *)
(* instance is drawn twice.                                                *)
LEMMA BehindIsEarlier ==
  ASSUME NEW T, NEW s \in Seq(T), NEW i, NEW j, Behind(s, i, j)
  PROVE  Earlier(s, i, j)
  <1>1. PICK a : a = CHOOSE k \in DOMAIN s : s[k] = i
    OBVIOUS
  <1>2. PICK b : b = CHOOSE k \in DOMAIN s : s[k] = j
    OBVIOUS
  <1>3. a \in DOMAIN s /\ s[a] = i /\ b \in DOMAIN s /\ s[b] = j
    BY <1>1, <1>2 DEF Behind, Drawn
  <1>4. a - 1 < b - 1
    BY <1>1, <1>2 DEF Behind, IndexOf
  <1>5. a < b
    BY <1>3, <1>4, Positions
  <1> QED
    BY <1>3, <1>5 DEF Earlier

(* When no instance is drawn twice, of two different ones at most one      *)
(* stands before the other.                                                *)
LEMMA EarlierOneWay ==
  ASSUME NEW T, NEW s \in Seq(T), IsInjective(s), NEW i, NEW j, Earlier(s, i, j)
  PROVE  ~Earlier(s, j, i)
  <1> SUFFICES ASSUME Earlier(s, j, i) PROVE FALSE
    OBVIOUS
  <1>1. PICK a, b \in DOMAIN s : a < b /\ s[a] = i /\ s[b] = j
    BY DEF Earlier
  <1>2. PICK c, d \in DOMAIN s : c < d /\ s[c] = j /\ s[d] = i
    BY DEF Earlier
  <1>3. c = b /\ d = a
    BY <1>1, <1>2 DEF IsInjective
  <1> QED
    BY <1>1, <1>2, <1>3, Positions

(* Filtering keeps just the elements of S, and their order.                *)
LEMMA FilteredKeeps ==
  ASSUME NEW T, NEW s \in Seq(T), NEW S, NEW u, u = Filtered(s, S)
  PROVE  /\ u \in Seq(T)
         /\ \A k \in DOMAIN u : u[k] \in S /\ u[k] \in Range(s)
         /\ \A k \in DOMAIN s : s[k] \in S => s[k] \in Range(u)
         /\ IsInjective(s) => IsInjective(u)
         /\ \A i, j : Earlier(u, i, j) => Earlier(s, i, j)
  <1>1. u \in Seq(T)
    BY FilteredPlaces
  <1>2. PICK p : Picks(u, p, s, S, Len(s))
    BY FilteredPlaces
  <1>3. /\ DOMAIN u = 1..Len(u) /\ Range(u) = {u[k] : k \in DOMAIN u}
        /\ \A k \in DOMAIN u : k \in Nat
    BY <1>1, Positions
  <1>4. DOMAIN s = 1..Len(s) /\ Range(s) = {s[k] : k \in DOMAIN s}
    BY Positions
  <1>5. \A k \in DOMAIN u : p[k] \in DOMAIN s /\ u[k] = s[p[k]] /\ u[k] \in S
    BY <1>2, <1>3, <1>4 DEF Picks
  <1>6. \A j, k \in DOMAIN u : j < k => p[j] < p[k]
    BY <1>2, <1>3 DEF Picks
  <1>7. ASSUME NEW k \in DOMAIN s, s[k] \in S PROVE s[k] \in Range(u)
    <2>1. PICK n \in DOMAIN u : p[n] = k
      BY <1>2, <1>3, <1>4, <1>7 DEF Picks
    <2> QED
      BY <1>3, <1>5, <2>1
  <1>8. ASSUME IsInjective(s), NEW j \in DOMAIN u, NEW k \in DOMAIN u, u[j] = u[k]
        PROVE  j = k
    <2>1. p[j] = p[k]
      BY <1>5, <1>8 DEF IsInjective
    <2>2. ~(j < k) /\ ~(k < j)
      <3>1. p[j] \in Nat /\ p[k] \in Nat
        BY <1>5, Positions
      <3> QED
        BY <1>6, <2>1, <3>1
    <2> QED
      BY <1>3, <2>2
  <1>9. IsInjective(s) => IsInjective(u)
    BY <1>8 DEF IsInjective
  <1>10. ASSUME NEW i, NEW j, Earlier(u, i, j) PROVE Earlier(s, i, j)
    <2>1. PICK a, b \in DOMAIN u : a < b /\ u[a] = i /\ u[b] = j
      BY <1>10 DEF Earlier
    <2> QED
      BY <1>5, <1>6, <2>1 DEF Earlier
  <1> QED
    BY <1>1, <1>4, <1>5, <1>7, <1>9, <1>10

(* Taking instances from a layer leaves the others, in order.              *)
LEMMA WithoutFacts ==
  ASSUME NEW T, NEW s \in Seq(T), NEW gone, NEW u, u = Without(s, gone)
  PROVE  /\ u \in Seq(T)
         /\ \A k \in DOMAIN u : u[k] \notin gone /\ Drawn(s, u[k])
         /\ \A i : Drawn(s, i) /\ i \notin gone => Drawn(u, i)
         /\ IsInjective(s) => IsInjective(u)
         /\ \A i, j : Earlier(u, i, j) => Earlier(s, i, j)
  <1>1. u = Filtered(s, Range(s) \ gone)
    BY DEF Without
  <1>2. /\ u \in Seq(T)
        /\ \A k \in DOMAIN u : u[k] \in Range(s) \ gone /\ u[k] \in Range(s)
        /\ \A k \in DOMAIN s : s[k] \in Range(s) \ gone => s[k] \in Range(u)
        /\ IsInjective(s) => IsInjective(u)
        /\ \A i, j : Earlier(u, i, j) => Earlier(s, i, j)
    BY <1>1, FilteredKeeps
  <1>3. Range(u) = {u[k] : k \in DOMAIN u} /\ Range(s) = {s[k] : k \in DOMAIN s}
    BY <1>2, Positions
  <1> QED
    BY <1>2, <1>3 DEF Drawn

(* Inserting an instance leaves the order of the others alone.             *)
LEMMA InsertFacts ==
  ASSUME NEW T, NEW s \in Seq(T), NEW e \in T, NEW k \in 1..(Len(s) + 1), NEW u,
         u = InsertAt(s, k, e), ~Drawn(s, e)
  PROVE  /\ u \in Seq(T)
         /\ \A j \in DOMAIN u : u[j] = e \/ Drawn(s, u[j])
         /\ \A i : i = e \/ Drawn(s, i) => Drawn(u, i)
         /\ IsInjective(s) => IsInjective(u)
         /\ \A i, j : Earlier(u, i, j) /\ i # e /\ j # e => Earlier(s, i, j)
  <1>1. /\ u \in Seq(T) /\ Len(s) \in Nat /\ Len(u) = Len(s) + 1
        /\ \A j \in 1..Len(s) : j < k => u[j] = s[j]
        /\ u[k] = e
        /\ \A j \in 1..Len(u) : j > k => u[j] = s[j - 1]
    BY InsertPlaces
  <1>2. DOMAIN s = 1..Len(s) /\ DOMAIN u = 1..(Len(s) + 1) /\ DOMAIN u \subseteq Nat
    BY <1>1, Positions
  <1> DEFINE Old(j) == IF j < k THEN j ELSE j - 1
  <1>3. \A j \in DOMAIN u : j # k => /\ Old(j) \in DOMAIN s
                                     /\ u[j] = s[Old(j)]
    BY <1>1, <1>2
  <1>4. \A i, j \in DOMAIN u : i # k /\ j # k => /\ i < j => Old(i) < Old(j)
                                                 /\ Old(i) = Old(j) => i = j
    BY <1>2
  <1>5. \A j \in DOMAIN s : \E n \in DOMAIN u : u[n] = s[j]
    <2> SUFFICES ASSUME NEW j \in DOMAIN s PROVE \E n \in DOMAIN u : u[n] = s[j]
      OBVIOUS
    <2>1. CASE j < k
      BY <1>1, <1>2, <2>1
    <2>2. CASE ~(j < k)
      <3>1. j + 1 \in DOMAIN u /\ j + 1 # k /\ Old(j + 1) = j
        BY <1>2, <2>2
      <3> QED
        BY <1>3, <3>1
    <2> QED
      BY <2>1, <2>2
  <1> HIDE DEF Old
  <1>6. \A j \in DOMAIN u : j # k => u[j] # e
    BY <1>3 DEF Drawn
  <1>7. \A i : i = e \/ Drawn(s, i) => Drawn(u, i)
    BY <1>1, <1>2, <1>5 DEF Drawn
  <1>8. IsInjective(s) => IsInjective(u)
    <2> SUFFICES ASSUME IsInjective(s), NEW a \in DOMAIN u, NEW b \in DOMAIN u, u[a] = u[b]
                 PROVE  a = b
      BY DEF IsInjective
    <2>1. a = k <=> b = k
      BY <1>1, <1>6
    <2>2. CASE a # k /\ b # k
      <3>1. Old(a) = Old(b)
        BY <1>3, <2>2 DEF IsInjective
      <3> QED
        BY <1>4, <2>2, <3>1
    <2> QED
      BY <2>1, <2>2
  <1>9. \A j \in DOMAIN u : u[j] = e \/ Drawn(s, u[j])
    BY <1>1, <1>3 DEF Drawn
  <1>10. ASSUME NEW i, NEW j, Earlier(u, i, j), i # e, j # e PROVE Earlier(s, i, j)
    <2>1. PICK a, b \in DOMAIN u : a < b /\ u[a] = i /\ u[b] = j
      BY <1>10 DEF Earlier
    <2>2. a # k /\ b # k
      BY <1>1, <1>10, <2>1
    <2> QED
      BY <1>3, <1>4, <2>1, <2>2 DEF Earlier
  <1> QED
    BY <1>1, <1>7, <1>8, <1>9, <1>10

(* So does removing one.                                                   *)
LEMMA RemoveFacts ==
  ASSUME NEW T, NEW s \in Seq(T), NEW k \in 1..Len(s), NEW u, u = RemoveAt(s, k),
         IsInjective(s)
  PROVE  /\ u \in Seq(T) /\ Len(u) = Len(s) - 1
         /\ \A j \in DOMAIN u : u[j] # s[k] /\ Drawn(s, u[j])
         /\ \A i : i # s[k] /\ Drawn(s, i) => Drawn(u, i)
         /\ IsInjective(u)
         /\ \A i, j : Earlier(u, i, j) => Earlier(s, i, j)
  <1>1. /\ u \in Seq(T) /\ Len(s) \in Nat /\ Len(u) = Len(s) - 1
        /\ \A j \in 1..Len(u) : j < k => u[j] = s[j]
        /\ \A j \in 1..Len(u) : j >= k => u[j] = s[j + 1]
    BY RemovePlaces
  <1>2. DOMAIN s = 1..Len(s) /\ DOMAIN u = 1..(Len(s) - 1) /\ DOMAIN u \subseteq Nat
    BY <1>1, Positions
  <1> DEFINE Old(j) == IF j < k THEN j ELSE j + 1
  <1>3. \A j \in DOMAIN u : /\ Old(j) \in DOMAIN s /\ Old(j) # k
                            /\ u[j] = s[Old(j)]
    BY <1>1, <1>2
  <1>4. \A i, j \in DOMAIN u : /\ i < j => Old(i) < Old(j)
                               /\ Old(i) = Old(j) => i = j
    BY <1>2
  <1>5. \A j \in DOMAIN s : j # k => \E n \in DOMAIN u : u[n] = s[j]
    <2> SUFFICES ASSUME NEW j \in DOMAIN s, j # k PROVE \E n \in DOMAIN u : u[n] = s[j]
      OBVIOUS
    <2>1. CASE j < k
      <3>1. j \in DOMAIN u
        BY <1>2, <2>1
      <3> QED
        BY <1>1, <1>2, <2>1, <3>1
    <2>2. CASE ~(j < k)
      <3>1. j - 1 \in DOMAIN u /\ Old(j - 1) = j
        BY <1>2, <2>2
      <3> QED
        BY <1>3, <3>1
    <2> QED
      BY <2>1, <2>2
  <1> HIDE DEF Old
  <1>6. \A j \in DOMAIN u : u[j] # s[k]
    BY <1>2, <1>3 DEF IsInjective
  <1>7. \A i : i # s[k] /\ Drawn(s, i) => Drawn(u, i)
    BY <1>5 DEF Drawn
  <1>8. IsInjective(u)
    BY <1>3, <1>4 DEF IsInjective
  <1>9. \A j \in DOMAIN u : Drawn(s, u[j])
    BY <1>3 DEF Drawn
  <1>10. ASSUME NEW i, NEW j, Earlier(u, i, j) PROVE Earlier(s, i, j)
    <2>1. PICK a, b \in DOMAIN u : a < b /\ u[a] = i /\ u[b] = j
      BY <1>10 DEF Earlier
    <2> QED
      BY <1>3, <1>4, <2>1 DEF Earlier
  <1> QED
    BY <1>1, <1>6, <1>7, <1>8, <1>9, <1>10

LEMMA IndexFacts ==
  ASSUME NEW T, NEW s \in Seq(T), NEW i, Drawn(s, i)
  PROVE  IndexOf(s, i) + 1 \in DOMAIN s /\ s[IndexOf(s, i) + 1] = i /\ IndexOf(s, i) \in Int
  <1>1. PICK k : k = CHOOSE p \in DOMAIN s : s[p] = i
    OBVIOUS
  <1>2. k \in DOMAIN s /\ s[k] = i
    BY <1>1 DEF Drawn
  <1>3. IndexOf(s, i) = k - 1
    BY <1>1 DEF IndexOf
  <1>4. k \in Nat /\ IndexOf(s, i) + 1 = k /\ IndexOf(s, i) \in Int
    BY <1>2, <1>3, Positions
  <1> QED
    BY <1>2, <1>4

(* A clone joins the layer and leaves the order of the others alone.       *)
LEMMA RegisterBehindFacts ==
  ASSUME NEW T, NEW s \in Seq(T), NEW e \in T, NEW parent, Drawn(s, parent), ~Drawn(s, e),
         NEW u, u = RegisterBehind(s, e, parent)
  PROVE  /\ u \in Seq(T)
         /\ \A j \in DOMAIN u : u[j] = e \/ Drawn(s, u[j])
         /\ \A i : i = e \/ Drawn(s, i) => Drawn(u, i)
         /\ IsInjective(s) => IsInjective(u)
         /\ \A i, j : Earlier(u, i, j) /\ i # e /\ j # e => Earlier(s, i, j)
  <1>1. PICK k : k = IndexOf(s, parent) + 1
    OBVIOUS
  <1>2. k \in 1..(Len(s) + 1) /\ u = InsertAt(s, k, e)
    BY <1>1, IndexFacts, Positions DEF RegisterBehind
  <1> QED
    BY <1>2, InsertFacts

(* A move of any kind, however far, leaves the same instances drawn, and   *)
(* the order of all but the moved one.                                     *)
LEMMA MoveFacts ==
  ASSUME NEW T, NEW s \in Seq(T), IsInjective(s), NEW i, Drawn(s, i), NEW kind, NEW n \in Int,
         NEW u, u = Move(s, i, kind, n)
  PROVE  /\ u \in Seq(T)
         /\ \A j \in DOMAIN u : Drawn(s, u[j])
         /\ \A j : Drawn(s, j) => Drawn(u, j)
         /\ IsInjective(u)
         /\ \A a, b : Earlier(u, a, b) /\ a # i /\ b # i => Earlier(s, a, b)
  <1>1. PICK at : at = IndexOf(s, i) + 1
    OBVIOUS
  <1>2. at \in 1..Len(s) /\ s[at] = i /\ IndexOf(s, i) \in Int /\ Len(s) \in Nat /\ i \in T
    BY <1>1, IndexFacts, Positions
  <1>3. PICK rest : rest = RemoveAt(s, at)
    OBVIOUS
  <1>4. /\ rest \in Seq(T) /\ Len(rest) = Len(s) - 1
        /\ \A j \in DOMAIN rest : rest[j] # i /\ Drawn(s, rest[j])
        /\ \A j : j # i /\ Drawn(s, j) => Drawn(rest, j)
        /\ IsInjective(rest)
        /\ \A a, b : Earlier(rest, a, b) => Earlier(s, a, b)
    BY <1>2, <1>3, RemoveFacts
  <1>5. PICK to : to = Clamped(s, WantedIndex(s, i, kind, n)) + 1
    OBVIOUS
  <1>6. to \in 1..(Len(rest) + 1)
    <2>1. WantedIndex(s, i, kind, n) \in Int
      BY <1>2 DEF WantedIndex
    <2>2. to \in 1..Len(s)
      BY <1>2, <1>5, <2>1 DEF Clamped
    <2> QED
      BY <1>2, <1>4, <2>2
  <1>7. u = InsertAt(rest, to, i)
    BY <1>1, <1>3, <1>5 DEF Move, MoveTo
  <1>8. ~Drawn(rest, i)
    BY <1>4 DEF Drawn
  <1>9. /\ u \in Seq(T)
        /\ \A j \in DOMAIN u : u[j] = i \/ Drawn(rest, u[j])
        /\ \A j : j = i \/ Drawn(rest, j) => Drawn(u, j)
        /\ IsInjective(rest) => IsInjective(u)
        /\ \A a, b : Earlier(u, a, b) /\ a # i /\ b # i => Earlier(rest, a, b)
    BY <1>2, <1>4, <1>6, <1>7, <1>8, InsertFacts
  <1>10. \A j : Drawn(rest, j) => Drawn(s, j)
    BY <1>4 DEF Drawn
  <1> QED
    BY <1>4, <1>9, <1>10

-----------------------------------------------------------------------------
(* The inductive invariant.                                                *)

InstancesAssumption ==
  /\ NumActors \in Nat \ {0}
  /\ MaxInstances \in Nat /\ NumActors <= MaxInstances
  /\ Offset \subseteq Int

ObjectsInv ==
  /\ objects \in Seq(ActorInstance)
  /\ NumActors <= Len(objects)
  /\ \A a \in Actor : objects[a].actor = a /\ objects[a].registered

InstancesInv ==
  /\ instances \in [Actor -> SUBSET InstanceId]
  /\ \A a \in Actor : a \in instances[a]
  /\ \A a \in Actor : \A i \in instances[a] : objects[i].actor = a /\ a <= i

LayersInv ==
  /\ drawn \in [Layer -> Seq(Nat)]
  /\ \A l \in Layer : IsInjective(drawn[l])
  /\ \A l \in Layer : \A k \in DOMAIN drawn[l] :
       /\ drawn[l][k] \in InstanceId
       /\ LayerOf(objects[drawn[l][k]].actor) = l
       /\ IsInstance(drawn[l][k])

InstInv == InstancesAssumption /\ ObjectsInv /\ InstancesInv /\ LayersInv

(* What the invariant says of objects.                                     *)
LEMMA ObjectFacts ==
  ASSUME InstInv
  PROVE  /\ Len(objects) \in Nat /\ InstanceId = DOMAIN objects
         /\ \A i \in InstanceId : i \in Nat /\ objects[i] \in ActorInstance
         /\ \A i \in InstanceId : objects[i].actor \in Actor /\ objects[i].registered \in BOOLEAN
         /\ Actor \subseteq InstanceId /\ Actor \subseteq Nat
         /\ \A a \in Actor : LayerOf(a) \in Layer
         /\ Stage \in Actor
  <1>1. Len(objects) \in Nat /\ InstanceId = DOMAIN objects
        /\ \A i \in InstanceId : i \in Nat /\ objects[i] \in ActorInstance
    BY LenProperties, ElementOfSeq DEF InstInv, ObjectsInv, InstanceId
  <1>2. Actor \subseteq InstanceId /\ Actor \subseteq Nat /\ Stage \in Actor
    BY <1>1 DEF InstInv, ObjectsInv, InstancesAssumption, Actor, InstanceId, Stage
  <1>3. \A a \in Actor : LayerOf(a) \in Layer
    BY DEF LayerOf, Layer
  <1> QED
    BY <1>1, <1>2, <1>3 DEF ActorInstance

(* instances[0] is the instance which the actor started with.              *)
LEMMA OriginalIsFirst ==
  ASSUME InstInv, NEW a \in Actor
  PROVE  Original(a) = a
  <1>1. a \in instances[a] /\ \A i \in instances[a] : a <= i
    BY DEF InstInv, InstancesInv
  <1>2. \A i \in instances[a] : i \in Nat
    BY ObjectFacts DEF InstInv, InstancesInv
  <1>3. \A i \in instances[a] : (\A j \in instances[a] : i <= j) => i = a
    BY <1>1, <1>2
  <1> QED
    BY <1>1, <1>3 DEF Original, Min

(* The invariant gives the types...                                        *)
LEMMA TypesHold ==
  ASSUME InstInv
  PROVE  TypeOK
  BY DEF InstInv, ObjectsInv, InstancesInv, LayersInv, TypeOK

(* ...and, when all instances are drawn, that layers and actors agree.     *)
LEMMA DrawnAreAsTheyShould ==
  ASSUME InstInv, InstancesAreDrawn
  PROVE  DrawnAreInstances
  <1>1. OriginalStays
    <2>1. \A a \in Actor : Original(a) = a
      BY OriginalIsFirst
    <2> QED
      BY <2>1 DEF OriginalStays, InstInv, InstancesInv, ObjectsInv
  <1> QED
    BY <1>1 DEF DrawnAreInstances, InstInv, LayersInv

(* The first instances of the actors, as they are registered.              *)
LEMMA InitKeepsInv ==
  ASSUME InstancesAssumption, Init
  PROVE  InstInv /\ InstancesAreDrawn
  <1>1. Actor \subseteq Nat /\ NumActors \in Nat \ {0}
    BY DEF InstancesAssumption, Actor
  <1>2. objects \in Seq(ActorInstance) /\ Len(objects) = NumActors
    BY <1>1 DEF Init, ActorInstance, Actor
  <1>3. \A a \in Actor : objects[a].actor = a /\ objects[a].registered
    BY DEF Init
  <1>4. InstanceId = Actor
    BY <1>2 DEF InstanceId, Actor
  <1>5. \A a \in Actor : instances[a] = {a}
    BY DEF Init
  <1>6. instances \in [Actor -> SUBSET InstanceId]
    BY <1>4 DEF Init
  <1>7. drawn["stage"] \in Seq(Nat) /\ drawn["stage"] = << Stage >>
    BY DEF Init, Layer, Stage
  <1>8. drawn["sprites"] = [k \in 1..(NumActors - 1) |-> k + 1]
    BY DEF Init, Layer
  <1>9. drawn["sprites"] \in Seq(Nat)
    BY <1>1, <1>8
  <1>10. drawn \in [Layer -> Seq(Nat)]
    BY <1>7, <1>9 DEF Init, Layer
  <1>11. \A l \in Layer : IsInjective(drawn[l])
    BY <1>1, <1>7, <1>8 DEF IsInjective, Layer
  <1>12. \A a \in Actor : IsInstance(a)
    BY <1>3, <1>5 DEF IsInstance
  <1>13. \A k \in DOMAIN drawn["stage"] : drawn["stage"][k] \in Actor /\ drawn["stage"][k] = Stage
    BY <1>1, <1>7 DEF Actor, Stage
  <1>14. \A k \in DOMAIN drawn["sprites"] : drawn["sprites"][k] \in Actor /\ drawn["sprites"][k] # Stage
    BY <1>1, <1>8 DEF Actor, Stage
  <1>15. LayersInv
    BY <1>3, <1>4, <1>10, <1>11, <1>12, <1>13, <1>14 DEF LayersInv, Layer, LayerOf
  <1>16. InstancesInv
    BY <1>1, <1>3, <1>5, <1>6 DEF InstancesInv
  <1>17. ObjectsInv
    BY <1>1, <1>2, <1>3 DEF ObjectsInv
  <1>18. ASSUME NEW a \in Actor PROVE Drawn(drawn[LayerOf(a)], a)
    <2>1. CASE a = Stage
      BY <1>7, <2>1 DEF Drawn, LayerOf
    <2>2. CASE a # Stage
      <3>1. a - 1 \in 1..(NumActors - 1) /\ (a - 1) + 1 = a
        BY <1>1, <2>2 DEF Actor, Stage
      <3> QED
        BY <1>8, <2>2, <3>1 DEF Drawn, LayerOf
    <2> QED
      BY <2>1, <2>2
  <1>19. InstancesAreDrawn
    BY <1>3, <1>5, <1>18 DEF InstancesAreDrawn, IsDrawn
  <1> QED
    BY <1>15, <1>16, <1>17, <1>19 DEF InstInv

-----------------------------------------------------------------------------
(* Each operation keeps it.                                                *)

(* An object is added. *)
LEMMA MadeObject ==
  ASSUME InstInv, NEW a \in Actor, objects' = Append(objects, [actor |-> a, registered |-> TRUE])
  PROVE  /\ objects' \in Seq(ActorInstance)
         /\ Len(objects') = Len(objects) + 1
         /\ \A i \in InstanceId : i \in InstanceId' /\ objects'[i] = objects[i]
         /\ Len(objects) + 1 \in InstanceId' /\ Len(objects) + 1 \notin InstanceId
         /\ objects'[Len(objects) + 1].actor = a
         /\ ObjectsInv'
  <1>1. PICK o : o = [actor |-> a, registered |-> TRUE]
    OBVIOUS
  <1>2. o \in ActorInstance /\ o.actor = a
    BY <1>1 DEF ActorInstance
  <1>3. Len(objects) \in Nat /\ objects \in Seq(ActorInstance) /\ Actor \subseteq InstanceId
    BY ObjectFacts DEF InstInv, ObjectsInv
  <1>4. objects' = Append(objects, o)
    BY <1>1
  <1>5. /\ objects' \in Seq(ActorInstance)
        /\ Len(objects') = Len(objects) + 1
        /\ \A i \in 1..Len(objects) : objects'[i] = objects[i]
        /\ objects'[Len(objects) + 1] = o
    BY <1>2, <1>3, <1>4, AppendProperties
  <1>6. \A i \in InstanceId : i \in InstanceId' /\ objects'[i] = objects[i]
    BY <1>3, <1>5 DEF InstanceId
  <1>7. Len(objects) + 1 \in InstanceId' /\ Len(objects) + 1 \notin InstanceId
    BY <1>3, <1>5 DEF InstanceId
  <1>8. \A b \in Actor : objects'[b].actor = b /\ objects'[b].registered
    BY <1>3, <1>6 DEF InstInv, ObjectsInv
  <1>9. NumActors <= Len(objects')
    BY <1>3, <1>5 DEF InstInv, ObjectsInv, InstancesAssumption
  <1> QED
    BY <1>2, <1>5, <1>6, <1>7, <1>8, <1>9 DEF ObjectsInv

(* What the invariant says of a layer.                                     *)
LEMMA DrawnFacts ==
  ASSUME InstInv, NEW l \in Layer
  PROVE  /\ drawn[l] \in Seq(Nat) /\ IsInjective(drawn[l])
         /\ \A i : Drawn(drawn[l], i) => /\ i \in InstanceId
                                         /\ LayerOf(objects[i].actor) = l
                                         /\ IsInstance(i)
  BY DEF InstInv, LayersInv, Drawn

(* Cloning keeps the invariant and every instance, and makes new ones      *)
(* known to their actor.                                                   *)
LEMMA RegisterKeepsInv ==
  ASSUME InstInv, NEW parent \in InstanceId, RegisterPyInstance(parent)
  PROVE  /\ InstInv'
         /\ \A i \in InstanceId : /\ i \in InstanceId' /\ objects'[i] = objects[i]
                                  /\ IsInstance(i) => IsInstance(i)'
         /\ \A a \in Actor : \A i \in instances'[a] \ instances[a] : IsInstance(i)'
  <1>1. PICK a, new : a = objects[parent].actor /\ new = Len(objects) + 1
    OBVIOUS
  <1>2. a \in Actor
    BY <1>1, ObjectFacts
  <1>3. /\ objects' = Append(objects, [actor |-> a, registered |-> TRUE])
        /\ instances' = [instances EXCEPT ![a] = @ \cup {new}]
        /\ drawn' = IF IsDrawn(parent)
                    THEN [drawn EXCEPT ![LayerOf(a)] = RegisterBehind(@, new, parent)]
                    ELSE drawn
    BY <1>1 DEF RegisterPyInstance
  <1>4. /\ \A i \in InstanceId : i \in InstanceId' /\ objects'[i] = objects[i]
        /\ new \in InstanceId' /\ new \notin InstanceId
        /\ objects'[new].actor = a
        /\ ObjectsInv'
    BY <1>1, <1>2, <1>3, MadeObject
  <1>5. new \in Nat /\ \A i \in InstanceId : i < new
    BY <1>1, ObjectFacts DEF InstanceId
  <1>6. /\ instances \in [Actor -> SUBSET InstanceId]
        /\ \A b \in Actor : instances'[b] = IF b = a THEN instances[b] \cup {new} ELSE instances[b]
    BY <1>2, <1>3 DEF InstInv, InstancesInv
  <1>7. InstancesInv'
    <2>1. instances' \in [Actor -> SUBSET InstanceId']
      BY <1>2, <1>3, <1>4, <1>6
    <2>2. a \in Nat /\ a <= new
      BY <1>2, <1>5, ObjectFacts
    <2> QED
      BY <1>4, <1>6, <2>1, <2>2 DEF InstInv, InstancesInv
  <1>8. \A i \in InstanceId : IsInstance(i) => IsInstance(i)'
    BY <1>4, <1>6, ObjectFacts DEF IsInstance
  <1>9. IsInstance(new)'
    BY <1>2, <1>4, <1>6 DEF IsInstance
  <1>10. ASSUME NEW l \in Layer
         PROVE  /\ drawn'[l] \in Seq(Nat) /\ IsInjective(drawn'[l])
                /\ \A i : Drawn(drawn'[l], i) =>
                            Drawn(drawn[l], i) \/ (i = new /\ l = LayerOf(a))
    <2>1. drawn[l] \in Seq(Nat) /\ IsInjective(drawn[l])
      BY DrawnFacts
    <2>2. CASE drawn'[l] = drawn[l]
      BY <2>1, <2>2
    <2>3. CASE drawn'[l] # drawn[l]
      <3>1. PICK s, u : s = drawn[l] /\ u = drawn'[l]
        OBVIOUS
      <3>2. IsDrawn(parent) /\ l = LayerOf(a) /\ u = RegisterBehind(s, new, parent)
        BY <1>3, <2>3, <3>1 DEF InstInv, LayersInv
      <3>3. Drawn(s, parent)
        BY <1>1, <3>1, <3>2 DEF IsDrawn
      <3>4. ~Drawn(s, new)
        BY <1>4, <3>1, DrawnFacts
      <3>5. /\ u \in Seq(Nat)
            /\ \A j \in DOMAIN u : u[j] = new \/ Drawn(s, u[j])
            /\ IsInjective(s) => IsInjective(u)
        BY <1>5, <2>1, <3>1, <3>2, <3>3, <3>4, RegisterBehindFacts
      <3>6. \A i : Drawn(u, i) => i = new \/ Drawn(s, i)
        BY <3>5 DEF Drawn
      <3> QED
        BY <2>1, <3>1, <3>2, <3>5, <3>6
    <2> QED
      BY <2>2, <2>3
  <1>11. LayersInv'
    <2>1. DOMAIN drawn' = Layer /\ drawn' = [l \in Layer |-> drawn'[l]]
      BY <1>3 DEF InstInv, LayersInv
    <2>2. drawn' \in [Layer -> Seq(Nat)]
      BY <1>10, <2>1
    <2>3. ASSUME NEW l \in Layer, NEW i, Drawn(drawn'[l], i)
          PROVE  i \in InstanceId' /\ LayerOf(objects'[i].actor) = l /\ IsInstance(i)'
      <3>1. CASE Drawn(drawn[l], i)
        BY <1>4, <1>8, <3>1, DrawnFacts
      <3>2. CASE i = new /\ l = LayerOf(a)
        BY <1>4, <1>9, <3>2
      <3> QED
        BY <1>10, <2>3, <3>1, <3>2
    <2> QED
      BY <1>10, <2>2, <2>3 DEF LayersInv, Drawn
  <1>12. InstInv'
    BY <1>4, <1>7, <1>11 DEF InstInv
  <1>13. \A b \in Actor : \A i \in instances'[b] \ instances[b] : i = new
    BY <1>6
  <1> QED
    BY <1>4, <1>8, <1>9, <1>12, <1>13

(* Unregistering marks one instance, or none.                              *)
LEMMA UnregisterKeepsInv ==
  ASSUME InstInv, NEW i \in InstanceId, UnregisterInstance(i)
  PROVE  /\ InstInv'
         /\ InstanceId' = InstanceId /\ \A j \in InstanceId : objects'[j].actor = objects[j].actor
         /\ \A j \in InstanceId : objects[j].registered # objects'[j].registered => j = i
         /\ ~objects[i].registered => ~objects'[i].registered
         /\ UNCHANGED <<instances, drawn>>
  <1>1. /\ UNCHANGED <<instances, drawn>>
        /\ i = Original(objects[i].actor) => objects' = objects
        /\ i # Original(objects[i].actor) => objects' = [objects EXCEPT ![i].registered = FALSE]
    BY DEF UnregisterInstance
  <1>2. CASE i = Original(objects[i].actor)
    BY <1>1, <1>2 DEF InstInv, ObjectsInv, InstancesInv, LayersInv, InstanceId, IsInstance
  <1>3. CASE i # Original(objects[i].actor)
    <2>1. PICK o : o = [objects[i] EXCEPT !.registered = FALSE]
      OBVIOUS
    <2>2. o \in ActorInstance /\ o.actor = objects[i].actor /\ ~o.registered
      <3>1. objects[i] \in ActorInstance
        BY ObjectFacts
      <3> QED
        BY <2>1, <3>1 DEF ActorInstance
    <2>3. objects' = [objects EXCEPT ![i] = o]
      BY <1>1, <1>3, <2>1
    <2>4. objects' \in Seq(ActorInstance) /\ Len(objects') = Len(objects)
          /\ \A j \in InstanceId : objects'[j] = IF j = i THEN o ELSE objects[j]
      BY <2>2, <2>3, ExceptSeq DEF InstInv, ObjectsInv, InstanceId
    <2>5. InstanceId' = InstanceId /\ \A j \in InstanceId : objects'[j].actor = objects[j].actor
      BY <2>2, <2>4 DEF InstanceId
    <2>6. \A a \in Actor : i # a
      BY <1>3, OriginalIsFirst DEF InstInv, ObjectsInv
    <2>7. ObjectsInv'
      BY <2>4, <2>6, ObjectFacts DEF InstInv, ObjectsInv
    <2>8. InstancesInv'
      BY <1>1, <2>5 DEF InstInv, InstancesInv
    <2>9. LayersInv'
      BY <1>1, <2>5 DEF InstInv, LayersInv, IsInstance
    <2>10. /\ \A j \in InstanceId : objects[j].registered # objects'[j].registered => j = i
           /\ ~objects'[i].registered
      BY <2>2, <2>4
    <2> QED
      BY <1>1, <2>5, <2>7, <2>8, <2>9, <2>10 DEF InstInv
  <1> QED
    BY <1>2, <1>3

(* Instances go from their actors and from the layers. *)
LEMMA GoneFromLayers ==
  ASSUME InstInv, NEW gone, drawn' = [l \in Layer |-> Without(drawn[l], gone)]
  PROVE  /\ drawn' \in [Layer -> Seq(Nat)]
         /\ \A l \in Layer : IsInjective(drawn'[l])
         /\ \A l \in Layer : \A i : Drawn(drawn'[l], i) => i \notin gone /\ Drawn(drawn[l], i)
         /\ \A l \in Layer : \A i : i \notin gone /\ Drawn(drawn[l], i) => Drawn(drawn'[l], i)
         /\ \A l \in Layer : \A i, j : Earlier(drawn'[l], i, j) => Earlier(drawn[l], i, j)
  <1> SUFFICES ASSUME NEW l \in Layer
               PROVE  /\ drawn'[l] \in Seq(Nat)
                      /\ IsInjective(drawn'[l])
                      /\ \A i : Drawn(drawn'[l], i) => i \notin gone /\ Drawn(drawn[l], i)
                      /\ \A i : i \notin gone /\ Drawn(drawn[l], i) => Drawn(drawn'[l], i)
                      /\ \A i, j : Earlier(drawn'[l], i, j) => Earlier(drawn[l], i, j)
    OBVIOUS
  <1>1. PICK s, u : s = drawn[l] /\ u = drawn'[l]
    OBVIOUS
  <1>2. s \in Seq(Nat) /\ IsInjective(s) /\ u = Without(s, gone)
    BY <1>1, DrawnFacts
  <1>3. /\ u \in Seq(Nat)
        /\ \A k \in DOMAIN u : u[k] \notin gone /\ Drawn(s, u[k])
        /\ \A i : Drawn(s, i) /\ i \notin gone => Drawn(u, i)
        /\ IsInjective(s) => IsInjective(u)
        /\ \A i, j : Earlier(u, i, j) => Earlier(s, i, j)
    BY <1>2, WithoutFacts
  <1>4. \A i : Drawn(u, i) => i \notin gone /\ Drawn(s, i)
    BY <1>3 DEF Drawn
  <1> QED
    BY <1>1, <1>2, <1>3, <1>4

(* Culling never takes an original.                                        *)
LEMMA CullKeepsInv ==
  ASSUME InstInv, CullUnregisteredInstances
  PROVE  InstInv'
  <1>1. PICK marked : /\ marked = {i \in InstanceId : IsInstance(i) /\ ~objects[i].registered}
                      /\ instances' = [a \in Actor |-> instances[a] \ marked]
                      /\ drawn' = [l \in Layer |-> Without(drawn[l], marked)]
                      /\ objects' = objects
    BY DEF CullUnregisteredInstances
  <1>2. ObjectsInv' /\ InstanceId' = InstanceId
    BY <1>1 DEF InstInv, ObjectsInv, InstanceId
  <1>3. \A a \in Actor : a \notin marked
    BY <1>1 DEF InstInv, ObjectsInv
  <1>4. InstancesInv'
    BY <1>1, <1>2, <1>3 DEF InstInv, InstancesInv
  <1>5. ASSUME NEW l \in Layer, NEW i, Drawn(drawn'[l], i)
        PROVE  i \in InstanceId /\ LayerOf(objects[i].actor) = l /\ IsInstance(i)'
    <2>1. i \notin marked /\ Drawn(drawn[l], i)
      BY <1>1, <1>5, GoneFromLayers
    <2>2. i \in InstanceId /\ LayerOf(objects[i].actor) = l /\ i \in instances[objects[i].actor]
      BY <2>1, DrawnFacts DEF IsInstance
    <2>3. objects[i].actor \in Actor
      BY <2>2, ObjectFacts
    <2> QED
      BY <1>1, <2>1, <2>2, <2>3 DEF IsInstance
  <1>6. /\ drawn' \in [Layer -> Seq(Nat)]
        /\ \A l \in Layer : IsInjective(drawn'[l])
    BY <1>1, GoneFromLayers
  <1>7. LayersInv'
    BY <1>1, <1>2, <1>5, <1>6 DEF LayersInv, Drawn
  <1> QED
    BY <1>2, <1>4, <1>7 DEF InstInv

(* Deleting clones leaves each actor its original.                         *)
LEMMA DeleteKeepsInv ==
  ASSUME InstInv, DeleteAllClones
  PROVE  InstInv' /\ \A a \in Actor : instances'[a] = {a}
  <1>1. PICK gone : /\ gone = {i \in InstanceId : i # Original(objects[i].actor)}
                    /\ instances' = [a \in Actor |-> {Original(a)}]
                    /\ drawn' = [l \in Layer |-> Without(drawn[l], gone)]
                    /\ objects' = objects
    BY DEF DeleteAllClones
  <1>2. ObjectsInv' /\ InstanceId' = InstanceId
    BY <1>1 DEF InstInv, ObjectsInv, InstanceId
  <1>3. \A a \in Actor : instances'[a] = {a}
    BY <1>1, OriginalIsFirst
  <1>4. InstancesInv'
    <2>1. instances' \in [Actor -> SUBSET InstanceId]
      BY <1>1, <1>3, ObjectFacts
    <2>2. \A a \in Actor : objects'[a].actor = a /\ a <= a
      BY <1>1, ObjectFacts DEF InstInv, ObjectsInv
    <2> QED
      BY <1>2, <1>3, <2>1, <2>2 DEF InstancesInv
  <1>5. ASSUME NEW l \in Layer, NEW i, Drawn(drawn'[l], i)
        PROVE  i \in InstanceId /\ LayerOf(objects[i].actor) = l /\ IsInstance(i)'
    <2>1. i \notin gone /\ Drawn(drawn[l], i)
      BY <1>1, <1>5, GoneFromLayers
    <2>2. i \in InstanceId /\ LayerOf(objects[i].actor) = l
      BY <2>1, DrawnFacts
    <2>3. objects[i].actor \in Actor
      BY <2>2, ObjectFacts
    <2>4. i = objects[i].actor
      BY <1>1, <2>1, <2>2, <2>3, OriginalIsFirst
    <2> QED
      BY <1>1, <1>3, <2>2, <2>3, <2>4 DEF IsInstance
  <1>6. /\ drawn' \in [Layer -> Seq(Nat)]
        /\ \A l \in Layer : IsInjective(drawn'[l])
    BY <1>1, GoneFromLayers
  <1>7. LayersInv'
    BY <1>1, <1>2, <1>5, <1>6 DEF LayersInv, Drawn
  <1> QED
    BY <1>2, <1>3, <1>4, <1>7 DEF InstInv

(* What a move changes.                                                    *)
LEMMA MoveChanges ==
  ASSUME InstInv, NEW i \in InstanceId, NEW kind, NEW n \in Offset,
         MoveWithinDrawLayerGroup(i, kind, n)
  PROVE  /\ UNCHANGED <<objects, instances>>
         /\ drawn' \in [Layer -> Seq(Nat)]
         /\ \A l \in Layer : IsInjective(drawn'[l])
         /\ \A l \in Layer : \A j : Drawn(drawn'[l], j) => Drawn(drawn[l], j)
         /\ \A l \in Layer : \A j : Drawn(drawn[l], j) => Drawn(drawn'[l], j)
         /\ \A l \in Layer : \A a, b : Earlier(drawn'[l], a, b) /\ a # i /\ b # i
                                     => Earlier(drawn[l], a, b)
  <1>1. PICK m : m = LayerOf(objects[i].actor)
    OBVIOUS
  <1>2. m \in Layer
    BY <1>1, ObjectFacts
  <1>3. /\ UNCHANGED <<objects, instances>>
        /\ drawn' = [drawn EXCEPT ![m] = Move(@, i, kind, n)]
        /\ Drawn(drawn[m], i)
    BY <1>1 DEF MoveWithinDrawLayerGroup, IsDrawn
  <1>4. drawn \in [Layer -> Seq(Nat)]
    BY DEF InstInv, LayersInv
  <1>5. ASSUME NEW l \in Layer
        PROVE  /\ drawn'[l] \in Seq(Nat)
               /\ IsInjective(drawn'[l])
               /\ \A j : Drawn(drawn'[l], j) => Drawn(drawn[l], j)
               /\ \A j : Drawn(drawn[l], j) => Drawn(drawn'[l], j)
               /\ \A a, b : Earlier(drawn'[l], a, b) /\ a # i /\ b # i => Earlier(drawn[l], a, b)
    <2>1. CASE l # m
      <3>1. drawn'[l] = drawn[l]
        BY <1>3, <1>4, <2>1
      <3> QED
        BY <3>1, DrawnFacts
    <2>2. CASE l = m
      <3>1. PICK s, u : s = drawn[m] /\ u = drawn'[m]
        OBVIOUS
      <3>2. s \in Seq(Nat) /\ IsInjective(s) /\ Drawn(s, i) /\ u = Move(s, i, kind, n) /\ n \in Int
        BY <1>2, <1>3, <1>4, <3>1, DrawnFacts DEF InstInv, InstancesAssumption
      <3>3. /\ u \in Seq(Nat)
            /\ \A j \in DOMAIN u : Drawn(s, u[j])
            /\ \A j : Drawn(s, j) => Drawn(u, j)
            /\ IsInjective(u)
            /\ \A a, b : Earlier(u, a, b) /\ a # i /\ b # i => Earlier(s, a, b)
        BY <3>2, MoveFacts
      <3>4. \A j : Drawn(u, j) => Drawn(s, j)
        BY <3>3 DEF Drawn
      <3> QED
        BY <2>2, <3>1, <3>3, <3>4
    <2> QED
      BY <2>1, <2>2
  <1>6. drawn' \in [Layer -> Seq(Nat)]
    BY <1>3, <1>4, <1>5
  <1> QED
    BY <1>3, <1>5, <1>6

LEMMA MoveKeepsInv ==
  ASSUME InstInv, NEW i \in InstanceId, NEW kind, NEW n \in Offset,
         MoveWithinDrawLayerGroup(i, kind, n)
  PROVE  InstInv'
  <1>1. /\ UNCHANGED <<objects, instances>>
        /\ drawn' \in [Layer -> Seq(Nat)]
        /\ \A l \in Layer : IsInjective(drawn'[l])
        /\ \A l \in Layer : \A j : Drawn(drawn'[l], j) => Drawn(drawn[l], j)
    BY MoveChanges
  <1>2. InstanceId' = InstanceId /\ ObjectsInv' /\ InstancesInv'
    BY <1>1 DEF InstInv, ObjectsInv, InstancesInv, InstanceId
  <1>3. ASSUME NEW l \in Layer, NEW j, Drawn(drawn'[l], j)
        PROVE  j \in InstanceId /\ LayerOf(objects[j].actor) = l /\ IsInstance(j)
    BY <1>1, <1>3, DrawnFacts
  <1>4. LayersInv'
    BY <1>1, <1>2, <1>3 DEF LayersInv, Drawn, IsInstance
  <1> QED
    BY <1>2, <1>4 DEF InstInv

LEMMA NextKeepsInv == InstInv /\ [Next]_instanceVars => InstInv'
  <1> SUFFICES ASSUME InstInv, [Next]_instanceVars PROVE InstInv'
    OBVIOUS
  <1>1. CASE \E parent \in Source : RegisterPyInstance(parent)
    BY <1>1, RegisterKeepsInv DEF Source
  <1>2. CASE \E i \in InstanceId : UnregisterInstance(i)
    BY <1>2, UnregisterKeepsInv
  <1>3. CASE CullUnregisteredInstances
    BY <1>3, CullKeepsInv
  <1>4. CASE DeleteAllClones
    BY <1>4, DeleteKeepsInv
  <1>5. CASE \E i \in InstanceId, kind \in MoveKind, n \in Offset :
               objects[i].actor \in Sprite /\ MoveWithinDrawLayerGroup(i, kind, n)
    BY <1>5, MoveKeepsInv
  <1>6. CASE UNCHANGED instanceVars
    BY <1>6 DEF instanceVars, InstInv, ObjectsInv, InstancesInv, LayersInv, InstanceId, IsInstance
  <1> QED
    BY <1>1, <1>2, <1>3, <1>4, <1>5, <1>6 DEF Next

(* Cloning a drawn parent. *)
LEMMA RegisterLayers ==
  ASSUME InstInv, NEW parent \in InstanceId, RegisterPyInstance(parent)
  PROVE  /\ \A l \in Layer : \A i : Drawn(drawn[l], i) => Drawn(drawn'[l], i)
         /\ IsDrawn(parent) =>
              Drawn(drawn'[LayerOf(objects[parent].actor)], Len(objects) + 1)
         /\ \A l \in Layer : \A i, j :
              Earlier(drawn'[l], i, j) /\ i # Len(objects) + 1 /\ j # Len(objects) + 1
                => Earlier(drawn[l], i, j)
  <1>1. PICK a, new : a = objects[parent].actor /\ new = Len(objects) + 1
    OBVIOUS
  <1>2. drawn' = IF IsDrawn(parent)
                 THEN [drawn EXCEPT ![LayerOf(a)] = RegisterBehind(@, new, parent)]
                 ELSE drawn
    BY <1>1 DEF RegisterPyInstance
  <1>3. new \in Nat /\ new \notin InstanceId /\ LayerOf(a) \in Layer
    BY <1>1, ObjectFacts DEF InstanceId
  <1>4. ASSUME NEW l \in Layer
        PROVE  /\ \A i : Drawn(drawn[l], i) => Drawn(drawn'[l], i)
               /\ IsDrawn(parent) /\ l = LayerOf(a) => Drawn(drawn'[l], new)
               /\ \A i, j : Earlier(drawn'[l], i, j) /\ i # new /\ j # new
                              => Earlier(drawn[l], i, j)
    <2>1. CASE ~(IsDrawn(parent) /\ l = LayerOf(a))
      <3>1. drawn'[l] = drawn[l]
        BY <1>2, <2>1 DEF InstInv, LayersInv
      <3> QED
        BY <2>1, <3>1
    <2>2. CASE IsDrawn(parent) /\ l = LayerOf(a)
      <3>1. PICK s, u : s = drawn[l] /\ u = drawn'[l]
        OBVIOUS
      <3>2. u = RegisterBehind(s, new, parent)
        BY <1>2, <2>2, <3>1 DEF InstInv, LayersInv
      <3>3. Drawn(s, parent) /\ ~Drawn(s, new) /\ s \in Seq(Nat)
        BY <1>1, <1>3, <2>2, <3>1, DrawnFacts DEF IsDrawn
      <3>4. /\ \A i : i = new \/ Drawn(s, i) => Drawn(u, i)
            /\ \A i, j : Earlier(u, i, j) /\ i # new /\ j # new => Earlier(s, i, j)
        BY <1>3, <3>2, <3>3, RegisterBehindFacts
      <3> QED
        BY <3>1, <3>4
    <2> QED
      BY <2>1, <2>2
  <1> QED
    BY <1>1, <1>3, <1>4

(* If no deleted sprite is cloned, every instance is drawn in every step.  *)
LEMMA NextKeepsDrawn ==
  ~CloneDeleted /\ InstInv /\ InstancesAreDrawn /\ [Next]_instanceVars => InstancesAreDrawn'
  <1> SUFFICES ASSUME ~CloneDeleted, InstInv, InstancesAreDrawn, [Next]_instanceVars,
                      NEW a \in Actor, NEW i \in instances'[a]
               PROVE  Drawn(drawn'[LayerOf(objects'[i].actor)], i)
    BY DEF InstancesAreDrawn, IsDrawn
  <1>1. \A j \in instances[a] : /\ j \in InstanceId /\ objects[j].actor = a
                                /\ Drawn(drawn[LayerOf(a)], j)
    BY DEF InstInv, InstancesInv, InstancesAreDrawn, IsDrawn
  <1>2. LayerOf(a) \in Layer
    BY ObjectFacts
  <1>3. CASE \E parent \in Source : RegisterPyInstance(parent)
    <2>1. PICK parent \in InstanceId : RegisterPyInstance(parent) /\ IsDrawn(parent)
      BY <1>3 DEF Source
    <2>2. PICK b, new : b = objects[parent].actor /\ new = Len(objects) + 1
      OBVIOUS
    <2>3. b \in Actor
      BY <2>2, ObjectFacts
    <2>4. /\ objects' = Append(objects, [actor |-> b, registered |-> TRUE])
          /\ instances' = [instances EXCEPT ![b] = @ \cup {new}]
      BY <2>1, <2>2 DEF RegisterPyInstance
    <2>5. /\ \A j \in InstanceId : objects'[j] = objects[j]
          /\ objects'[new].actor = b
      BY <2>2, <2>3, <2>4, MadeObject
    <2>6. /\ \A l \in Layer : \A j : Drawn(drawn[l], j) => Drawn(drawn'[l], j)
          /\ Drawn(drawn'[LayerOf(b)], new)
      BY <2>1, <2>2, RegisterLayers
    <2>7. i \in instances[a] \/ (i = new /\ a = b)
      BY <2>3, <2>4 DEF InstInv, InstancesInv
    <2> QED
      BY <1>1, <1>2, <2>5, <2>6, <2>7
  <1>4. CASE \E j \in InstanceId : UnregisterInstance(j)
    <2>1. i \in instances[a] /\ objects'[i].actor = a /\ drawn' = drawn
      BY <1>1, <1>4, UnregisterKeepsInv
    <2> QED
      BY <1>1, <2>1
  <1>5. CASE CullUnregisteredInstances
    <2>1. PICK marked : /\ instances' = [b \in Actor |-> instances[b] \ marked]
                        /\ drawn' = [l \in Layer |-> Without(drawn[l], marked)]
                        /\ objects' = objects
      BY <1>5 DEF CullUnregisteredInstances
    <2>2. i \in instances[a] /\ i \notin marked
      BY <2>1
    <2>3. \A l \in Layer : \A j : j \notin marked /\ Drawn(drawn[l], j) => Drawn(drawn'[l], j)
      BY <2>1, GoneFromLayers
    <2> QED
      BY <1>1, <1>2, <2>1, <2>2, <2>3
  <1>6. CASE DeleteAllClones
    <2>1. PICK gone : /\ gone = {j \in InstanceId : j # Original(objects[j].actor)}
                      /\ instances' = [b \in Actor |-> {Original(b)}]
                      /\ drawn' = [l \in Layer |-> Without(drawn[l], gone)]
                      /\ objects' = objects
      BY <1>6 DEF DeleteAllClones
    <2>2. i = a /\ i \in instances[a] /\ i \notin gone
      BY <1>1, <2>1, OriginalIsFirst DEF InstInv, InstancesInv
    <2>3. \A l \in Layer : \A j : j \notin gone /\ Drawn(drawn[l], j) => Drawn(drawn'[l], j)
      <3>1. drawn' = [l \in Layer |-> Without(drawn[l], gone)]
        BY <2>1
      <3> QED
        BY ONLY InstInv, <3>1, GoneFromLayers
    <2> QED
      BY <1>1, <1>2, <2>1, <2>2, <2>3
  <1>7. CASE \E j \in InstanceId, kind \in MoveKind, n \in Offset :
               objects[j].actor \in Sprite /\ MoveWithinDrawLayerGroup(j, kind, n)
    <2>1. /\ UNCHANGED <<objects, instances>>
          /\ \A l \in Layer : \A j : Drawn(drawn[l], j) => Drawn(drawn'[l], j)
      BY <1>7, MoveChanges
    <2> QED
      BY <1>1, <1>2, <2>1
  <1>8. CASE UNCHANGED instanceVars
    BY <1>1, <1>8 DEF instanceVars
  <1> QED
    BY <1>3, <1>4, <1>5, <1>6, <1>7, <1>8 DEF Next

(* No two instances change places but by a move of one of them. *)
LEMMA StepKeepsOrder ==
  ASSUME InstInv, NEW l \in Layer, drawn'[l] \in Seq(Nat),
         NEW moved,
         \A a, b \in InstanceId :
           Earlier(drawn'[l], a, b) /\ a # moved /\ b # moved => Earlier(drawn[l], a, b)
  PROVE  \A p \in Swapped(l) : moved \in {p[1], p[2]}
  <1> SUFFICES ASSUME NEW p \in Swapped(l), p[1] # moved, p[2] # moved PROVE FALSE
    OBVIOUS
  <1>1. /\ p[1] \in InstanceId /\ p[2] \in InstanceId
        /\ Behind(drawn[l], p[1], p[2]) /\ Behind(drawn'[l], p[2], p[1])
    BY DEF Swapped
  <1>2. drawn[l] \in Seq(Nat) /\ IsInjective(drawn[l])
    BY DrawnFacts
  <1>3. PICK s, u, a, b : s = drawn[l] /\ u = drawn'[l] /\ a = p[1] /\ b = p[2]
    OBVIOUS
  <1>4. Earlier(s, a, b) /\ Earlier(u, b, a)
    BY <1>1, <1>2, <1>3, BehindIsEarlier
  <1>5. Earlier(s, b, a)
    BY <1>1, <1>3, <1>4
  <1> QED
    BY <1>2, <1>3, <1>4, <1>5, EarlierOneWay

OrderKept ==
  \A l \in Layer :
    Swapped(l) # {} =>
      /\ UNCHANGED <<objects, instances>>
      /\ \E moved \in InstanceId : \A p \in Swapped(l) : moved \in {p[1], p[2]}

(* OrderIsStable, of a step.                                               *)
LEMMA NextKeepsOrder == InstInv /\ [Next]_instanceVars => OrderKept
  <1> SUFFICES ASSUME InstInv, [Next]_instanceVars, NEW l \in Layer, Swapped(l) # {}
               PROVE  /\ UNCHANGED <<objects, instances>>
                      /\ \E moved \in InstanceId : \A p \in Swapped(l) : moved \in {p[1], p[2]}
    BY DEF OrderKept
  <1>1. PICK p \in Swapped(l) : p[1] \in InstanceId /\ p[2] \in InstanceId
    BY DEF Swapped
  <1>2. InstInv' /\ drawn'[l] \in Seq(Nat)
    BY NextKeepsInv DEF InstInv, LayersInv
  <1>3. 0 \notin InstanceId
    BY ObjectFacts DEF InstanceId
  <1>4. CASE \E i \in InstanceId, kind \in MoveKind, n \in Offset :
               objects[i].actor \in Sprite /\ MoveWithinDrawLayerGroup(i, kind, n)
    <2>1. PICK i \in InstanceId :
                 /\ UNCHANGED <<objects, instances>>
                 /\ \A a, b \in InstanceId :
                      Earlier(drawn'[l], a, b) /\ a # i /\ b # i => Earlier(drawn[l], a, b)
      BY <1>4, MoveChanges
    <2>2. \A q \in Swapped(l) : i \in {q[1], q[2]}
      BY <1>2, <2>1, StepKeepsOrder
    <2> QED
      BY <2>1, <2>2
  <1>5. CASE ~\E i \in InstanceId, kind \in MoveKind, n \in Offset :
               objects[i].actor \in Sprite /\ MoveWithinDrawLayerGroup(i, kind, n)
    <2>1. \A a, b \in InstanceId : Earlier(drawn'[l], a, b) => Earlier(drawn[l], a, b)
      <3>1. CASE \E parent \in Source : RegisterPyInstance(parent)
        <4>1. Len(objects) + 1 \notin InstanceId
          BY ObjectFacts DEF InstanceId
        <4> QED
          BY <3>1, <4>1, RegisterLayers DEF Source
      <3>2. CASE \E i \in InstanceId : UnregisterInstance(i)
        BY <3>2, UnregisterKeepsInv
      <3>3. CASE CullUnregisteredInstances
        BY <3>3, GoneFromLayers DEF CullUnregisteredInstances
      <3>4. CASE DeleteAllClones
        BY <3>4, GoneFromLayers DEF DeleteAllClones
      <3>5. CASE UNCHANGED instanceVars
        BY <3>5 DEF instanceVars
      <3> QED
        BY <1>5, <3>1, <3>2, <3>3, <3>4, <3>5 DEF Next
    <2>2. \A a, b \in InstanceId :
            Earlier(drawn'[l], a, b) /\ a # 0 /\ b # 0 => Earlier(drawn[l], a, b)
      BY <2>1
    <2>3. \A q \in Swapped(l) : 0 \in {q[1], q[2]}
      BY <1>2, <2>2, StepKeepsOrder
    <2> QED
      BY <1>1, <1>3, <2>3
  <1> QED
    BY <1>4, <1>5

(* The originals stay first, every instance is drawn once, in the layer of *)
(* its actor, and nothing else is drawn, for a program that clones no      *)
(* sprite it has deleted.                                                  *)
THEOREM LayersAgree ==
  ASSUME InstancesAssumption, ~CloneDeleted
  PROVE  Spec => [](TypeOK /\ DrawnAreInstances)
  <1>1. Init => InstInv /\ InstancesAreDrawn
    BY InitKeepsInv
  <1>2. InstInv /\ InstancesAreDrawn /\ [Next]_instanceVars => InstInv' /\ InstancesAreDrawn'
    BY NextKeepsInv, NextKeepsDrawn
  <1>3. InstInv /\ InstancesAreDrawn => TypeOK /\ DrawnAreInstances
    BY TypesHold, DrawnAreAsTheyShould
  <1> QED
    BY <1>1, <1>2, <1>3, PTL DEF Spec

(* Only a move changes which of two instances is in front, and only with   *)
(* respect to the instance moved: cloning, deleting and culling keep the   *)
(* order, even after a clone operation that failed half-way.               *)
THEOREM OrderStays ==
  ASSUME InstancesAssumption
  PROVE  Spec => OrderIsStable
  <1>1. Init => InstInv
    BY InitKeepsInv
  <1>2. InstInv /\ [Next]_instanceVars => InstInv' /\ OrderKept
    BY NextKeepsInv, NextKeepsOrder
  <1> QED
    BY <1>1, <1>2, PTL DEF Spec, OrderIsStable, OrderKept

=============================================================================
