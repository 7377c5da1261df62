------------------------ MODULE Library_proofs ------------------------
(***************************************************************************)
(* Proofs about what the library does for a program: glides of its         *)
(* sprites, caches of functions, dicts, deques, and costumes, for any      *)
(* values of the constants.                                                *)
(***************************************************************************)
EXTENDS Program, FiniteSetTheorems, SequenceTheorems, WellFoundedInduction, TLAPS

-----------------------------------------------------------------------------
(* Gliding (Glide).                                                        *)

(* A linear glide makes the same part of its way in each frame. *)
LEMMA LinearRises ==
  ASSUME NEW n \in Nat \ {0}, NEW i \in 1..n
  PROVE  /\ 0 < i * n
         /\ i * n < (i + 1) * n
  OBVIOUS

(* With ease-in-out, the first half of the frames follows a parabola ...   *)
LEMMA FirstHalfRises ==
  ASSUME NEW n \in Nat \ {0}, NEW i \in 1..n, 2 * i < n
  PROVE  /\ 0 < 2 * i * i
         /\ 2 * i * i < 2 * (i + 1) * (i + 1)
         /\ 4 * i * i < n * n
  OBVIOUS

(* ... and the second half the same one, mirrored: what is left of the way *)
(* is 2 * (n - i) * (n - i), no more than half of it.                      *)
Left(i, n) == 2 * (n - i) * (n - i)

LEMMA SecondHalfMirrors ==
  ASSUME NEW n \in Nat \ {0}, NEW i \in 1..n
  PROVE  4 * i * n - 2 * i * i - n * n = n * n - Left(i, n)
  BY DEF Left

LEMMA SecondHalfRises ==
  ASSUME NEW n \in Nat \ {0}, NEW i \in 1..n, ~(2 * i < n)
  PROVE  /\ 2 * Left(i, n) <= n * n
         /\ i < n => Left(i + 1, n) < Left(i, n)
  <1> DEFINE d == n - i
  <1>1. d \in Nat /\ 2 * d <= n /\ n \in Nat
    OBVIOUS
  <1>2. (2 * d) * (2 * d) <= n * n
    <2> HIDE DEF d
    <2> QED
      BY <1>1
  <1>3. ASSUME i < n PROVE 2 * (d - 1) * (d - 1) < 2 * d * d
    <2>1. d > 0
      BY <1>3
    <2> HIDE DEF d
    <2> QED
      BY <1>1, <2>1
  <1> QED
    BY <1>2, <1>3 DEF Left

(* However many frames a glide has, each brings the sprite further on its  *)
(* way, the first one too, and the last one exactly to the end of it: the  *)
(* curves of _glide_easing.js, where glide_to_xy() evaluates them.         *)
THEOREM CurvesRise ==
  ASSUME NEW curve, NEW n \in Nat \ {0}, NEW i \in 1..n
  PROVE  /\ 0 < G!Eased(curve, i, n)
         /\ i < n => G!Eased(curve, i, n) < G!Eased(curve, i + 1, n)
         /\ G!Eased(curve, n, n) = n * n
  <1>1. CASE curve = "linear"
    BY <1>1, LinearRises DEF G!Eased
  <1>2. CASE curve # "linear"
    <2>1. G!Eased(curve, n, n) = n * n
      <3>1. Left(n, n) = 0
        BY DEF Left
      <3> QED
        BY <1>2, <3>1, SecondHalfMirrors DEF G!Eased
    <2>2. CASE 2 * i < n
      <3>1. G!Eased(curve, i, n) = 2 * i * i
        BY <1>2, <2>2 DEF G!Eased
      <3>2. CASE 2 * (i + 1) < n
        BY <1>2, <2>1, <2>2, <3>1, <3>2, FirstHalfRises DEF G!Eased
      <3>3. CASE ~(2 * (i + 1) < n)
        <4>1. i + 1 \in 1..n
          BY <2>2
        <4>2. G!Eased(curve, i + 1, n) = n * n - Left(i + 1, n)
          BY <1>2, <3>3, <4>1, SecondHalfMirrors DEF G!Eased
        <4>3. 2 * Left(i + 1, n) <= n * n
          BY <3>3, <4>1, SecondHalfRises
        <4>4. 4 * i * i < n * n /\ 0 < 2 * i * i
          BY <2>2, FirstHalfRises
        <4>5. Left(i + 1, n) \in Int /\ n * n \in Int /\ i * i \in Int
          BY DEF Left
        <4>6. 2 * i * i < n * n - Left(i + 1, n)
          BY <4>3, <4>4, <4>5
        <4> QED
          BY <2>1, <3>1, <4>2, <4>4, <4>6
      <3> QED
        BY <3>2, <3>3
    <2>3. CASE ~(2 * i < n)
      <3>1. G!Eased(curve, i, n) = n * n - Left(i, n)
        BY <1>2, <2>3, SecondHalfMirrors DEF G!Eased
      <3>2. 2 * Left(i, n) <= n * n
        BY <2>3, SecondHalfRises
      <3>3. n * n > 0 /\ n * n \in Int /\ Left(i, n) \in Int
        BY DEF Left
      <3>4. 0 < n * n - Left(i, n)
        BY <3>2, <3>3
      <3>5. ASSUME i < n
            PROVE  G!Eased(curve, i, n) < G!Eased(curve, i + 1, n)
        <4>1. i + 1 \in 1..n /\ ~(2 * (i + 1) < n)
          BY <2>3, <3>5
        <4>2. G!Eased(curve, i + 1, n) = n * n - Left(i + 1, n)
          BY <1>2, <4>1, SecondHalfMirrors DEF G!Eased
        <4>3. Left(i + 1, n) < Left(i, n) /\ Left(i + 1, n) \in Int
          BY <2>3, <3>5, SecondHalfRises DEF Left
        <4> QED
          BY <3>1, <3>3, <4>2, <4>3
      <3> QED
        BY <2>1, <3>1, <3>4, <3>5
    <2> QED
      BY <2>2, <2>3
  <1> QED
    BY <1>1, <1>2

LEMMA CurveWithin ==
  ASSUME NEW curve, NEW n \in Nat \ {0}, NEW i \in 1..n
  PROVE  G!Eased(curve, i, n) \in 1..(n * n)
  <1>1. G!Eased(curve, i, n) \in Int /\ n * n \in Int
    BY DEF G!Eased
  <1>2. 0 < G!Eased(curve, i, n)
    BY CurvesRise
  <1>3. G!Eased(curve, i, n) <= n * n
    <2>1. CASE curve = "linear"
      BY <2>1 DEF G!Eased
    <2>2. CASE curve # "linear" /\ 2 * i < n
      <3>1. 4 * i * i < n * n
        BY <2>2, FirstHalfRises
      <3> QED
        BY <2>2, <3>1 DEF G!Eased
    <2>3. CASE curve # "linear" /\ ~(2 * i < n)
      <3>1. G!Eased(curve, i, n) = n * n - Left(i, n)
        BY <2>3, SecondHalfMirrors DEF G!Eased
      <3>2. Left(i, n) >= 0 /\ Left(i, n) \in Int
        BY DEF Left
      <3> QED
        BY <1>1, <3>1, <3>2
    <2> QED
      BY <2>1, <2>2, <2>3
  <1> QED
    BY <1>1, <1>2, <1>3

-----------------------------------------------------------------------------
(* A glide divides what positions are multiples of, see UnitIsExact.       *)
Multiple(a, m) == \E q \in Int : a = q * m

GlideRecord ==
  [from : Int, to : Int, frames : Nat \ {0}, curve : Curves, frame : Nat, left : Int]

GlideType ==
  /\ position \in Int
  /\ glides \in [G!Thread -> {G!Idle} \cup GlideRecord]
  /\ turn \in G!Thread
  /\ begun \in 0..MaxGlides

(* Both ends of a glide are exact for its frames, and it has put the       *)
(* sprite last where its curve was a frame ago.                            *)
PartMade(g) == IF g.frame = 1 THEN 0 ELSE G!Eased(g.curve, g.frame - 1, g.frames)
WayAt(a, b, part, n) == part * b + (n * n - part) * a

OnItsCurve(g, m) ==
  /\ g.frame \in 1..g.frames
  /\ \E a, b \in Int :
       /\ g.from = a * (g.frames * g.frames * m)
       /\ g.to = b * (g.frames * g.frames * m)
       /\ g.left = WayAt(a, b, PartMade(g), g.frames) * m

GlideInv(grain) ==
  /\ GlideType
  /\ Multiple(Unit, grain[begun])
  /\ Multiple(position, grain[begun])
  /\ \A t \in G!Thread : glides[t] # G!Idle => OnItsCurve(glides[t], grain[begun])

(* Arithmetic.                                                             *)
LEMMA ExactQuotient ==
  ASSUME NEW q \in Int, NEW k \in Nat \ {0}
  PROVE  (q * k) \div k = q
  OBVIOUS

LEMMA Remaining ==
  ASSUME NEW a \in Int, NEW b \in Int, NEW e \in Int, NEW N \in Int, NEW m \in Int
  PROVE  b * (N * m) - (e * b + (N - e) * a) * m = ((N - e) * m) * (b - a)
  OBVIOUS

LEMMA LessRemains ==
  ASSUME NEW c \in Int, NEW k \in Nat, NEW j \in Nat, j < k, c # 0
  PROVE  /\ c > 0 => j * c < k * c /\ 0 <= j * c
         /\ c < 0 => k * c < j * c /\ j * c <= 0
  OBVIOUS

(* The further along its way, the closer to the end of it. *)
LEMMA Closer ==
  ASSUME NEW a \in Int, NEW b \in Int, NEW e \in Nat, NEW f \in Nat, NEW N \in Nat,
         NEW m \in Nat \ {0}, e < f, f <= N, a # b
  PROVE  G!Distance((f * b + (N - f) * a) * m, b * (N * m))
           < G!Distance((e * b + (N - e) * a) * m, b * (N * m))
  <1> DEFINE to == b * (N * m)
             p == (f * b + (N - f) * a) * m
             o == (e * b + (N - e) * a) * m
             j == (N - f) * m
             k == (N - e) * m
             c == b - a
  <1>1. to \in Int /\ p \in Int /\ o \in Int /\ c \in Int
    OBVIOUS
  <1>2. j \in Nat /\ k \in Nat /\ j < k
    OBVIOUS
  <1>3. to - p = j * c /\ to - o = k * c
    BY Remaining
  <1>4. c # 0
    OBVIOUS
  <1> HIDE DEF to, p, o, j, k, c
  <1>5. /\ c > 0 => j * c < k * c /\ 0 <= j * c
        /\ c < 0 => k * c < j * c /\ j * c <= 0
    BY <1>1, <1>2, <1>4, LessRemains
  <1>6. G!Distance(p, to) < G!Distance(o, to)
    <2> DEFINE jc == j * c
               kc == k * c
    <2>1. to - p = jc /\ to - o = kc
      BY <1>3
    <2>2. /\ c > 0 => jc < kc /\ 0 <= jc
          /\ c < 0 => kc < jc /\ jc <= 0
      BY <1>5
    <2>3. jc \in Int /\ kc \in Int
      BY <1>1, <2>1
    <2> HIDE DEF jc, kc
    <2> QED
      BY <1>1, <1>4, <2>1, <2>2, <2>3 DEF G!Distance
  <1> QED
    BY <1>6 DEF to, p, o

-----------------------------------------------------------------------------
(* A frame of a glide, where positions are exact: the quotient of GoOn is  *)
(* where the curve is in this frame.                                       *)
LEMMA WayIsInt ==
  ASSUME NEW a \in Int, NEW b \in Int, NEW e \in Int, NEW n \in Int
  PROVE  WayAt(a, b, e, n) \in Int
  BY DEF WayAt

LEMMA FrameGetsCloser ==
  ASSUME NEW g \in GlideRecord, NEW m \in Nat \ {0}, OnItsCurve(g, m)
  PROVE  \E p \in Int :
           /\ p = (G!Eased(g.curve, g.frame, g.frames) * g.to
                    + (g.frames * g.frames - G!Eased(g.curve, g.frame, g.frames)) * g.from)
                  \div (g.frames * g.frames)
           /\ Multiple(p, m)
           /\ g.from # g.to => G!Distance(p, g.to) < G!Distance(g.left, g.to)
           /\ g.frame = g.frames => p = g.to
           /\ g.frame # g.frames => OnItsCurve([g EXCEPT !.frame = @ + 1, !.left = p], m)
  <1>0. PICK a \in Int, b \in Int :
        /\ g.from = a * (g.frames * g.frames * m)
        /\ g.to = b * (g.frames * g.frames * m)
        /\ g.left = WayAt(a, b, PartMade(g), g.frames) * m
    BY DEF OnItsCurve
  <1> DEFINE n == g.frames
             i == g.frame
             e == PartMade(g)
             f == G!Eased(g.curve, i, n)
             p == WayAt(a, b, f, n) * m
  <1>1. n \in Nat \ {0} /\ i \in 1..n /\ n * n \in Nat
    BY DEF OnItsCurve, GlideRecord
  <1>2. f \in 1..(n * n)
    BY <1>1, CurveWithin
  <1>3. e \in Nat /\ e < f
    <2>1. CASE i = 1
      BY <1>2, <2>1 DEF PartMade
    <2>2. CASE i # 1
      <3>1. i - 1 \in 1..n /\ i - 1 < n /\ (i - 1) + 1 = i
        BY <1>1, <2>2
      <3>2. e = G!Eased(g.curve, i - 1, n)
        BY <2>2 DEF PartMade
      <3>3. G!Eased(g.curve, i - 1, n) < G!Eased(g.curve, (i - 1) + 1, n)
        BY <1>1, <3>1, CurvesRise
      <3>4. G!Eased(g.curve, i - 1, n) \in 1..(n * n)
        BY <1>1, <3>1, CurveWithin
      <3> QED
        BY <3>1, <3>2, <3>3, <3>4
    <2> QED
      BY <2>1, <2>2
  <1>4. p \in Int /\ WayAt(a, b, f, n) \in Int
    <2>1. f \in Int /\ n \in Int
      BY <1>1, <1>2
    <2> HIDE DEF f, n
    <2>2. WayAt(a, b, f, n) \in Int
      BY <2>1, WayIsInt
    <2> QED
      BY <2>2
  <1>5. p = (f * g.to + (n * n - f) * g.from) \div (n * n)
    <2> DEFINE N == n * n
               w == (f * b + (N - f) * a) * m
    <2>1. f \in Int /\ N \in Nat \ {0}
      BY <1>1, <1>2
    <2>2. g.to = b * (N * m) /\ g.from = a * (N * m)
      BY <1>0
    <2>3. p = w
      BY DEF WayAt
    <2> HIDE DEF N, f, p
    <2>4. f * g.to + (N - f) * g.from = w * N /\ w \in Int
      BY <2>1, <2>2
    <2> HIDE DEF w
    <2>5. (w * N) \div N = w
      BY <2>1, <2>4, ExactQuotient
    <2>6. (f * g.to + (N - f) * g.from) \div N = w
      BY <2>4, <2>5
    <2> QED
      BY <2>3, <2>6 DEF N
  <1>6. Multiple(p, m)
    BY <1>4 DEF Multiple
  <1>7. ASSUME g.from # g.to PROVE G!Distance(p, g.to) < G!Distance(g.left, g.to)
    <2>1. a # b
      BY <1>0, <1>7
    <2> DEFINE N == n * n
    <2>2. N \in Nat /\ f \in Nat /\ f <= N
      BY <1>1, <1>2
    <2>3. g.to = b * (N * m)
      BY <1>0
    <2> HIDE DEF N, f, e
    <2>4. G!Distance((f * b + (N - f) * a) * m, b * (N * m))
            < G!Distance((e * b + (N - e) * a) * m, b * (N * m))
      BY <1>3, <2>1, <2>2, Closer
    <2> QED
      BY <1>0, <2>3, <2>4 DEF WayAt, N, e
  <1>8. ASSUME i = n PROVE p = g.to
    <2>1. f = n * n
      BY <1>1, <1>8, CurvesRise
    <2> HIDE DEF f, n
    <2>2. WayAt(a, b, n * n, n) = (n * n) * b
      BY <1>1 DEF WayAt
    <2>3. ((n * n) * b) * m = b * (n * n * m)
      BY <1>1
    <2> QED
      BY <1>0, <2>1, <2>2, <2>3 DEF n
  <1>9. ASSUME i # n PROVE OnItsCurve([g EXCEPT !.frame = @ + 1, !.left = p], m)
    <2> DEFINE h == [g EXCEPT !.frame = @ + 1, !.left = p]
    <2>1. /\ h.from = g.from /\ h.to = g.to /\ h.frames = n /\ h.curve = g.curve
          /\ h.frame = i + 1 /\ h.left = p
      BY DEF GlideRecord
    <2>2. i + 1 \in 1..n /\ i + 1 # 1 /\ (i + 1) - 1 = i
      <3> HIDE DEF i, n
      <3> QED
        BY <1>1, <1>9
    <2>3. PartMade(h) = f
      BY <2>1, <2>2 DEF PartMade
    <2> HIDE DEF h, p
    <2>4. h.left = WayAt(a, b, PartMade(h), h.frames) * m
      BY <2>1, <2>3 DEF p
    <2>5. h.frame \in 1..h.frames
      BY <2>1, <2>2
    <2>6. h.from = a * (h.frames * h.frames * m) /\ h.to = b * (h.frames * h.frames * m)
      BY <1>0, <2>1
    <2>7. OnItsCurve(h, m)
      BY <2>4, <2>5, <2>6 DEF OnItsCurve
    <2> QED
      BY <2>7 DEF h
  <1> QED
    BY <1>4, <1>5, <1>6, <1>7, <1>8, <1>9

(* What is exact stays so when the next glide divides the grain.           *)
LEMMA FinerMultiple ==
  ASSUME NEW a \in Int, NEW k \in Nat \ {0}, NEW m \in Nat \ {0}, NEW q \in Nat \ {0},
         k = q * m, Multiple(a, k)
  PROVE  Multiple(a, m)
  <1>1. PICK r \in Int : a = r * k
    BY DEF Multiple
  <1>2. a = (r * q) * m /\ r * q \in Int
    BY <1>1
  <1> QED
    BY <1>2 DEF Multiple

LEMMA FinerCurve ==
  ASSUME NEW g \in GlideRecord, NEW k \in Nat \ {0}, NEW m \in Nat \ {0}, NEW q \in Nat \ {0},
         k = q * m, OnItsCurve(g, k)
  PROVE  OnItsCurve(g, m)
  <1> PICK a \in Int, b \in Int :
        /\ g.from = a * (g.frames * g.frames * k)
        /\ g.to = b * (g.frames * g.frames * k)
        /\ g.left = WayAt(a, b, PartMade(g), g.frames) * k
    BY DEF OnItsCurve
  <1>1. g.frames \in Nat \ {0} /\ g.frame \in 1..g.frames
    BY DEF OnItsCurve, GlideRecord
  <1>2. PartMade(g) \in Int
    <2>1. CASE g.frame = 1
      BY <2>1 DEF PartMade
    <2>2. CASE g.frame # 1
      BY <1>1, <2>2, CurveWithin DEF PartMade
    <2> QED
      BY <2>1, <2>2
  <1> DEFINE n == g.frames
             e == PartMade(g)
  <1> HIDE DEF n, e
  <1>3. /\ a * (n * n * k) = (a * q) * (n * n * m)
        /\ b * (n * n * k) = (b * q) * (n * n * m)
        /\ WayAt(a, b, e, n) * k = WayAt(a * q, b * q, e, n) * m
        /\ a * q \in Int /\ b * q \in Int
    BY <1>1, <1>2 DEF WayAt, n, e
  <1> QED
    BY <1>1, <1>3 DEF OnItsCurve, n, e

-----------------------------------------------------------------------------
(* The invariant, and what a step does from where it holds.                *)
LEMMA InitEstablishesGlideInv ==
  ASSUME NEW grain, UnitIsExact(grain), G!Init
  PROVE  GlideInv(grain)
  <1>1. GlideType
    BY DEF G!Init, GlideType, UnitIsExact, G!Thread
  <1>2. Unit \in Nat \ {0} /\ grain[0] = Unit
    BY DEF UnitIsExact
  <1>3. Multiple(Unit, grain[begun]) /\ Multiple(position, grain[begun])
    <2>1. Unit = 1 * Unit /\ 0 = 0 * Unit
      BY <1>2
    <2> QED
      BY <1>2, <2>1 DEF G!Init, Multiple
  <1> QED
    BY <1>1, <1>3 DEF GlideInv, G!Init

LEMMA BeginKeepsGlideInv ==
  ASSUME NEW grain, UnitIsExact(grain), GlideInv(grain), NEW t \in G!Thread,
         NEW to \in Destinations, NEW time \in Times, NEW curve \in Curves,
         G!GlideToXY(t, to, time, curve)
  PROVE  GlideInv(grain)'
  <1> DEFINE n == G!NumFrames(time)
             k == grain[begun]
             m == grain[begun + 1]
             g == [from |-> position, to |-> to * Unit, frames |-> n, curve |-> curve,
                   frame |-> 1, left |-> position]
  <1>1. begun + 1 \in 1..MaxGlides /\ begun' = begun + 1 /\ begun \in Nat
    BY DEF G!GlideToXY, GlideInv, GlideType, UnitIsExact
  <1>2. k \in Nat \ {0} /\ m \in Nat \ {0} /\ to \in Int /\ Unit \in Nat \ {0}
    BY <1>1 DEF UnitIsExact, GlideInv, GlideType
  <1>3. n \in Nat \ {0}
    BY DEF G!NumFrames, UnitIsExact
  <1>4. PICK q \in Nat \ {0} : k = q * (n * n * m)
    <2>1. (begun + 1) - 1 = begun
      BY <1>1
    <2> QED
      BY <1>1, <2>1 DEF UnitIsExact
  <1>5. q * (n * n) \in Nat \ {0} /\ k = (q * (n * n)) * m
    <2> HIDE DEF n, k, m
    <2> QED
      BY <1>2, <1>3, <1>4
  <1>6. g \in GlideRecord
    BY <1>2, <1>3 DEF GlideRecord, GlideInv, GlideType
  <1>7. position' = position /\ turn' = turn /\ glides' = [glides EXCEPT ![t] = g]
    BY DEF G!GlideToXY
  <1>8. GlideType'
    BY <1>1, <1>6, <1>7 DEF GlideType, GlideInv, UnitIsExact
  <1>9. Multiple(Unit, k) /\ Multiple(position, k) /\ position \in Int
    BY DEF GlideInv, GlideType
  <1>10. Multiple(Unit, m) /\ Multiple(position, m)
    <2> HIDE DEF n, k, m
    <2> QED
      BY <1>2, <1>5, <1>9, FinerMultiple
  <1>11. OnItsCurve(g, m)
    <2>1. PICK r \in Int : Unit = r * k
      BY <1>9 DEF Multiple
    <2>2. PICK s \in Int : position = s * k
      BY <1>9 DEF Multiple
    <2> DEFINE a == s * q
               b == to * (r * q)
    <2>3. a \in Int /\ b \in Int
      BY <1>2
    <2>4. /\ position = a * (n * n * m)
          /\ to * Unit = b * (n * n * m)
          /\ position = ((n * n) * a) * m
      <3> HIDE DEF n, k, m
      <3> QED
        BY <1>2, <1>3, <1>4, <2>1, <2>2
    <2> HIDE DEF a, b
    <2>5. WayAt(a, b, 0, n) = (n * n) * a
      <3> HIDE DEF n
      <3> QED
        BY <1>3, <2>3 DEF WayAt
    <2>6. PartMade(g) = 0
      BY DEF PartMade
    <2>7. g.frame \in 1..g.frames
      <3> HIDE DEF n
      <3> QED
        BY <1>3
    <2> QED
      BY <2>3, <2>4, <2>5, <2>6, <2>7 DEF OnItsCurve
  <1>12. ASSUME NEW u \in G!Thread, glides'[u] # G!Idle
         PROVE  OnItsCurve(glides'[u], m)
    <2>1. CASE u = t
      BY <1>7, <1>11, <2>1 DEF GlideInv, GlideType
    <2>2. CASE u # t
      <3>1. glides'[u] = glides[u] /\ glides[u] \in GlideRecord /\ OnItsCurve(glides[u], k)
        BY <1>7, <1>12, <2>2 DEF GlideInv, GlideType
      <3> HIDE DEF n, k, m
      <3> QED
        BY <1>2, <1>5, <3>1, FinerCurve
    <2> QED
      BY <2>1, <2>2
  <1> QED
    BY <1>1, <1>7, <1>8, <1>10, <1>12 DEF GlideInv

LEMMA FrameCounted ==
  ASSUME NEW g \in GlideRecord, NEW p \in Int
  PROVE  [g EXCEPT !.frame = @ + 1, !.left = p] \in GlideRecord
  <1>1. PICK i \in Nat : i = g.frame + 1
    BY DEF GlideRecord
  <1>2. [g EXCEPT !.frame = i, !.left = p] \in GlideRecord
    BY DEF GlideRecord
  <1> QED
    BY <1>1, <1>2

LEMMA FrameOfGlide ==
  ASSUME NEW grain, UnitIsExact(grain), GlideInv(grain), NEW t \in G!Thread, G!GoOn(t)
  PROVE  /\ GlideInv(grain)'
         /\ glides' = [glides EXCEPT ![t] = glides'[t]]
         /\ G!Progress(glides[t], glides'[t] = G!Idle)
  <1> DEFINE g == glides[t]
             n == g.frames
             part == G!Eased(g.curve, g.frame, n)
             m == grain[begun]
  <1>1. g \in GlideRecord /\ OnItsCurve(g, m) /\ begun' = begun
    BY DEF G!GoOn, GlideInv, GlideType
  <1>2. m \in Nat \ {0}
    BY DEF UnitIsExact, GlideInv, GlideType
  <1>3. PICK p \in Int :
          /\ p = (part * g.to + (n * n - part) * g.from) \div (n * n)
          /\ Multiple(p, m)
          /\ g.from # g.to => G!Distance(p, g.to) < G!Distance(g.left, g.to)
          /\ g.frame = n => p = g.to
          /\ g.frame # n => OnItsCurve([g EXCEPT !.frame = @ + 1, !.left = p], m)
    <2> HIDE DEF m
    <2> QED
      BY <1>1, <1>2, FrameGetsCloser
  <1> DEFINE h == [g EXCEPT !.frame = @ + 1, !.left = p]
  <1>4. /\ position' = p
        /\ glides' = [glides EXCEPT ![t] = IF g.frame = n THEN G!Idle ELSE h]
        /\ turn' = (t % Threads) + 1
    BY <1>3 DEF G!GoOn
  <1>5. h \in GlideRecord
    BY <1>1, FrameCounted
  <1>6. h # G!Idle
    <2>1. h.frames = n /\ n # 0
      BY <1>1 DEF GlideRecord
    <2> QED
      BY <2>1 DEF G!Idle
  <1>7. turn' \in G!Thread
    BY <1>4 DEF G!Thread, UnitIsExact
  <1> HIDE DEF h
  <1>8. GlideType'
    BY <1>1, <1>4, <1>5, <1>7 DEF GlideType, GlideInv
  <1>9. glides'[t] = IF g.frame = n THEN G!Idle ELSE h
    BY <1>4 DEF GlideInv, GlideType
  <1>10. ASSUME NEW u \in G!Thread, glides'[u] # G!Idle
         PROVE  OnItsCurve(glides'[u], m)
    <2>1. CASE u = t
      BY <1>3, <1>9, <1>10, <2>1 DEF h
    <2>2. CASE u # t
      BY <1>4, <1>10, <2>2 DEF GlideInv, GlideType
    <2> QED
      BY <2>1, <2>2
  <1>11. GlideInv(grain)'
    BY <1>1, <1>3, <1>4, <1>8, <1>10 DEF GlideInv
  <1>12. G!Progress(g, glides'[t] = G!Idle)
    BY <1>3, <1>4, <1>6, <1>9 DEF G!Progress
  <1> QED
    BY <1>4, <1>9, <1>11, <1>12

StepOfGlides ==
  \A t \in G!Thread :
    glides[t] # G!Idle /\ glides'[t] # glides[t] => G!Progress(glides[t], glides'[t] = G!Idle)

LEMMA NextKeepsGlideInv ==
  ASSUME NEW grain, UnitIsExact(grain), GlideInv(grain), [G!Next]_G!vars
  PROVE  GlideInv(grain)' /\ StepOfGlides
  <1>1. CASE UNCHANGED G!vars
    <2>1. StepOfGlides
      BY <1>1 DEF G!vars, StepOfGlides
    <2> QED
      BY <1>1, <2>1 DEF G!vars, GlideInv, GlideType
  <1>2. ASSUME NEW t \in G!Thread, NEW to \in Destinations, NEW time \in Times, NEW curve \in Curves,
               G!GlideToXY(t, to, time, curve)
        PROVE  GlideInv(grain)' /\ StepOfGlides
    <2>1. StepOfGlides
      BY <1>2 DEF G!GlideToXY, StepOfGlides, GlideInv, GlideType
    <2> QED
      BY <1>2, <2>1, BeginKeepsGlideInv
  <1>3. ASSUME NEW t \in G!Thread, G!GoOn(t)
        PROVE  GlideInv(grain)' /\ StepOfGlides
    <2>1. /\ GlideInv(grain)'
          /\ glides' = [glides EXCEPT ![t] = glides'[t]]
          /\ G!Progress(glides[t], glides'[t] = G!Idle)
      BY <1>3, FrameOfGlide
    <2>2. ASSUME NEW u \in G!Thread, u # t
          PROVE  glides'[u] = glides[u]
      BY <2>1, <2>2 DEF GlideInv, GlideType
    <2> QED
      BY <2>1, <2>2 DEF StepOfGlides
  <1>4. ASSUME NEW t \in G!Thread, G!Pass(t)
        PROVE  GlideInv(grain)' /\ StepOfGlides
    <2>1. turn' \in G!Thread
      BY <1>4 DEF G!Pass, G!Thread, UnitIsExact
    <2>2. StepOfGlides
      BY <1>4 DEF G!Pass, StepOfGlides
    <2> QED
      BY <1>4, <2>1, <2>2 DEF G!Pass, GlideInv, GlideType
  <1> QED
    BY <1>1, <1>2, <1>3, <1>4 DEF G!Next

(* Each frame of a glide brings the sprite closer to its destination, and  *)
(* the last one exactly there, for any number of threads that glide it,    *)
(* destinations and durations, where numbers have no rounding: the frames  *)
(* of glide_to_xy(), with other threads moving the sprite in between.      *)
THEOREM GlidesAlwaysArrive ==
  ASSUME NEW grain, UnitIsExact(grain)
  PROVE  G!Spec => GlidesArrive
  <1>1. G!Init => GlideInv(grain)
    BY InitEstablishesGlideInv
  <1>2. GlideInv(grain) /\ [G!Next]_G!vars => GlideInv(grain)' /\ StepOfGlides
    BY NextKeepsGlideInv
  <1>3. G!Spec => [][StepOfGlides]_G!vars
    BY <1>1, <1>2, PTL DEF G!Spec
  <1> QED
    BY <1>3 DEF GlidesArrive, G!GlidesArrive, StepOfGlides

-----------------------------------------------------------------------------
(* Caches (LruCache).                                                      *)

Pointers == [L!Link \cup {L!Root} -> L!Link \cup {L!Root}]

(* The n-th link of a ring, from the root on and back to it.               *)
At(ls, n) == IF n \in 1..Len(ls) THEN ls[n] ELSE L!Root

Distinct(s) == \A n, m \in 1..Len(s) : s[n] = s[m] => n = m

IsRing(r, ls) ==
  /\ r.next \in Pointers /\ r.prev \in Pointers
  /\ \A n \in 0..Len(ls) : /\ r.next[At(ls, n)] = At(ls, n + 1)
                           /\ r.prev[At(ls, n + 1)] = At(ls, n)

(* How many keys a cache has is their cardinality. *)
LEMMA SameCardinality == \A S : L!Cardinality(S) = Cardinality(S)
  BY DEF L!Cardinality, Cardinality

-----------------------------------------------------------------------------
LEMMA RemovedAt ==
  ASSUME NEW S, NEW s \in Seq(S), NEW i \in 1..Len(s)
  PROVE  /\ L!RemoveAt(s, i) \in Seq(S) /\ Len(L!RemoveAt(s, i)) = Len(s) - 1
         /\ \A n \in 1..(Len(s) - 1) : L!RemoveAt(s, i)[n] = IF n < i THEN s[n] ELSE s[n + 1]
  <1> DEFINE a == SubSeq(s, 1, i - 1)
             b == SubSeq(s, i + 1, Len(s))
             r == L!RemoveAt(s, i)
  <1>1. Len(s) \in Nat /\ i \in Nat /\ i >= 1 /\ i <= Len(s)
    OBVIOUS
  <1>2. /\ a \in Seq(S) /\ Len(a) = i - 1 /\ \A n \in 1..(i - 1) : a[n] = s[n]
        /\ b \in Seq(S) /\ Len(b) = Len(s) - i /\ \A n \in 1..(Len(s) - i) : b[n] = s[n + i]
    BY <1>1
  <1>3. r = a \o b
    BY DEF L!RemoveAt
  <1> HIDE DEF a, b, r
  <1>4. /\ r \in Seq(S) /\ Len(r) = Len(a) + Len(b)
        /\ \A n \in 1..(Len(a) + Len(b)) : r[n] = IF n <= Len(a) THEN a[n] ELSE b[n - Len(a)]
    BY <1>2, <1>3, ConcatProperties
  <1>5. ASSUME NEW n \in 1..(Len(s) - 1)
        PROVE  r[n] = IF n < i THEN s[n] ELSE s[n + 1]
    <2>1. CASE n < i
      BY <1>1, <1>2, <1>4, <2>1
    <2>2. CASE ~(n < i)
      <3>1. n - (i - 1) \in 1..(Len(s) - i) /\ (n - (i - 1)) + i = n + 1
        BY <1>1, <2>2
      <3>2. b[n - (i - 1)] = s[(n - (i - 1)) + i]
        BY <1>2, <3>1
      <3>3. r[n] = b[n - (i - 1)]
        BY <1>1, <1>2, <1>4, <2>2, SMTT(20)
      <3> QED
        BY <2>2, <3>1, <3>2, <3>3
    <2> QED
      BY <2>1, <2>2
  <1> QED
    BY <1>1, <1>2, <1>4, <1>5 DEF r

(* Taking a link out of a ring, and putting one in. *)
LEMMA ExtractedRing ==
  ASSUME NEW r, NEW ls \in Seq(L!Link), Distinct(ls), IsRing(r, ls), NEW i \in 1..Len(ls),
         SizeIsPositive
  PROVE  IsRing(L!Extracted(r, ls[i]), L!RemoveAt(ls, i))
  <1> DEFINE len == Len(ls)
             a(n) == At(ls, n)
             rest == L!RemoveAt(ls, i)
             b(n) == At(rest, n)
             e == L!Extracted(r, ls[i])
  <1>1. len \in Nat /\ i \in Nat /\ i >= 1 /\ i <= len /\ L!Root \notin L!Link
    BY DEF L!Root, L!Link, SizeIsPositive
  <1>2. /\ \A n \in 1..len : a(n) = ls[n] /\ ls[n] \in L!Link
        /\ a(0) = L!Root /\ a(len + 1) = L!Root
    BY <1>1 DEF At
  <1>3. /\ \A n, m \in 0..len : a(n) = a(m) => n = m
        /\ \A n, m \in 1..(len + 1) : a(n) = a(m) => n = m
        /\ \A n \in 0..(len + 1) : a(n) \in L!Link \cup {L!Root}
    BY <1>1, <1>2 DEF Distinct
  <1>4. /\ rest \in Seq(L!Link) /\ Len(rest) = len - 1
        /\ \A n \in 1..(len - 1) : rest[n] = IF n < i THEN ls[n] ELSE ls[n + 1]
    BY RemovedAt
  <1>5. \A n \in 0..len : b(n) = IF n < i THEN a(n) ELSE a(n + 1)
    <2> SUFFICES ASSUME NEW n \in 0..len PROVE b(n) = IF n < i THEN a(n) ELSE a(n + 1)
      OBVIOUS
    <2>1. CASE n \in 1..(len - 1)
      BY <1>1, <1>4, <2>1 DEF At
    <2>2. CASE n = 0
      BY <1>1, <1>4, <2>2 DEF At
    <2>3. CASE n = len
      BY <1>1, <1>4, <2>3 DEF At
    <2> QED
      BY <2>1, <2>2, <2>3, <1>1
  <1>6. /\ r.next \in Pointers /\ r.prev \in Pointers
        /\ \A n \in 0..len : r.next[a(n)] = a(n + 1) /\ r.prev[a(n + 1)] = a(n)
    BY DEF IsRing
  <1>7. a(i) = ls[i] /\ r.prev[ls[i]] = a(i - 1) /\ r.next[ls[i]] = a(i + 1)
    <2>1. i - 1 \in 0..len /\ (i - 1) + 1 = i /\ i \in 0..len /\ a(i) = ls[i]
      BY <1>1, <1>2
    <2>2. r.prev[a((i - 1) + 1)] = a(i - 1)
      BY <1>6, <2>1
    <2> QED
      BY <1>6, <2>1, <2>2
  <1>8. /\ e.next = [r.next EXCEPT ![a(i - 1)] = a(i + 1)]
        /\ e.prev = [r.prev EXCEPT ![a(i + 1)] = a(i - 1)]
    BY <1>7 DEF L!Extracted
  <1> HIDE DEF a, b, e, rest, len
  <1>9. /\ e.next \in Pointers /\ e.prev \in Pointers
        /\ \A p \in L!Link \cup {L!Root} :
             /\ e.next[p] = IF p = a(i - 1) THEN a(i + 1) ELSE r.next[p]
             /\ e.prev[p] = IF p = a(i + 1) THEN a(i - 1) ELSE r.prev[p]
    <2>1. i - 1 \in 0..(len + 1) /\ i + 1 \in 0..(len + 1)
      BY <1>1
    <2>2. a(i - 1) \in L!Link \cup {L!Root} /\ a(i + 1) \in L!Link \cup {L!Root}
      BY <1>3, <2>1
    <2> QED
      BY <1>6, <1>8, <2>2 DEF Pointers
  <1>10. ASSUME NEW n \in 0..(len - 1)
         PROVE  e.next[b(n)] = b(n + 1) /\ e.prev[b(n + 1)] = b(n)
    <2>1. CASE n < i - 1
      <3>1. b(n) = a(n) /\ b(n + 1) = a(n + 1)
        BY <1>1, <1>5, <2>1
      <3>2. a(n) # a(i - 1) /\ a(n + 1) # a(i + 1)
        BY <1>1, <1>3, <2>1
      <3>3. r.next[a(n)] = a(n + 1) /\ r.prev[a(n + 1)] = a(n)
        BY <1>1, <1>6
      <3>4. a(n) \in L!Link \cup {L!Root} /\ a(n + 1) \in L!Link \cup {L!Root}
        BY <1>1, <1>3
      <3> QED
        BY <1>9, <3>1, <3>2, <3>3, <3>4
    <2>2. CASE n = i - 1
      <3>1. b(n) = a(i - 1) /\ b(n + 1) = a(i + 1)
        BY <1>1, <1>5, <2>2
      <3>2. a(i - 1) \in L!Link \cup {L!Root} /\ a(i + 1) \in L!Link \cup {L!Root}
        BY <1>1, <1>3
      <3> QED
        BY <1>9, <3>1, <3>2
    <2>3. CASE n > i - 1
      <3>1. b(n) = a(n + 1) /\ b(n + 1) = a(n + 1 + 1)
        BY <1>1, <1>5, <2>3
      <3>2. a(n + 1) # a(i - 1) /\ a(n + 1 + 1) # a(i + 1)
        BY <1>1, <1>3, <2>3
      <3>3. r.next[a(n + 1)] = a(n + 1 + 1) /\ r.prev[a(n + 1 + 1)] = a(n + 1)
        <4>1. n + 1 \in 0..len
          BY <1>1
        <4> QED
          BY <1>6, <4>1
      <3>4. a(n + 1) \in L!Link \cup {L!Root} /\ a(n + 1 + 1) \in L!Link \cup {L!Root}
        BY <1>1, <1>3
      <3> QED
        BY <1>9, <3>1, <3>2, <3>3, <3>4
    <2> QED
      BY <1>1, <2>1, <2>2, <2>3
  <1> QED
    BY <1>4, <1>9, <1>10 DEF IsRing, e, b, rest, len

LEMMA AppendedRing ==
  ASSUME NEW r, NEW ls \in Seq(L!Link), Distinct(ls), IsRing(r, ls), NEW link \in L!Link,
         \A n \in 1..Len(ls) : ls[n] # link, SizeIsPositive
  PROVE  IsRing(L!Appended(r, link), Append(ls, link))
  <1> DEFINE len == Len(ls)
             a(n) == At(ls, n)
             more == Append(ls, link)
             b(n) == At(more, n)
             e == L!Appended(r, link)
  <1>1. len \in Nat /\ L!Root \notin L!Link
    BY DEF L!Root, L!Link, SizeIsPositive
  <1>2. /\ \A n \in 1..len : a(n) = ls[n] /\ ls[n] \in L!Link
        /\ a(0) = L!Root /\ a(len + 1) = L!Root
    BY <1>1 DEF At
  <1>3. /\ \A n, m \in 0..len : a(n) = a(m) => n = m
        /\ \A n, m \in 1..(len + 1) : a(n) = a(m) => n = m
        /\ \A n \in 0..(len + 1) : a(n) \in L!Link \cup {L!Root} /\ a(n) # link
    BY <1>1, <1>2 DEF Distinct
  <1>4. /\ more \in Seq(L!Link) /\ Len(more) = len + 1 /\ more[len + 1] = link
        /\ \A n \in 1..len : more[n] = ls[n]
    BY <1>1
  <1>5. /\ \A n \in 0..len : b(n) = a(n)
        /\ b(len + 1) = link /\ b(len + 1 + 1) = L!Root
    <2> HIDE DEF more
    <2>1. \A n \in 1..len : b(n) = a(n)
      BY <1>1, <1>4 DEF At
    <2>2. b(0) = L!Root /\ b(len + 1) = link /\ b(len + 1 + 1) = L!Root
      BY <1>1, <1>4 DEF At
    <2> QED
      BY <1>1, <1>2, <2>1, <2>2
  <1>6. /\ r.next \in Pointers /\ r.prev \in Pointers
        /\ \A n \in 0..len : r.next[a(n)] = a(n + 1) /\ r.prev[a(n + 1)] = a(n)
    BY DEF IsRing
  <1>7. r.prev[L!Root] = a(len)
    <2>1. len \in 0..len
      BY <1>1
    <2> QED
      BY <1>2, <1>6, <2>1
  <1>8. /\ e.next = [r.next EXCEPT ![a(len)] = link, ![link] = L!Root]
        /\ e.prev = [r.prev EXCEPT ![L!Root] = link, ![link] = a(len)]
    BY <1>7 DEF L!Appended
  <1> HIDE DEF a, b, e, more, len
  <1>9. /\ e.next \in Pointers /\ e.prev \in Pointers
        /\ \A p \in L!Link \cup {L!Root} :
             /\ e.next[p] = IF p = link THEN L!Root ELSE IF p = a(len) THEN link ELSE r.next[p]
             /\ e.prev[p] = IF p = link THEN a(len) ELSE IF p = L!Root THEN link ELSE r.prev[p]
    <2>1. a(len) \in L!Link \cup {L!Root}
      BY <1>1, <1>3
    <2> QED
      BY <1>6, <1>8, <2>1 DEF Pointers
  <1>10. ASSUME NEW n \in 0..(len + 1)
         PROVE  e.next[b(n)] = b(n + 1) /\ e.prev[b(n + 1)] = b(n)
    <2>1. CASE n < len
      <3>1. b(n) = a(n) /\ b(n + 1) = a(n + 1)
        BY <1>1, <1>5, <2>1
      <3>2. a(n) # a(len) /\ a(n + 1) # L!Root /\ a(n) # link /\ a(n + 1) # link
        BY <1>1, <1>2, <1>3, <2>1
      <3>3. r.next[a(n)] = a(n + 1) /\ r.prev[a(n + 1)] = a(n)
        BY <1>1, <1>6, <2>1
      <3>4. a(n) \in L!Link \cup {L!Root} /\ a(n + 1) \in L!Link \cup {L!Root}
        BY <1>1, <1>3, <2>1
      <3> QED
        BY <1>9, <3>1, <3>2, <3>3, <3>4
    <2>2. CASE n = len
      <3>1. b(n) = a(len) /\ b(n + 1) = link /\ a(len) # link /\ a(len) \in L!Link \cup {L!Root}
        BY <1>1, <1>3, <1>5, <2>2
      <3> QED
        BY <1>9, <3>1
    <2>3. CASE n = len + 1
      <3>1. b(n) = link /\ b(n + 1) = L!Root /\ link # L!Root
        BY <1>1, <1>5, <2>3
      <3> QED
        BY <1>9, <3>1
    <2> QED
      BY <1>1, <2>1, <2>2, <2>3
  <1> QED
    BY <1>4, <1>9, <1>10 DEF IsRing, e, b, more, len

-----------------------------------------------------------------------------
(* The links of the keys of s, where c[k] is the link of k. *)
Links(c, s) == [n \in 1..Len(s) |-> c[s[n]]]

Has(s, k) == \E n \in 1..Len(s) : s[n] = k

LEMMA RemovedDistinct ==
  ASSUME NEW S, NEW s \in Seq(S), Distinct(s), NEW i \in 1..Len(s)
  PROVE  /\ Distinct(L!RemoveAt(s, i)) /\ ~Has(L!RemoveAt(s, i), s[i])
         /\ \A k : Has(s, k) <=> (Has(L!RemoveAt(s, i), k) \/ k = s[i])
  <1> DEFINE r == L!RemoveAt(s, i)
  <1>1. Len(s) \in Nat /\ i \in Nat /\ i >= 1 /\ i <= Len(s)
    OBVIOUS
  <1>2. /\ r \in Seq(S) /\ Len(r) = Len(s) - 1
        /\ \A n \in 1..(Len(s) - 1) : r[n] = IF n < i THEN s[n] ELSE s[n + 1]
    BY RemovedAt
  <1> HIDE DEF r
  <1>3. Distinct(r)
    <2> SUFFICES ASSUME NEW n \in 1..(Len(s) - 1), NEW m \in 1..(Len(s) - 1), r[n] = r[m]
                 PROVE  n = m
      BY <1>2 DEF Distinct
    <2>1. /\ n \in 1..Len(s) /\ n + 1 \in 1..Len(s)
          /\ m \in 1..Len(s) /\ m + 1 \in 1..Len(s)
      BY <1>1
    <2> QED
      BY <1>1, <1>2, <2>1 DEF Distinct
  <1>4. ASSUME NEW n \in 1..(Len(s) - 1) PROVE r[n] # s[i]
    <2>1. n \in 1..Len(s) /\ n + 1 \in 1..Len(s)
      BY <1>1
    <2> QED
      BY <1>1, <1>2, <2>1 DEF Distinct
  <1>5. ASSUME NEW k, NEW n \in 1..(Len(s) - 1), r[n] = k PROVE Has(s, k)
    <2>1. n \in 1..Len(s) /\ n + 1 \in 1..Len(s)
      BY <1>1
    <2> QED
      BY <1>2, <1>5, <2>1 DEF Has
  <1>6. ASSUME NEW k, NEW n \in 1..Len(s), s[n] = k, k # s[i] PROVE Has(r, k)
    <2>1. CASE n < i
      <3>1. n \in 1..(Len(s) - 1)
        BY <1>1, <2>1
      <3> QED
        BY <1>2, <1>6, <2>1, <3>1 DEF Has
    <2>2. CASE n > i
      <3>1. n - 1 \in 1..(Len(s) - 1) /\ ~(n - 1 < i) /\ (n - 1) + 1 = n
        BY <1>1, <2>2
      <3> QED
        BY <1>2, <1>6, <3>1 DEF Has
    <2> QED
      BY <1>1, <1>6, <2>1, <2>2
  <1> QED
    BY <1>2, <1>3, <1>4, <1>5, <1>6 DEF Has, r

LEMMA AppendedDistinct ==
  ASSUME NEW S, NEW s \in Seq(S), Distinct(s), NEW x \in S, ~Has(s, x)
  PROVE  /\ Append(s, x) \in Seq(S) /\ Distinct(Append(s, x))
         /\ \A k : Has(Append(s, x), k) <=> (Has(s, k) \/ k = x)
  <1> DEFINE r == Append(s, x)
  <1>1. Len(s) \in Nat
    OBVIOUS
  <1>2. /\ r \in Seq(S) /\ Len(r) = Len(s) + 1 /\ r[Len(s) + 1] = x
        /\ \A n \in 1..Len(s) : r[n] = s[n]
    OBVIOUS
  <1> HIDE DEF r
  <1>3. \A n \in 1..(Len(s) + 1) : n \in 1..Len(s) \/ n = Len(s) + 1
    BY <1>1
  <1>4. Distinct(r)
    BY <1>2, <1>3 DEF Distinct, Has
  <1>5. ASSUME NEW k PROVE Has(r, k) <=> (Has(s, k) \/ k = x)
    BY <1>1, <1>2, <1>3 DEF Has
  <1> QED
    BY <1>2, <1>4, <1>5 DEF r

LEMMA LinksRemoved ==
  ASSUME NEW S, NEW s \in Seq(S), NEW c, NEW i \in 1..Len(s),
         Links(c, s) \in Seq(L!Link)
  PROVE  Links(c, L!RemoveAt(s, i)) = L!RemoveAt(Links(c, s), i)
  <1> DEFINE ls == Links(c, s)
             r == L!RemoveAt(s, i)
             rl == L!RemoveAt(ls, i)
  <1>1. Len(s) \in Nat /\ i \in Nat /\ i >= 1 /\ i <= Len(s)
    OBVIOUS
  <1>2. Len(ls) = Len(s) /\ \A n \in 1..Len(s) : ls[n] = c[s[n]]
    BY DEF Links
  <1>3. /\ r \in Seq(S) /\ Len(r) = Len(s) - 1
        /\ \A n \in 1..(Len(s) - 1) : r[n] = IF n < i THEN s[n] ELSE s[n + 1]
    BY RemovedAt
  <1> HIDE DEF ls
  <1>4. /\ rl \in Seq(L!Link) /\ Len(rl) = Len(s) - 1
        /\ \A n \in 1..(Len(s) - 1) : rl[n] = IF n < i THEN ls[n] ELSE ls[n + 1]
    <2>1. ls \in Seq(L!Link) /\ i \in 1..Len(ls)
      BY <1>2 DEF ls
    <2> QED
      BY <1>2, <2>1, RemovedAt
  <1> HIDE DEF r, rl
  <1>5. \A n \in 1..(Len(s) - 1) : rl[n] = c[r[n]]
    <2> SUFFICES ASSUME NEW n \in 1..(Len(s) - 1) PROVE rl[n] = c[r[n]]
      OBVIOUS
    <2>1. n \in 1..Len(s) /\ n + 1 \in 1..Len(s)
      BY <1>1
    <2>2. CASE n < i
      BY <1>2, <1>3, <1>4, <2>1, <2>2
    <2>3. CASE ~(n < i)
      BY <1>2, <1>3, <1>4, <2>1, <2>3
    <2> QED
      BY <2>2, <2>3
  <1>6. rl = [n \in 1..(Len(s) - 1) |-> c[r[n]]]
    <2>1. Len(rl) = Len(s) - 1 /\ rl = [n \in 1..Len(rl) |-> rl[n]]
      BY <1>4
    <2> QED
      BY <1>5, <2>1
  <1> QED
    BY <1>3, <1>6 DEF Links, r, rl, ls

-----------------------------------------------------------------------------
(* The links of the keys of s are the ring r, and know their keys.         *)
Held(c, ky, r, s) ==
  /\ s \in Seq(CachedKey) /\ Distinct(s)
  /\ ky = [l \in L!Link |-> ky[l]]
  /\ Links(c, s) \in Seq(L!Link)
  /\ \A n \in 1..Len(s) : ky[c[s[n]]] = s[n]
  /\ IsRing(r, Links(c, s))

Known(c, s) == DOMAIN c = {s[n] : n \in 1..Len(s)}

LruInv == /\ calls \in Seq(CachedKey)
          /\ Held(cache, keyOf, L!Ring, recent)
          /\ Known(cache, recent)

LEMMA KnownKeys ==
  ASSUME NEW c, NEW s
  PROVE  Known(c, s) <=> \A j : j \in DOMAIN c <=> Has(s, j)
  BY DEF Known, Has

LEMMA HeldLinks ==
  ASSUME NEW c, NEW ky, NEW r, NEW s, Held(c, ky, r, s)
  PROVE  /\ Len(s) \in Nat /\ s \in Seq(CachedKey) /\ Distinct(s)
         /\ Links(c, s) \in Seq(L!Link) /\ Len(Links(c, s)) = Len(s)
         /\ \A n \in 1..Len(s) : Links(c, s)[n] = c[s[n]] /\ c[s[n]] \in L!Link
         /\ Distinct(Links(c, s)) /\ IsRing(r, Links(c, s))
  <1> DEFINE ls == Links(c, s)
  <1>1. Len(s) \in Nat /\ s \in Seq(CachedKey) /\ ls \in Seq(L!Link)
    BY DEF Held
  <1>2. Len(ls) = Len(s) /\ \A n \in 1..Len(s) : ls[n] = c[s[n]]
    BY <1>1 DEF Links
  <1> HIDE DEF ls
  <1>3. \A n \in 1..Len(s) : ls[n] \in L!Link
    BY <1>1, <1>2
  <1>4. Distinct(ls)
    BY <1>2 DEF Held, Distinct
  <1> QED
    BY <1>1, <1>2, <1>3, <1>4 DEF Held, ls

LEMMA Released ==
  ASSUME NEW c, NEW ky, NEW r, NEW s, Held(c, ky, r, s), NEW i \in 1..Len(s), SizeIsPositive
  PROVE  /\ Held(c, ky, L!Extracted(r, c[s[i]]), L!RemoveAt(s, i))
         /\ ~Has(Links(c, L!RemoveAt(s, i)), c[s[i]])
  <1> DEFINE ls == Links(c, s)
             rest == L!RemoveAt(s, i)
  <1>1. /\ Len(s) \in Nat /\ s \in Seq(CachedKey) /\ Distinct(s)
        /\ ls \in Seq(L!Link) /\ Len(ls) = Len(s) /\ Distinct(ls) /\ IsRing(r, ls)
        /\ ls[i] = c[s[i]] /\ i \in 1..Len(ls)
    BY HeldLinks
  <1>2. Links(c, rest) = L!RemoveAt(ls, i)
    BY <1>1, LinksRemoved
  <1>3. rest \in Seq(CachedKey) /\ Distinct(rest) /\ \A k : Has(rest, k) => Has(s, k)
    BY <1>1, RemovedAt, RemovedDistinct
  <1> HIDE DEF ls, rest
  <1>4. L!RemoveAt(ls, i) \in Seq(L!Link) /\ ~Has(L!RemoveAt(ls, i), ls[i])
    BY <1>1, RemovedAt, RemovedDistinct
  <1>5. IsRing(L!Extracted(r, ls[i]), L!RemoveAt(ls, i))
    BY <1>1, ExtractedRing
  <1>6. \A n \in 1..Len(rest) : ky[c[rest[n]]] = rest[n]
    <2> SUFFICES ASSUME NEW n \in 1..Len(rest) PROVE ky[c[rest[n]]] = rest[n]
      OBVIOUS
    <2>1. PICK m \in 1..Len(s) : s[m] = rest[n]
      BY <1>3 DEF Has
    <2> QED
      BY <2>1 DEF Held
  <1> QED
    BY <1>1, <1>2, <1>3, <1>4, <1>5, <1>6 DEF Held, rest

LEMMA Joined ==
  ASSUME NEW c, NEW ky, NEW r, NEW s, Held(c, ky, r, s),
         NEW link \in L!Link, ~Has(Links(c, s), link), NEW k \in CachedKey, ~Has(s, k),
         NEW d, d[k] = link, \A n \in 1..Len(s) : d[s[n]] = c[s[n]],
         SizeIsPositive
  PROVE  Held(d, [ky EXCEPT ![link] = k], L!Appended(r, link), Append(s, k))
  <1> DEFINE ls == Links(c, s)
             more == Append(s, k)
  <1>1. /\ Len(s) \in Nat /\ s \in Seq(CachedKey) /\ Distinct(s)
        /\ ls \in Seq(L!Link) /\ Len(ls) = Len(s) /\ Distinct(ls) /\ IsRing(r, ls)
        /\ \A n \in 1..Len(s) : ls[n] = c[s[n]] /\ c[s[n]] \in L!Link
    BY HeldLinks
  <1>3. more \in Seq(CachedKey) /\ Distinct(more)
    BY <1>1, AppendedDistinct
  <1>4. Len(more) = Len(s) + 1 /\ more[Len(s) + 1] = k /\ \A n \in 1..Len(s) : more[n] = s[n]
    BY <1>1
  <1> HIDE DEF ls, more
  <1>5. Append(ls, link) \in Seq(L!Link)
    BY <1>1
  <1>6. \A n \in 1..Len(ls) : ls[n] # link
    BY DEF Has, ls
  <1>7. IsRing(L!Appended(r, link), Append(ls, link))
    BY <1>1, <1>6, AppendedRing
  <1>2. Links(d, more) = Append(ls, link)
    <2> DEFINE rl == Append(ls, link)
    <2>1. /\ rl \in Seq(L!Link) /\ Len(rl) = Len(s) + 1 /\ rl[Len(s) + 1] = link
          /\ \A n \in 1..Len(s) : rl[n] = ls[n]
      BY <1>1
    <2> HIDE DEF rl
    <2>2. \A n \in 1..(Len(s) + 1) : rl[n] = d[more[n]]
      <3>1. \A n \in 1..(Len(s) + 1) : n \in 1..Len(s) \/ n = Len(s) + 1
        BY <1>1
      <3> QED
        BY <1>1, <1>4, <2>1, <3>1
    <2>3. rl = [n \in 1..(Len(s) + 1) |-> d[more[n]]]
      BY <2>1, <2>2
    <2> QED
      BY <1>4, <2>3 DEF Links, rl
  <1>8. \A n \in 1..Len(more) : [ky EXCEPT ![link] = k][d[more[n]]] = more[n]
    <2> SUFFICES ASSUME NEW n \in 1..Len(more)
                 PROVE  [ky EXCEPT ![link] = k][d[more[n]]] = more[n]
      OBVIOUS
    <2>0. ky = [l \in L!Link |-> ky[l]]
      BY DEF Held
    <2>1. CASE n = Len(s) + 1
      BY <1>4, <2>0, <2>1
    <2>2. CASE n \in 1..Len(s)
      <3>1. more[n] = s[n] /\ d[more[n]] = c[s[n]] /\ c[s[n]] # link /\ c[s[n]] \in L!Link
        BY <1>1, <1>4, <1>6, <2>2
      <3>2. ky[c[s[n]]] = s[n]
        BY <2>2 DEF Held
      <3> QED
        BY <2>0, <3>1, <3>2
    <2> QED
      BY <1>1, <1>4, <2>1, <2>2
  <1>9. [ky EXCEPT ![link] = k] = [l \in L!Link |-> [ky EXCEPT ![link] = k][l]]
    BY DEF Held
  <1> QED
    BY <1>2, <1>3, <1>5, <1>7, <1>8, <1>9 DEF Held, more

(* There are no more keys than links. *)
LEMMA HeldSize ==
  ASSUME NEW c, NEW ky, NEW r, NEW s, Held(c, ky, r, s), SizeIsPositive
  PROVE  Len(s) <= MaxSize
  <1> DEFINE ls == Links(c, s)
  <1>1. /\ Len(s) \in Nat /\ ls \in Seq(L!Link) /\ Len(ls) = Len(s) /\ Distinct(ls)
    BY HeldLinks
  <1>2. ls \in Injection(1..Len(s), L!Link)
    <2> HIDE DEF ls
    <2>1. ls \in [1..Len(s) -> L!Link]
      BY <1>1
    <2> QED
      BY <1>1, <2>1 DEF Injection, IsInjective, Distinct
  <1>3. /\ IsFiniteSet(L!Link) /\ Cardinality(L!Link) = MaxSize
        /\ Cardinality(1..Len(s)) = Len(s)
    <2>1. MaxSize \in Int /\ Len(s) \in Int /\ 1 \in Int
      BY <1>1 DEF SizeIsPositive
    <2>2. /\ IsFiniteSet(1..MaxSize)
          /\ Cardinality(1..MaxSize) = IF 1 > MaxSize THEN 0 ELSE MaxSize - 1 + 1
          /\ Cardinality(1..Len(s)) = IF 1 > Len(s) THEN 0 ELSE Len(s) - 1 + 1
      BY <2>1, FS_Interval
    <2> QED
      BY <1>1, <2>2 DEF L!Link, SizeIsPositive
  <1>4. Cardinality(1..Len(s)) <= Cardinality(L!Link)
    BY <1>2, <1>3, FS_Injection
  <1> QED
    BY <1>3, <1>4

LEMMA LinksAreFree ==
  ASSUME LruInv, SizeIsPositive, L!HasRoom
  PROVE  L!FreshLink \in L!Link /\ ~Has(Links(cache, recent), L!FreshLink)
  <1>0. /\ Held(cache, keyOf, L!Ring, recent) /\ Known(cache, recent)
    BY DEF LruInv
  <1>1. /\ Len(recent) \in Nat /\ Len(Links(cache, recent)) = Len(recent)
        /\ \A n \in 1..Len(recent) : /\ Links(cache, recent)[n] = cache[recent[n]]
                                     /\ cache[recent[n]] \in L!Link
        /\ Distinct(Links(cache, recent)) /\ IsRing(L!Ring, Links(cache, recent))
    BY <1>0, HeldLinks
  <1>2. \E l \in L!Link : \A k \in DOMAIN cache : cache[k] # l
    <2>1. CASE after[L!Root] = L!Root
      <3>1. At(Links(cache, recent), 1) = L!Root
        BY <1>1, <2>1 DEF IsRing, L!Ring, At
      <3>2. Len(recent) = 0
        BY <1>1, <3>1 DEF At, L!Link, L!Root, SizeIsPositive
      <3>3. DOMAIN cache = {}
        BY <1>0, <3>2 DEF Known
      <3>4. 1 \in L!Link
        BY DEF L!Link, SizeIsPositive
      <3> QED
        BY <3>3, <3>4
    <2>2. CASE L!Cardinality(DOMAIN cache) < MaxSize
      <3> SUFFICES ASSUME \A l \in L!Link : \E k \in DOMAIN cache : cache[k] = l
                   PROVE  FALSE
        OBVIOUS
      <3> DEFINE S == DOMAIN cache
                 f == [k \in S |-> cache[k]]
      <3>1. f \in Injection(S, L!Link)
        <4>1. \A k \in S : \E n \in 1..Len(recent) : k = recent[n]
          BY <1>0 DEF Known
        <4>2. f \in [S -> L!Link]
          BY <1>1, <4>1
        <4>3. \A n, m \in 1..Len(recent) : cache[recent[n]] = cache[recent[m]] => n = m
          BY <1>1 DEF Distinct
        <4>4. \A a, b \in S : f[a] = f[b] => a = b
          BY <4>1, <4>3
        <4> QED
          BY <4>2, <4>4 DEF Injection, IsInjective
      <3>2. f \in Surjection(S, L!Link)
        BY <3>1 DEF Surjection, Injection
      <3>3. IsFiniteSet(L!Link) /\ Cardinality(L!Link) = MaxSize
        BY FS_Interval DEF L!Link, SizeIsPositive
      <3> HIDE DEF f
      <3>4. Cardinality(S) = Cardinality(L!Link)
        BY <3>1, <3>2, <3>3, FS_Injection
      <3> QED
        BY <2>2, <3>3, <3>4, SameCardinality DEF SizeIsPositive
    <2> QED
      BY <2>1, <2>2 DEF L!HasRoom
  <1>3. L!FreshLink \in L!Link /\ \A k \in DOMAIN cache : cache[k] # L!FreshLink
    BY <1>2 DEF L!FreshLink
  <1>4. \A n \in 1..Len(recent) : recent[n] \in DOMAIN cache
    BY <1>0 DEF Known
  <1> QED
    BY <1>1, <1>3, <1>4 DEF Has

-----------------------------------------------------------------------------
LEMMA TailRemoved ==
  ASSUME NEW S, NEW s \in Seq(S), Len(s) > 0
  PROVE  Tail(s) = L!RemoveAt(s, 1)
  <1>1. 1 \in 1..Len(s) /\ Len(s) \in Nat
    OBVIOUS
  <1>2. /\ L!RemoveAt(s, 1) \in Seq(S) /\ Len(L!RemoveAt(s, 1)) = Len(s) - 1
        /\ \A n \in 1..(Len(s) - 1) : L!RemoveAt(s, 1)[n] = IF n < 1 THEN s[n] ELSE s[n + 1]
    BY <1>1, RemovedAt
  <1>3. /\ Tail(s) \in Seq(S) /\ Len(Tail(s)) = Len(s) - 1
        /\ \A n \in 1..(Len(s) - 1) : Tail(s)[n] = s[n + 1]
    BY <1>1
  <1> DEFINE t == Tail(s)
             r == L!RemoveAt(s, 1)
  <1> HIDE DEF t, r
  <1>4. \A n \in 1..Len(t) : t[n] = r[n]
    BY <1>1, <1>2, <1>3 DEF t, r
  <1>5. t = r
    BY <1>2, <1>3, <1>4, SeqEqual DEF t, r
  <1> QED
    BY <1>5 DEF t, r

(* What Becomes(r) makes of the ring. *)
LEMMA RingBecomes ==
  ASSUME NEW r, L!Becomes(r), NEW c, NEW ky, NEW s, Held(c, ky, r, s)
  PROVE  Held(c, ky, [next |-> after', prev |-> before'], s)
  BY DEF L!Becomes, Held, IsRing

LEMMA LruInit ==
  ASSUME SizeIsPositive, L!Init
  PROVE  LruInv
  <1>1. calls \in Seq(CachedKey) /\ recent \in Seq(CachedKey) /\ Len(recent) = 0 /\ Distinct(recent)
    BY DEF L!Init, Distinct
  <1>2. Links(cache, recent) = <<>> /\ Links(cache, recent) \in Seq(L!Link)
    BY <1>1 DEF Links
  <1>3. IsRing(L!Ring, <<>>)
    BY DEF L!Init, IsRing, L!Ring, At, L!Alone, Pointers
  <1>4. keyOf = [l \in L!Link |-> keyOf[l]]
    BY DEF L!Init
  <1>5. Known(cache, recent)
    <2>1. DOMAIN cache = {}
      BY DEF L!Init
    <2> QED
      BY <1>1, <2>1 DEF Known
  <1> QED
    BY <1>1, <1>2, <1>3, <1>4, <1>5 DEF LruInv, Held

LEMMA HitStep ==
  ASSUME SizeIsPositive, LruInv, L!Hit
  PROVE  LruInv'
  <1>1. PICK k \in CachedKey :
          /\ L!IsCached(k)
          /\ L!Becomes(L!Appended(L!Extracted(L!Ring, cache[k]), cache[k]))
          /\ recent' = Append(L!RemoveAt(recent, CHOOSE n \in DOMAIN recent : recent[n] = k), k)
          /\ UNCHANGED <<cache, keyOf, calls>>
    BY DEF L!Hit
  <1> DEFINE i == CHOOSE n \in DOMAIN recent : recent[n] = k
             rest == L!RemoveAt(recent, i)
             link == cache[k]
             e == L!Extracted(L!Ring, link)
  <1>2. /\ Held(cache, keyOf, L!Ring, recent) /\ Known(cache, recent)
        /\ recent \in Seq(CachedKey) /\ Distinct(recent)
        /\ keyOf = [l \in L!Link |-> keyOf[l]]
        /\ \A n \in 1..Len(recent) : cache[recent[n]] \in L!Link /\ keyOf[cache[recent[n]]] = recent[n]
    BY HeldLinks DEF LruInv, Held
  <1>3. i \in 1..Len(recent) /\ recent[i] = k
    <2>1. \E n \in DOMAIN recent : recent[n] = k
      BY <1>1, <1>2 DEF Known, L!IsCached
    <2>2. DOMAIN recent = 1..Len(recent)
      BY <1>2
    <2> QED
      BY <2>1, <2>2
  <1>4. /\ recent' = Append(rest, k) /\ L!Becomes(L!Appended(e, link))
        /\ cache' = cache /\ keyOf' = keyOf /\ calls' = calls
    BY <1>1
  <1> HIDE DEF i, rest
  <1>5. /\ Held(cache, keyOf, L!Extracted(L!Ring, cache[recent[i]]), L!RemoveAt(recent, i))
        /\ ~Has(Links(cache, L!RemoveAt(recent, i)), cache[recent[i]])
    BY <1>2, <1>3, Released
  <1>6. Held(cache, keyOf, e, rest) /\ ~Has(Links(cache, rest), link)
    BY <1>3, <1>5 DEF rest
  <1>7. /\ rest \in Seq(CachedKey) /\ Distinct(rest) /\ ~Has(rest, k)
        /\ \A j : Has(recent, j) <=> (Has(rest, j) \/ j = k)
    BY <1>2, <1>3, RemovedAt, RemovedDistinct DEF rest
  <1>8. link \in L!Link /\ keyOf[link] = k
    BY <1>2, <1>3
  <1> HIDE DEF link, e
  <1>9. Held(cache, [keyOf EXCEPT ![link] = k], L!Appended(e, link), Append(rest, k))
    BY <1>6, <1>7, <1>8, Joined DEF link
  <1>10. [keyOf EXCEPT ![link] = k] = keyOf
    BY <1>2, <1>8
  <1>11. Held(cache, keyOf, [next |-> after', prev |-> before'], Append(rest, k))
    BY <1>4, <1>9, <1>10, RingBecomes
  <1>12. Known(cache, Append(rest, k))
    <2>1. \A j : Has(Append(rest, k), j) <=> (Has(rest, j) \/ j = k)
      BY <1>7, AppendedDistinct
    <2> QED
      BY <1>2, <1>7, <2>1, KnownKeys
  <1> QED
    BY <1>4, <1>11, <1>12 DEF LruInv, L!Ring

LEMMA ReturnStep ==
  ASSUME SizeIsPositive, LruInv, L!Return
  PROVE  LruInv'
  <1>1. PICK c \in DOMAIN calls :
          /\ calls' = L!RemoveAt(calls, c)
          /\ \/ L!AlreadyCached(calls[c]) /\ UNCHANGED <<cache, keyOf, after, before, recent>>
             \/ /\ ~L!AlreadyCached(calls[c]) /\ L!HasRoom
                /\ L!Cached(calls[c], L!FreshLink)
                /\ keyOf' = [keyOf EXCEPT ![L!FreshLink] = calls[c]]
                /\ L!Becomes(L!Appended(L!Ring, L!FreshLink))
                /\ recent' = Append(recent, calls[c])
             \/ /\ ~L!AlreadyCached(calls[c]) /\ ~L!HasRoom
                /\ cache' = [j \in (DOMAIN cache \ {keyOf[after[L!Root]]}) \cup {calls[c]} |->
                               IF j = calls[c] THEN after[L!Root] ELSE cache[j]]
                /\ keyOf' = [keyOf EXCEPT ![after[L!Root]] = calls[c]]
                /\ L!Becomes(L!Appended(L!Extracted(L!Ring, after[L!Root]), after[L!Root]))
                /\ recent' = Append(Tail(recent), calls[c])
    BY DEF L!Return
  <1> DEFINE k == calls[c]
  <1>2. calls \in Seq(CachedKey) /\ c \in 1..Len(calls) /\ k \in CachedKey
    BY DEF LruInv
  <1>3. calls' \in Seq(CachedKey)
    BY <1>1, <1>2, RemovedAt
  <1>4. /\ Held(cache, keyOf, L!Ring, recent) /\ Known(cache, recent)
        /\ recent \in Seq(CachedKey) /\ Distinct(recent) /\ Len(recent) \in Nat
        /\ \A n \in 1..Len(recent) : cache[recent[n]] \in L!Link /\ keyOf[cache[recent[n]]] = recent[n]
    BY HeldLinks DEF LruInv, Held
  <1> HIDE DEF k
  <1>5. CASE L!AlreadyCached(k) /\ UNCHANGED <<cache, keyOf, after, before, recent>>
    BY <1>3, <1>4, <1>5 DEF LruInv, L!Ring
  <1>6. CASE /\ ~L!AlreadyCached(k) /\ L!HasRoom
             /\ L!Cached(k, L!FreshLink)
             /\ keyOf' = [keyOf EXCEPT ![L!FreshLink] = k]
             /\ L!Becomes(L!Appended(L!Ring, L!FreshLink))
             /\ recent' = Append(recent, k)
    <2> DEFINE link == L!FreshLink
               d == [j \in DOMAIN cache \cup {k} |-> IF j = k THEN link ELSE cache[j]]
    <2>1. link \in L!Link /\ ~Has(Links(cache, recent), link)
      BY <1>6, LinksAreFree
    <2>2. ~Has(recent, k)
      BY <1>4, <1>6 DEF L!AlreadyCached, L!IsCached, Known, Has
    <2>3. cache' = d /\ d[k] = link
      BY <1>6 DEF L!Cached
    <2>4. \A n \in 1..Len(recent) : d[recent[n]] = cache[recent[n]]
      BY <1>4, <2>2 DEF Known, Has
    <2>5. DOMAIN d = DOMAIN cache \cup {k}
      OBVIOUS
    <2> HIDE DEF link, d
    <2>6. Held(d, [keyOf EXCEPT ![link] = k], L!Appended(L!Ring, link), Append(recent, k))
      BY <1>2, <1>4, <2>1, <2>2, <2>3, <2>4, Joined
    <2>7. Held(cache', keyOf', [next |-> after', prev |-> before'], recent')
      BY <1>6, <2>3, <2>6, RingBecomes DEF link
    <2>8. Known(d, Append(recent, k))
      <3>1. \A j : Has(Append(recent, k), j) <=> (Has(recent, j) \/ j = k)
        BY <1>2, <1>4, <2>2, AppendedDistinct
      <3> QED
        BY <1>4, <2>5, <3>1 DEF Known, Has
    <2> QED
      BY <1>3, <1>6, <2>3, <2>7, <2>8 DEF LruInv, L!Ring
  <1>7. CASE /\ ~L!AlreadyCached(k) /\ ~L!HasRoom
             /\ cache' = [j \in (DOMAIN cache \ {keyOf[after[L!Root]]}) \cup {k} |->
                            IF j = k THEN after[L!Root] ELSE cache[j]]
             /\ keyOf' = [keyOf EXCEPT ![after[L!Root]] = k]
             /\ L!Becomes(L!Appended(L!Extracted(L!Ring, after[L!Root]), after[L!Root]))
             /\ recent' = Append(Tail(recent), k)
    <2> DEFINE link == after[L!Root]
               d == [j \in (DOMAIN cache \ {keyOf[link]}) \cup {k} |->
                       IF j = k THEN link ELSE cache[j]]
               rest == L!RemoveAt(recent, 1)
               e == L!Extracted(L!Ring, link)
    <2>1. 1 \in 1..Len(recent) /\ link = cache[recent[1]]
      <3>1. /\ Len(Links(cache, recent)) = Len(recent) /\ IsRing(L!Ring, Links(cache, recent))
            /\ \A n \in 1..Len(recent) : Links(cache, recent)[n] = cache[recent[n]]
        BY <1>4, HeldLinks
      <3>2. link = At(Links(cache, recent), 1)
        BY <1>4, <3>1 DEF IsRing, L!Ring, At
      <3>3. link # L!Root
        BY <1>7 DEF L!HasRoom
      <3> QED
        BY <1>4, <3>1, <3>2, <3>3 DEF At
    <2>2. link \in L!Link /\ keyOf[link] = recent[1]
      BY <1>4, <2>1
    <2>3. Held(cache, keyOf, e, rest) /\ ~Has(Links(cache, rest), link)
      <3>1. /\ Held(cache, keyOf, L!Extracted(L!Ring, cache[recent[1]]), L!RemoveAt(recent, 1))
            /\ ~Has(Links(cache, L!RemoveAt(recent, 1)), cache[recent[1]])
        BY <1>4, <2>1, Released
      <3> QED
        BY <2>1, <3>1
    <2>4. /\ rest \in Seq(CachedKey) /\ Distinct(rest) /\ ~Has(rest, recent[1])
          /\ \A j : Has(recent, j) <=> (Has(rest, j) \/ j = recent[1])
      BY <1>4, <2>1, RemovedAt, RemovedDistinct
    <2>5. recent' = Append(rest, k)
      BY <1>4, <1>7, <2>1, TailRemoved
    <2>6. cache' = d /\ d[k] = link /\ DOMAIN d = (DOMAIN cache \ {recent[1]}) \cup {k}
      BY <1>7, <2>2
    <2>7. ~Has(recent, k)
      BY <1>4, <1>7 DEF L!AlreadyCached, L!IsCached, Known, Has
    <2>8. \A n \in 1..Len(rest) : d[rest[n]] = cache[rest[n]]
      <3> SUFFICES ASSUME NEW n \in 1..Len(rest) PROVE d[rest[n]] = cache[rest[n]]
        OBVIOUS
      <3> DEFINE j == rest[n]
      <3>1. Has(rest, j)
        BY DEF Has
      <3> HIDE DEF j, rest
      <3>2. Has(recent, j) /\ j # recent[1] /\ j # k
        BY <2>4, <2>7, <3>1
      <3>3. j \in DOMAIN cache
        BY <1>4, <3>2 DEF Known, Has
      <3>4. d[j] = cache[j]
        BY <2>2, <3>2, <3>3
      <3> QED
        BY <3>4 DEF j
    <2> HIDE DEF link, d, rest, e
    <2>9. Held(d, [keyOf EXCEPT ![link] = k], L!Appended(e, link), Append(rest, k))
      BY <1>2, <2>2, <2>3, <2>4, <2>6, <2>7, <2>8, Joined
    <2>10. Held(cache', keyOf', [next |-> after', prev |-> before'], recent')
      BY <1>7, <2>5, <2>6, <2>9, RingBecomes DEF link, e
    <2>11. Known(d, Append(rest, k))
      <3>1. \A j : Has(Append(rest, k), j) <=> (Has(rest, j) \/ j = k)
        BY <1>2, <2>4, <2>7, AppendedDistinct
      <3> QED
        BY <1>4, <2>4, <2>6, <3>1, KnownKeys
    <2> QED
      BY <1>3, <2>5, <2>6, <2>10, <2>11 DEF LruInv, L!Ring
  <1> QED
    BY <1>1, <1>5, <1>6, <1>7 DEF k

LEMMA LruNext ==
  ASSUME SizeIsPositive, LruInv, [L!Next]_L!vars
  PROVE  LruInv'
  <1>1. CASE L!Hit
    BY <1>1, HitStep
  <1>2. CASE L!Miss
    BY <1>2 DEF L!Miss, LruInv, L!Ring
  <1>3. CASE L!Return
    BY <1>3, ReturnStep
  <1>4. CASE L!Raise
    <2>1. calls' \in Seq(CachedKey)
      BY <1>4, RemovedAt DEF L!Raise, LruInv
    <2> QED
      BY <1>4, <2>1 DEF L!Raise, LruInv, L!Ring
  <1>5. CASE L!CacheClear
    <2>1. recent' = <<>> /\ cache' = <<>> /\ after' = L!Alone /\ before' = L!Alone
          /\ keyOf' = keyOf /\ calls' = calls
      BY <1>5 DEF L!CacheClear, L!Becomes
    <2>2. Links(cache', recent') = <<>> /\ Links(cache', recent') \in Seq(L!Link)
      BY <2>1 DEF Links
    <2>3. IsRing(L!Ring', <<>>)
      BY <2>1 DEF IsRing, L!Ring, At, L!Alone, Pointers
    <2>4. Known(cache', recent')
      <3>1. DOMAIN cache' = {} /\ Len(recent') = 0
        BY <2>1
      <3> QED
        BY <3>1 DEF Known
    <2> QED
      BY <2>1, <2>2, <2>3, <2>4 DEF LruInv, Held, Distinct
  <1>6. CASE UNCHANGED L!vars
    BY <1>6 DEF L!vars, LruInv, L!Ring
  <1> QED
    BY <1>1, <1>2, <1>3, <1>4, <1>5, <1>6 DEF L!Next

LEMMA LruKeeps ==
  ASSUME SizeIsPositive, LruInv
  PROVE  L!CacheKeepsRecent
  <1> DEFINE size == Len(recent)
             ls == Links(cache, recent)
  <1>1. Held(cache, keyOf, L!Ring, recent) /\ Known(cache, recent)
    BY DEF LruInv
  <1>2. /\ size \in Nat /\ recent \in Seq(CachedKey) /\ Distinct(recent)
        /\ ls \in Seq(L!Link) /\ Len(ls) = size /\ IsRing(L!Ring, ls)
        /\ \A n \in 1..size : ls[n] = cache[recent[n]] /\ cache[recent[n]] \in L!Link
        /\ size <= MaxSize
    BY <1>1, HeldLinks, HeldSize
  <1>3. \A n \in 1..size : keyOf[cache[recent[n]]] = recent[n]
    BY <1>1 DEF Held
  <1>4. DOMAIN recent = 1..size
    BY <1>2
  <1>5. DOMAIN cache = L!Range(recent)
    BY <1>1, <1>4 DEF Known, L!Range
  <1> HIDE DEF ls
  <1>6. \A n : L!LinkAt(n) = At(ls, n)
    BY <1>2, <1>4 DEF L!LinkAt, At
  <1>7. \A n \in 0..size : after[At(ls, n)] = At(ls, n + 1) /\ before[At(ls, n + 1)] = At(ls, n)
    BY <1>2 DEF IsRing, L!Ring
  <1> QED
    BY <1>2, <1>3, <1>4, <1>5, <1>6, <1>7 DEF L!CacheKeepsRecent, Distinct, L!LinkAt

(* Round the ring are always the keys of the cache, at most maxsize of     *)
(* them, from the one used longest ago to the one used last, and each key  *)
(* has its link and each link its key: whatever calls of the function      *)
(* overlap, call it again, raise or clear the cache (functools.js).        *)
THEOREM CacheAlwaysKeepsRecent == L!Spec => []CacheKeepsRecent
  <1>0. SizeIsPositive
    BY ProgramAssumption
  <1>1. L!Init => LruInv
    BY <1>0, LruInit
  <1>2. LruInv /\ [L!Next]_L!vars => LruInv'
    BY <1>0, LruNext
  <1>3. LruInv => L!CacheKeepsRecent
    BY <1>0, LruKeeps
  <1> QED
    BY <1>1, <1>2, <1>3, PTL DEF L!Spec, CacheKeepsRecent

-----------------------------------------------------------------------------
(* Dicts (Dicts).                                                          *)

Hash == D!Range(KeyHash)
Bucket == Seq(Key \cup {D!Hole})
Pair == [key : Key, value : DictValue]
AnyName == {D!NameOfString(k) : k \in Strings} \cup {D!InPlace(h, p) : h \in Hash, p \in Nat}
Entry == [name : AnyName, key : Key, value : DictValue]

NameIn(s, n) == s[n].name
KeyIn(s, n) == s[n].key
ValueIn(s, n) == s[n].value

(* A string has its own name, any other key that of its place. *)
Stored(e, b, n) ==
  IF KeyIn(e, n) \in Strings THEN NameIn(e, n) = D!NameOfString(KeyIn(e, n))
  ELSE \E p \in 1..Len(b[KeyHash[KeyIn(e, n)]]) :
         /\ NameIn(e, n) = D!InPlace(KeyHash[KeyIn(e, n)], p)
         /\ b[KeyHash[KeyIn(e, n)]][p] = KeyIn(e, n)

Taken(e, b, h, p) ==
  /\ b[h][p] \in Key \ Strings /\ KeyHash[b[h][p]] = h
  /\ \E n \in 1..Len(e) : NameIn(e, n) = D!InPlace(h, p) /\ KeyIn(e, n) = b[h][p]

Sound(e, b) ==
  /\ e \in Seq(Entry) /\ b \in [Hash -> Bucket]
  /\ \A n, m \in 1..Len(e) : D!Equal(KeyIn(e, n), KeyIn(e, m)) => n = m
  /\ \A n \in 1..Len(e) : Stored(e, b, n)
  /\ \A h \in Hash : \A p \in 1..Len(b[h]) : b[h][p] # D!Hole => Taken(e, b, h, p)

-----------------------------------------------------------------------------
LEMMA NamesDiffer ==
  /\ \A j, k : D!NameOfString(j) = D!NameOfString(k) => j = k
  /\ \A g, h, p, q : D!InPlace(g, p) = D!InPlace(h, q) => g = h /\ p = q
  /\ \A k, h, p : p # 0 => D!NameOfString(k) # D!InPlace(h, p)
  BY DEF D!NameOfString, D!InPlace

LEMMA EntryParts ==
  ASSUME NEW e \in Seq(Entry), NEW n \in 1..Len(e)
  PROVE  KeyIn(e, n) \in Key /\ NameIn(e, n) \in AnyName /\ ValueIn(e, n) \in DictValue
  <1>1. e[n] \in Entry
    OBVIOUS
  <1> QED
    BY <1>1 DEF Entry, KeyIn, NameIn, ValueIn

(* Entries are found by any key equal to theirs. *)
LEMMA Found ==
  ASSUME KeysHaveHashes, Sound(entries, buckets), NEW k \in Key,
         NEW n \in 1..Len(entries)
  PROVE  NameIn(entries, n) \in D!Names(k) <=> D!Equal(KeyIn(entries, n), k)
  <1> DEFINE j == KeyIn(entries, n)
             name == NameIn(entries, n)
             h == KeyHash[k]
             b == buckets[h]
  <1>1. j \in Key /\ entries \in Seq(Entry) /\ buckets \in [Hash -> Bucket]
    BY EntryParts DEF Sound
  <1>2. h \in Hash /\ b \in Bucket /\ Len(b) \in Nat /\ DOMAIN b = 1..Len(b)
    <2>1. h \in Hash
      BY DEF KeysHaveHashes, Hash, D!Range
    <2> QED
      BY <1>1, <2>1 DEF Bucket
  <1>3. IF j \in Strings THEN name = D!NameOfString(j)
        ELSE \E p \in 1..Len(buckets[KeyHash[j]]) :
               name = D!InPlace(KeyHash[j], p) /\ buckets[KeyHash[j]][p] = j
    BY DEF Sound, Stored
  <1>4. n \in DOMAIN entries /\ entries[n].name = name
    BY <1>1 DEF NameIn
  <1> HIDE DEF j, name, h, b
  <1>5. CASE k \in Strings
    <2>1. D!Position(name) # {}
      BY <1>4 DEF D!Position
    <2>2. name \in D!Names(k) <=> name = D!NameOfString(k)
      BY <1>5, <2>1 DEF D!Names
    <2>3. D!Equal(j, k) <=> j = k
      BY <1>1, <1>5 DEF KeysHaveHashes, D!Equal
    <2>4. j = k => name = D!NameOfString(k)
      BY <1>3, <1>5
    <2>5. name = D!NameOfString(k) => j = k
      BY <1>3, NamesDiffer
    <2> QED
      BY <2>2, <2>3, <2>4, <2>5 DEF j, name
  <1>6. CASE k \notin Strings
    <2>1. \A p \in D!Places(k) : /\ p \in 1..Len(b) /\ b[p] # D!Hole /\ D!Equal(k, b[p])
                               /\ \E m \in 1..Len(entries) :
                                    NameIn(entries, m) = D!InPlace(h, p) /\ KeyIn(entries, m) = b[p]
      <3> SUFFICES ASSUME NEW p \in D!Places(k)
                   PROVE  /\ p \in 1..Len(b) /\ b[p] # D!Hole /\ D!Equal(k, b[p])
                          /\ \E m \in 1..Len(entries) :
                               NameIn(entries, m) = D!InPlace(h, p) /\ KeyIn(entries, m) = b[p]
        OBVIOUS
      <3>1. p \in 1..Len(b) /\ b[p] # D!Hole /\ D!Equal(k, b[p])
        BY <1>2 DEF D!Places, b, h
      <3>2. Taken(entries, buckets, h, p)
        BY <1>2, <3>1 DEF Sound, b
      <3> QED
        BY <3>1, <3>2 DEF Taken, b
    <2>2. ASSUME NEW p \in D!Places(k), NEW m \in 1..Len(entries), D!Equal(KeyIn(entries, m), k)
          PROVE  NameIn(entries, m) = D!InPlace(h, p)
      <3>1. PICK l \in 1..Len(entries) : NameIn(entries, l) = D!InPlace(h, p) /\ KeyIn(entries, l) = b[p]
        BY <2>1
      <3>2. D!Equal(KeyIn(entries, m), KeyIn(entries, l))
        BY <2>1, <2>2, <3>1 DEF D!Equal
      <3> QED
        BY <3>1, <3>2 DEF Sound
    <2>3. name \in D!Names(k) => \E p \in D!Places(k) : name = D!InPlace(h, p)
      BY <1>6 DEF D!Names, h
    <2>4. name \in D!Names(k) => D!Equal(j, k)
      <3> SUFFICES ASSUME NEW p \in D!Places(k), name = D!InPlace(h, p) PROVE D!Equal(j, k)
        BY <2>3
      <3>1. p \in 1..Len(b) /\ D!Equal(k, b[p])
        BY <2>1
      <3>2. p # 0
        BY <1>2, <3>1
      <3>3. j \notin Strings
        BY <1>3, <3>2, NamesDiffer
      <3>4. j = b[p]
        BY <1>3, <3>3, NamesDiffer DEF b
      <3> QED
        BY <3>1, <3>4 DEF D!Equal
    <2>5. D!Equal(j, k) => name \in D!Names(k)
      <3> SUFFICES ASSUME D!Equal(j, k) PROVE name \in D!Names(k)
        OBVIOUS
      <3>1. j \notin Strings /\ KeyHash[j] = h
        BY <1>1, <1>6 DEF KeysHaveHashes, h
      <3>2. PICK p \in 1..Len(b) : name = D!InPlace(h, p) /\ b[p] = j
        BY <1>3, <3>1 DEF b
      <3>3. p \in D!Places(k)
        <4>1. b[p] # D!Hole
          BY <1>1, <3>2 DEF KeysHaveHashes
        <4>2. D!Equal(k, b[p])
          BY <3>2 DEF D!Equal
        <4> QED
          BY <1>2, <4>1, <4>2 DEF D!Places, b, h
      <3>4. \A q \in D!Places(k) : q = p
        <4> SUFFICES ASSUME NEW q \in D!Places(k) PROVE q = p
          OBVIOUS
        <4>1. NameIn(entries, n) = D!InPlace(h, q)
          BY <2>2 DEF j
        <4> QED
          BY <3>2, <4>1, NamesDiffer, ZenonT(30) DEF name
      <3>5. \A q \in D!Places(k) : p <= q
        BY <1>2, <3>2, <3>4
      <3> QED
        BY <1>6, <3>2, <3>3, <3>5 DEF D!Names, h
    <2> QED
      BY <2>4, <2>5 DEF j, name
  <1> QED
    BY <1>5, <1>6

(* A key is in the dict if an equal one is in the entries. *)
LEMMA Finds ==
  ASSUME KeysHaveHashes, Sound(entries, buckets), NEW k \in Key
  PROVE  D!Has(k) <=> \E n \in 1..Len(entries) : D!Equal(KeyIn(entries, n), k)
  <1>1. ASSUME NEW n \in 1..Len(entries), D!Equal(KeyIn(entries, n), k) PROVE D!Has(k)
    BY <1>1, Found DEF D!Has
  <1>2. ASSUME NEW name \in D!Names(k)
        PROVE  \E n \in 1..Len(entries) : NameIn(entries, n) = name
    <2>0. entries \in Seq(Entry) /\ DOMAIN entries = 1..Len(entries)
      BY DEF Sound
    <2>1. CASE k \in Strings
      BY <1>2, <2>0, <2>1 DEF D!Names, D!Position, NameIn
    <2>2. CASE k \notin Strings
      <3> DEFINE h == KeyHash[k]
      <3>1. PICK p \in D!Places(k) : name = D!InPlace(h, p)
        BY <1>2, <2>2 DEF D!Names
      <3>2. h \in Hash
        BY DEF KeysHaveHashes, Hash, D!Range
      <3>3. buckets[h] \in Bucket
        BY <3>2 DEF Sound
      <3>4. p \in 1..Len(buckets[h]) /\ buckets[h][p] # D!Hole
        BY <3>3 DEF D!Places, Bucket
      <3>5. Taken(entries, buckets, h, p)
        BY <3>2, <3>4 DEF Sound
      <3> QED
        BY <3>1, <3>5 DEF Taken
    <2> QED
      BY <2>1, <2>2
  <1>3. D!Has(k) => \E n \in 1..Len(entries) : D!Equal(KeyIn(entries, n), k)
    BY <1>2, Found DEF D!Has
  <1> QED
    BY <1>1, <1>3

-----------------------------------------------------------------------------
(* A bucket in which a place is filled. *)
LEMMA PlaceIsFree ==
  ASSUME NEW b \in Bucket
  PROVE  /\ D!FreePlace(b) \in 1..(Len(b) + 1)
         /\ D!FreePlace(b) <= Len(b) => b[D!FreePlace(b)] = D!Hole
  <1> DEFINE holes == {n \in DOMAIN b : b[n] = D!Hole}
  <1>1. Len(b) \in Nat /\ DOMAIN b = 1..Len(b)
    BY DEF Bucket
  <1>2. CASE holes # {}
    <2>1. holes \subseteq Nat
      BY <1>1
    <2>2. PICK n \in holes : \A m \in holes : ~(<<m, n>> \in OpToRel(<, Nat))
      BY <1>2, <2>1, NatLessThanWellFounded, WFMin
    <2>3. \A m \in 1..(n - 1) : b[m] # D!Hole
      <3> SUFFICES ASSUME NEW m \in 1..(n - 1), b[m] = D!Hole PROVE FALSE
        OBVIOUS
      <3>1. m \in holes /\ m < n /\ m \in Nat /\ n \in Nat
        BY <1>1
      <3> QED
        BY <2>2, <3>1 DEF OpToRel
    <2>4. \E l \in DOMAIN b : b[l] = D!Hole /\ \A m \in 1..(l - 1) : b[m] # D!Hole
      BY <2>3
    <2>5. \E l \in DOMAIN b : b[l] = D!Hole
      BY <1>2
    <2>6. D!FreePlace(b) \in DOMAIN b /\ b[D!FreePlace(b)] = D!Hole
      BY <2>4, <2>5 DEF D!FreePlace
    <2> QED
      BY <1>1, <2>6
  <1>3. CASE holes = {}
    <2>1. D!FreePlace(b) = Len(b) + 1
      BY <1>3 DEF D!FreePlace
    <2> QED
      BY <1>1, <2>1
  <1> QED
    BY <1>2, <1>3

Filled(b, p, k) == IF p > Len(b) THEN Append(b, k) ELSE [b EXCEPT ![p] = k]

LEMMA PlaceFilled ==
  ASSUME NEW b \in Bucket, NEW p \in 1..(Len(b) + 1), NEW k \in Key
  PROVE  /\ Filled(b, p, k) \in Bucket /\ p \in 1..Len(Filled(b, p, k)) /\ Filled(b, p, k)[p] = k
         /\ \A q \in 1..Len(b) : q # p => q \in 1..Len(Filled(b, p, k)) /\ Filled(b, p, k)[q] = b[q]
         /\ \A q \in 1..Len(Filled(b, p, k)) : q # p => q \in 1..Len(b)
  <1>1. Len(b) \in Nat /\ DOMAIN b = 1..Len(b) /\ b \in Seq(Key \cup {D!Hole})
    BY DEF Bucket
  <1>2. CASE p > Len(b)
    <2>1. p = Len(b) + 1 /\ Filled(b, p, k) = Append(b, k)
      BY <1>1, <1>2 DEF Filled
    <2> DEFINE c == Append(b, k)
    <2>2. /\ c \in Bucket /\ Len(c) = Len(b) + 1 /\ c[Len(b) + 1] = k
          /\ \A q \in 1..Len(b) : c[q] = b[q]
      BY <1>1 DEF Bucket
    <2> HIDE DEF c
    <2>3. Filled(b, p, k) = c
      BY <2>1 DEF c
    <2> QED
      BY <1>1, <2>1, <2>2, <2>3
  <1>3. CASE ~(p > Len(b))
    <2>1. p \in 1..Len(b) /\ Filled(b, p, k) = [b EXCEPT ![p] = k]
      BY <1>1, <1>3 DEF Filled
    <2> DEFINE c == [b EXCEPT ![p] = k]
    <2>2. /\ c \in Bucket /\ Len(c) = Len(b) /\ c[p] = k
          /\ \A q \in 1..Len(b) : q # p => c[q] = b[q]
      BY <1>1, <2>1 DEF Bucket
    <2> HIDE DEF c
    <2>3. Filled(b, p, k) = c
      BY <2>1 DEF c
    <2> QED
      BY <1>1, <2>1, <2>2, <2>3
  <1> QED
    BY <1>2, <1>3

Entered(f, e, name, k, v) == f = Append(e, [name |-> name, key |-> k, value |-> v])

LEMMA EntryAppended ==
  ASSUME NEW e \in Seq(Entry), NEW name \in AnyName, NEW k \in Key, NEW v \in DictValue,
         NEW f, Entered(f, e, name, k, v)
  PROVE  /\ f \in Seq(Entry) /\ Len(f) = Len(e) + 1
         /\ KeyIn(f, Len(e) + 1) = k /\ NameIn(f, Len(e) + 1) = name /\ ValueIn(f, Len(e) + 1) = v
         /\ \A n \in 1..Len(e) : /\ KeyIn(f, n) = KeyIn(e, n) /\ NameIn(f, n) = NameIn(e, n)
                                 /\ ValueIn(f, n) = ValueIn(e, n)
  <1>0. PICK r : r = [name |-> name, key |-> k, value |-> v]
    OBVIOUS
  <1>1. r \in Entry /\ r.name = name /\ r.key = k /\ r.value = v
    BY <1>0 DEF Entry
  <1>2. f \in Seq(Entry) /\ Len(f) = Len(e) + 1 /\ f[Len(e) + 1] = r
        /\ \A n \in 1..Len(e) : f[n] = e[n]
    BY <1>0, <1>1 DEF Entered
  <1> QED
    BY <1>1, <1>2 DEF KeyIn, NameIn, ValueIn

(* What Added does. *)
LEMMA AddedSound ==
  ASSUME KeysHaveHashes, Sound(entries, buckets), NEW k \in Key, NEW v \in DictValue,
         ~D!Has(k), D!Added(k, v)
  PROVE  /\ Sound(entries', buckets')
         /\ Len(entries') = Len(entries) + 1
         /\ KeyIn(entries', Len(entries) + 1) = k /\ ValueIn(entries', Len(entries) + 1) = v
         /\ \A n \in 1..Len(entries) : /\ KeyIn(entries', n) = KeyIn(entries, n)
                                       /\ ValueIn(entries', n) = ValueIn(entries, n)
  <1> DEFINE h == KeyHash[k]
             b == buckets[h]
             p == D!FreePlace(b)
             name == IF k \in Strings THEN D!NameOfString(k) ELSE D!InPlace(h, p)
             len == Len(entries)
             e2 == entries'
             b2 == buckets'
  <1>0. /\ e2 = Append(entries, [name |-> name, key |-> k, value |-> v])
        /\ b2 = IF k \in Strings THEN buckets ELSE [buckets EXCEPT ![h] = Filled(b, p, k)]
    BY DEF D!Added, Filled
  <1>1. /\ entries \in Seq(Entry) /\ len \in Nat /\ buckets \in [Hash -> Bucket]
        /\ h \in Hash /\ b \in Bucket /\ Len(b) \in Nat
    BY DEF Sound, KeysHaveHashes, Hash, D!Range, Bucket
  <1>2. p \in 1..(Len(b) + 1) /\ (p <= Len(b) => b[p] = D!Hole)
    BY <1>1, PlaceIsFree
  <1>3. name \in AnyName
    BY <1>1, <1>2 DEF AnyName
  <1> HIDE DEF name, len, e2, b2, p, h
  <1>4. /\ e2 \in Seq(Entry) /\ Len(e2) = len + 1
        /\ KeyIn(e2, len + 1) = k /\ NameIn(e2, len + 1) = name /\ ValueIn(e2, len + 1) = v
        /\ \A n \in 1..len : /\ KeyIn(e2, n) = KeyIn(entries, n) /\ NameIn(e2, n) = NameIn(entries, n)
                             /\ ValueIn(e2, n) = ValueIn(entries, n)
    <2>1. Entered(e2, entries, name, k, v)
      BY <1>0 DEF Entered
    <2> QED
      BY <1>1, <1>3, <2>1, EntryAppended DEF len
  <1>5. \A n \in 1..(len + 1) : n \in 1..len \/ n = len + 1
    BY <1>1
  <1>6. \A n \in 1..len : ~D!Equal(KeyIn(entries, n), k)
    BY Finds DEF len
  <1>7. \A n, m \in 1..Len(e2) : D!Equal(KeyIn(e2, n), KeyIn(e2, m)) => n = m
    <2>1. \A n \in 1..len : ~D!Equal(KeyIn(e2, n), k) /\ ~D!Equal(k, KeyIn(e2, n))
      BY <1>4, <1>6 DEF D!Equal
    <2>2. \A n, m \in 1..len : D!Equal(KeyIn(e2, n), KeyIn(e2, m)) => n = m
      BY <1>4 DEF Sound, len
    <2> QED
      BY <1>4, <1>5, <2>1, <2>2
  <1>8. /\ b2 \in [Hash -> Bucket]
        /\ \A g \in Hash : \A q \in 1..Len(buckets[g]) :
             buckets[g][q] # D!Hole => q \in 1..Len(b2[g]) /\ b2[g][q] = buckets[g][q]
        /\ \A g \in Hash : \A q \in 1..Len(b2[g]) :
             \/ q \in 1..Len(buckets[g]) /\ b2[g][q] = buckets[g][q]
             \/ g = h /\ q = p /\ b2[g][q] = k /\ k \notin Strings
        /\ k \notin Strings => p \in 1..Len(b2[h]) /\ b2[h][p] = k
    <2>1. CASE k \in Strings
      BY <1>0, <1>1, <2>1
    <2>2. CASE k \notin Strings
      <3> DEFINE c == Filled(b, p, k)
      <3>1. /\ c \in Bucket /\ p \in 1..Len(c) /\ c[p] = k
            /\ \A q \in 1..Len(b) : q # p => q \in 1..Len(c) /\ c[q] = b[q]
            /\ \A q \in 1..Len(c) : q # p => q \in 1..Len(b)
        BY <1>1, <1>2, PlaceFilled
      <3> HIDE DEF c
      <3>2. b2 \in [Hash -> Bucket] /\ b2[h] = c /\ \A g \in Hash : g # h => b2[g] = buckets[g]
        BY <1>0, <1>1, <2>2, <3>1 DEF c
      <3>3. \A q \in 1..Len(b) : b[q] # D!Hole => q # p
        BY <1>1, <1>2
      <3> QED
        BY <1>1, <2>2, <3>1, <3>2, <3>3
    <2> QED
      BY <2>1, <2>2
  <1>9. \A n \in 1..Len(e2) : Stored(e2, b2, n)
    <2>1. ASSUME NEW n \in 1..len PROVE Stored(e2, b2, n)
      <3> DEFINE j == KeyIn(entries, n)
      <3>1. Stored(entries, buckets, n) /\ j \in Key /\ KeyHash[j] \in Hash
        BY <1>1, EntryParts DEF Sound, len, KeysHaveHashes, Hash, D!Range
      <3>2. KeyIn(e2, n) = j /\ NameIn(e2, n) = NameIn(entries, n)
        BY <1>4
      <3> HIDE DEF j
      <3>3. CASE j \in Strings
        BY <3>1, <3>2, <3>3 DEF Stored, j
      <3>4. CASE j \notin Strings
        <4>1. PICK q \in 1..Len(buckets[KeyHash[j]]) :
                NameIn(entries, n) = D!InPlace(KeyHash[j], q) /\ buckets[KeyHash[j]][q] = j
          BY <3>1, <3>4 DEF Stored, j
        <4>2. buckets[KeyHash[j]][q] # D!Hole
          BY <3>1, <4>1 DEF KeysHaveHashes
        <4>3. q \in 1..Len(b2[KeyHash[j]]) /\ b2[KeyHash[j]][q] = j
          BY <1>8, <3>1, <4>1, <4>2
        <4> QED
          BY <3>2, <3>4, <4>1, <4>3 DEF Stored
      <3> QED
        BY <3>3, <3>4
    <2>2. Stored(e2, b2, len + 1)
      BY <1>4, <1>8 DEF Stored, name, h
    <2> QED
      BY <1>4, <1>5, <2>1, <2>2
  <1>10. ASSUME NEW g \in Hash, NEW q \in 1..Len(b2[g]), b2[g][q] # D!Hole
         PROVE  Taken(e2, b2, g, q)
    <2>1. CASE q \in 1..Len(buckets[g]) /\ b2[g][q] = buckets[g][q]
      <3>1. Taken(entries, buckets, g, q)
        BY <1>10, <2>1 DEF Sound
      <3>2. PICK n \in 1..len : NameIn(entries, n) = D!InPlace(g, q) /\ KeyIn(entries, n) = b2[g][q]
        BY <2>1, <3>1 DEF Taken, len
      <3>3. n \in 1..Len(e2) /\ NameIn(e2, n) = D!InPlace(g, q) /\ KeyIn(e2, n) = b2[g][q]
        BY <1>1, <1>4, <3>2
      <3> QED
        BY <2>1, <3>1, <3>3 DEF Taken
    <2>2. CASE g = h /\ q = p /\ b2[g][q] = k /\ k \notin Strings
      <3>1. len + 1 \in 1..Len(e2) /\ NameIn(e2, len + 1) = D!InPlace(h, p) /\ KeyIn(e2, len + 1) = k
        BY <1>1, <1>4, <2>2 DEF name
      <3> QED
        BY <2>2, <3>1 DEF Taken, h
    <2> QED
      BY <1>8, <2>1, <2>2
  <1>11. Sound(e2, b2)
    BY <1>4, <1>7, <1>8, <1>9, <1>10 DEF Sound
  <1> QED
    BY <1>4, <1>11 DEF e2, b2, len

(* Caches, dicts and deques remove from sequences alike. *)
LEMMA SameRemoval == \A s, i : D!RemoveAt(s, i) = L!RemoveAt(s, i)
                                 /\ Q!RemoveAt(s, i) = L!RemoveAt(s, i)
  BY DEF D!RemoveAt, Q!RemoveAt, L!RemoveAt

Without(r, s, i) == r = D!RemoveAt(s, i)
Rest(r, s, i) ==
  /\ \A n \in 1..(Len(s) - 1) : \E m \in 1..Len(s) :
       /\ m # i /\ m = (IF n < i THEN n ELSE n + 1)
       /\ KeyIn(r, n) = KeyIn(s, m) /\ NameIn(r, n) = NameIn(s, m)
       /\ ValueIn(r, n) = ValueIn(s, m)
  /\ \A m \in 1..Len(s) : m # i => \E n \in 1..(Len(s) - 1) :
       KeyIn(r, n) = KeyIn(s, m) /\ NameIn(r, n) = NameIn(s, m)

LEMMA PartsRemoved ==
  ASSUME NEW S, NEW s \in Seq(S), NEW i \in 1..Len(s), NEW r, Without(r, s, i)
  PROVE  Len(s) \in Nat /\ r \in Seq(S) /\ Len(r) = Len(s) - 1 /\ Rest(r, s, i)
  <1>1. Len(s) \in Nat /\ i \in Nat /\ i >= 1 /\ i <= Len(s)
    OBVIOUS
  <1>2. /\ r \in Seq(S) /\ Len(r) = Len(s) - 1
        /\ \A n \in 1..(Len(s) - 1) : r[n] = IF n < i THEN s[n] ELSE s[n + 1]
    BY RemovedAt, SameRemoval DEF Without
  <1>3. ASSUME NEW n \in 1..(Len(s) - 1)
        PROVE  \E m \in 1..Len(s) :
                 /\ m # i /\ m = (IF n < i THEN n ELSE n + 1) /\ r[n] = s[m]
    <2> DEFINE m == IF n < i THEN n ELSE n + 1
    <2>1. m \in 1..Len(s) /\ m # i
      BY <1>1
    <2>2. r[n] = s[m]
      BY <1>2
    <2> QED
      BY <2>1, <2>2
  <1>4. ASSUME NEW m \in 1..Len(s), m # i
        PROVE  \E n \in 1..(Len(s) - 1) : r[n] = s[m]
    <2>1. CASE m < i
      <3>1. m \in 1..(Len(s) - 1) /\ r[m] = s[m]
        BY <1>1, <1>2, <2>1
      <3> QED
        BY <3>1
    <2>2. CASE m > i
      <3> DEFINE n == m - 1
      <3>1. n \in 1..(Len(s) - 1) /\ ~(n < i) /\ n + 1 = m
        BY <1>1, <2>2
      <3> HIDE DEF n
      <3>2. r[n] = s[m]
        BY <1>2, <3>1
      <3> QED
        BY <3>1, <3>2
    <2> QED
      BY <1>1, <1>4, <2>1, <2>2
  <1> QED
    BY <1>1, <1>2, <1>3, <1>4 DEF Rest, KeyIn, NameIn, ValueIn

(* What Removed does. *)
LEMMA RemovedSound ==
  ASSUME KeysHaveHashes, Sound(entries, buckets), NEW k \in Key, D!Has(k), D!Removed(k)
  PROVE  /\ Sound(entries', buckets')
         /\ \E m \in 1..Len(entries) : /\ D!Equal(KeyIn(entries, m), k)
                                       /\ entries' = D!RemoveAt(entries, m)
  <1> DEFINE h == KeyHash[k]
             b == buckets[h]
             holed == [q \in DOMAIN b |-> IF D!InPlace(h, q) \in D!Names(k) THEN D!Hole ELSE b[q]]
             len == Len(entries)
             m == CHOOSE n \in DOMAIN entries : entries[n].name \in D!Names(k)
             e2 == entries'
             b2 == buckets'
  <1>0. /\ e2 = D!RemoveAt(entries, m)
        /\ b2 = IF k \in Strings THEN buckets
                ELSE [buckets EXCEPT ![h] = IF D!Range(holed) = {D!Hole} THEN <<>> ELSE holed]
    BY DEF D!Removed
  <1>1. /\ entries \in Seq(Entry) /\ len \in Nat /\ DOMAIN entries = 1..len
        /\ buckets \in [Hash -> Bucket]
        /\ h \in Hash /\ b \in Bucket /\ Len(b) \in Nat /\ DOMAIN b = 1..Len(b)
    BY DEF Sound, KeysHaveHashes, Hash, D!Range, Bucket
  <1>2. m \in 1..len /\ D!Equal(KeyIn(entries, m), k)
    <2>1. PICK n \in 1..len : D!Equal(KeyIn(entries, n), k)
      BY Finds
    <2>2. NameIn(entries, n) \in D!Names(k)
      BY <2>1, Found
    <2>3. m \in DOMAIN entries /\ entries[m].name \in D!Names(k)
      BY <1>1, <2>2 DEF NameIn
    <2> QED
      BY <1>1, <2>3, Found DEF NameIn
  <1> HIDE DEF m
  <1>3. /\ e2 \in Seq(Entry) /\ Len(e2) = len - 1
        /\ \A n \in 1..(len - 1) : \E l \in 1..len :
             /\ l # m /\ l = (IF n < m THEN n ELSE n + 1)
             /\ KeyIn(e2, n) = KeyIn(entries, l) /\ NameIn(e2, n) = NameIn(entries, l)
        /\ \A l \in 1..len : l # m => \E n \in 1..(len - 1) :
             KeyIn(e2, n) = KeyIn(entries, l) /\ NameIn(e2, n) = NameIn(entries, l)
    <2>1. Without(e2, entries, m) /\ m \in 1..Len(entries)
      BY <1>0, <1>2 DEF Without
    <2> HIDE DEF e2, h, b, holed
    <2>2. e2 \in Seq(Entry) /\ Len(e2) = Len(entries) - 1 /\ Rest(e2, entries, m)
      BY <1>1, <2>1, PartsRemoved
    <2> QED
      BY <2>2 DEF Rest
  <1>4. \A l \in 1..len : l # m => ~D!Equal(KeyIn(entries, l), k)
    BY <1>2 DEF Sound, D!Equal
  <1>5. ASSUME NEW g \in Hash, NEW q \in 1..Len(buckets[g]), buckets[g][q] # D!Hole
        PROVE  /\ buckets[g][q] \in Key \ Strings /\ KeyHash[buckets[g][q]] = g
               /\ g = h => (D!InPlace(h, q) \in D!Names(k) <=> D!Equal(buckets[g][q], k))
    <2>1. Taken(entries, buckets, g, q)
      BY <1>5 DEF Sound
    <2>2. PICK n \in 1..len : NameIn(entries, n) = D!InPlace(g, q) /\ KeyIn(entries, n) = buckets[g][q]
      BY <2>1 DEF Taken
    <2>3. NameIn(entries, n) \in D!Names(k) <=> D!Equal(KeyIn(entries, n), k)
      BY Found
    <2> QED
      BY <2>1, <2>2, <2>3 DEF Taken
  <1> HIDE DEF e2, b2, h, len
  <1>6. /\ b2 \in [Hash -> Bucket]
        /\ \A g \in Hash : \A q \in 1..Len(buckets[g]) :
             (buckets[g][q] # D!Hole /\ ~D!Equal(buckets[g][q], k)) =>
               q \in 1..Len(b2[g]) /\ b2[g][q] = buckets[g][q]
        /\ \A g \in Hash : \A q \in 1..Len(b2[g]) : b2[g][q] # D!Hole =>
             /\ q \in 1..Len(buckets[g]) /\ b2[g][q] = buckets[g][q]
             /\ ~D!Equal(buckets[g][q], k)
    <2>1. CASE k \in Strings
      <3>1. b2 = buckets
        BY <1>0, <2>1
      <3>2. ASSUME NEW g \in Hash, NEW q \in 1..Len(buckets[g]), buckets[g][q] # D!Hole
            PROVE  ~D!Equal(buckets[g][q], k)
        <4>1. buckets[g][q] \in Key \ Strings
          BY <1>5, <3>2
        <4> QED
          BY <2>1, <4>1 DEF KeysHaveHashes, D!Equal
      <3> QED
        BY <1>1, <3>1, <3>2
    <2>2. CASE k \notin Strings
      <3> DEFINE c == IF D!Range(holed) = {D!Hole} THEN <<>> ELSE holed
      <3>1. holed \in Bucket /\ Len(holed) = Len(b)
        BY <1>1 DEF Bucket
      <3>2. \A q \in 1..Len(b) : b[q] # D!Hole =>
              (b[q] \in Key /\ holed[q] = IF D!Equal(b[q], k) THEN D!Hole ELSE b[q])
        BY <1>1, <1>5
      <3>3. \A q \in 1..Len(b) : b[q] = D!Hole => holed[q] = D!Hole
        BY <1>1
      <3>4. DOMAIN holed = 1..Len(b)
        BY <1>1
      <3>5. D!Hole \notin Key
        BY DEF KeysHaveHashes
      <3> HIDE DEF holed
      <3>6. D!Range(holed) = {D!Hole} => \A q \in 1..Len(b) : holed[q] = D!Hole
        BY <3>4 DEF D!Range
      <3>7. /\ c \in Bucket
            /\ \A q \in 1..Len(b) : (b[q] # D!Hole /\ ~D!Equal(b[q], k)) => q \in 1..Len(c) /\ c[q] = b[q]
            /\ \A q \in 1..Len(c) : c[q] # D!Hole =>
                 q \in 1..Len(b) /\ c[q] = b[q] /\ ~D!Equal(b[q], k)
        <4>1. CASE D!Range(holed) = {D!Hole}
          <5>1. c = <<>>
            BY <4>1
          <5> HIDE DEF c
          <5>2. c \in Bucket /\ Len(c) = 0
            BY <5>1 DEF Bucket
          <5> QED
            BY <3>2, <3>5, <3>6, <4>1, <5>2
        <4>2. CASE D!Range(holed) # {D!Hole}
          <5>1. c = holed
            BY <4>2
          <5> QED
            BY <3>1, <3>2, <3>3, <3>5, <5>1
        <4> QED
          BY <4>1, <4>2
      <3> HIDE DEF c
      <3>8. b2 \in [Hash -> Bucket] /\ b2[h] = c /\ \A g \in Hash : g # h => b2[g] = buckets[g]
        BY <1>0, <1>1, <2>2, <3>7 DEF c
      <3>9. ASSUME NEW g \in Hash, NEW q \in 1..Len(buckets[g]), buckets[g][q] # D!Hole, g # h
            PROVE  ~D!Equal(buckets[g][q], k)
        BY <1>5, <3>9 DEF KeysHaveHashes, h
      <3> QED
        BY <3>7, <3>8, <3>9
    <2> QED
      BY <2>1, <2>2
  <1>7. \A n, l \in 1..Len(e2) : D!Equal(KeyIn(e2, n), KeyIn(e2, l)) => n = l
    <2> SUFFICES ASSUME NEW n \in 1..(len - 1), NEW l \in 1..(len - 1),
                        D!Equal(KeyIn(e2, n), KeyIn(e2, l))
                 PROVE  n = l
      BY <1>3
    <2>1. PICK n1 \in 1..len : n1 # m /\ n1 = (IF n < m THEN n ELSE n + 1)
                               /\ KeyIn(e2, n) = KeyIn(entries, n1)
      BY <1>3
    <2>2. PICK l1 \in 1..len : l1 # m /\ l1 = (IF l < m THEN l ELSE l + 1)
                               /\ KeyIn(e2, l) = KeyIn(entries, l1)
      BY <1>3
    <2>3. n1 = l1
      BY <2>1, <2>2 DEF Sound, len
    <2> QED
      BY <1>1, <1>2, <2>1, <2>2, <2>3
  <1>8. ASSUME NEW n \in 1..Len(e2) PROVE Stored(e2, b2, n)
    <2>1. n \in 1..(len - 1)
      BY <1>3
    <2>2. PICK l \in 1..len : l # m /\ KeyIn(e2, n) = KeyIn(entries, l)
                              /\ NameIn(e2, n) = NameIn(entries, l)
      BY <1>3, <2>1
    <2> DEFINE j == KeyIn(entries, l)
    <2>3. Stored(entries, buckets, l) /\ j \in Key /\ KeyHash[j] \in Hash
      BY <1>1, EntryParts DEF Sound, len, KeysHaveHashes, Hash, D!Range
    <2>4. ~D!Equal(j, k)
      BY <1>4, <2>2
    <2> HIDE DEF j
    <2>5. CASE j \in Strings
      BY <2>2, <2>3, <2>5 DEF Stored, j
    <2>6. CASE j \notin Strings
      <3>1. PICK q \in 1..Len(buckets[KeyHash[j]]) :
              NameIn(entries, l) = D!InPlace(KeyHash[j], q) /\ buckets[KeyHash[j]][q] = j
        BY <2>3, <2>6 DEF Stored, j
      <3>2. buckets[KeyHash[j]][q] # D!Hole
        BY <2>3, <3>1 DEF KeysHaveHashes
      <3>3. q \in 1..Len(b2[KeyHash[j]]) /\ b2[KeyHash[j]][q] = j
        BY <1>6, <2>3, <2>4, <3>1, <3>2
      <3>4. KeyIn(e2, n) = j
        BY <2>2 DEF j
      <3> QED
        BY <2>2, <2>6, <3>1, <3>3, <3>4 DEF Stored
    <2> QED
      BY <2>5, <2>6
  <1>9. ASSUME NEW g \in Hash, NEW q \in 1..Len(b2[g]), b2[g][q] # D!Hole
        PROVE  Taken(e2, b2, g, q)
    <2>1. q \in 1..Len(buckets[g]) /\ b2[g][q] = buckets[g][q] /\ ~D!Equal(buckets[g][q], k)
      BY <1>6, <1>9
    <2>2. Taken(entries, buckets, g, q)
      BY <1>9, <2>1 DEF Sound
    <2>3. PICK l \in 1..len : NameIn(entries, l) = D!InPlace(g, q) /\ KeyIn(entries, l) = buckets[g][q]
      BY <2>2 DEF Taken, len
    <2>4. l # m
      BY <1>2, <2>1, <2>3
    <2>5. PICK n \in 1..(len - 1) :
            KeyIn(e2, n) = KeyIn(entries, l) /\ NameIn(e2, n) = NameIn(entries, l)
      BY <1>3, <2>4
    <2> QED
      BY <1>3, <2>1, <2>2, <2>3, <2>5 DEF Taken
  <1>10. Sound(e2, b2)
    BY <1>3, <1>6, <1>7, <1>8, <1>9 DEF Sound
  <1> QED
    BY <1>0, <1>2, <1>10 DEF e2, b2, len

-----------------------------------------------------------------------------
(* The entries are the pairs, and the iterator met what it had to. *)
ItemsAre(e, c) ==
  /\ c \in Seq(Pair) /\ Len(e) = Len(c)
  /\ \A n \in 1..Len(c) : KeyIn(e, n) = KeyIn(c, n) /\ ValueIn(e, n) = ValueIn(c, n)

Iterator == [on : BOOLEAN, names : Seq(Key), size : Nat, version : Nat, index : Nat]
Met == [given : Seq(Key), keys : Seq(Key)]

Iterates(it, mt, v, keys) ==
  /\ it \in Iterator /\ mt \in Met /\ v \in Nat
  /\ it.on => /\ it.version <= v
              /\ 2 <= it.index /\ it.index <= Len(it.names) + 1
              /\ mt.given = SubSeq(it.names, 1, it.index - 1)
              /\ it.version = v => it.names = keys /\ mt.keys = keys

DictInv == /\ Sound(entries, buckets)
           /\ ItemsAre(entries, content)
           /\ dictSize = Len(content)
           /\ Iterates(iterator, met, dictVersion, D!Keys(content))

LEMMA PairParts ==
  ASSUME NEW c \in Seq(Pair)
  PROVE  /\ Len(c) \in Nat /\ DOMAIN c = 1..Len(c)
         /\ \A n \in 1..Len(c) : KeyIn(c, n) \in Key /\ ValueIn(c, n) \in DictValue
         /\ D!Keys(c) = [n \in 1..Len(c) |-> KeyIn(c, n)]
         /\ D!Keys(c) \in Seq(Key) /\ Len(D!Keys(c)) = Len(c)
  <1>1. Len(c) \in Nat /\ DOMAIN c = 1..Len(c)
    OBVIOUS
  <1>2. \A n \in 1..Len(c) : KeyIn(c, n) \in Key /\ ValueIn(c, n) \in DictValue
    <2> SUFFICES ASSUME NEW n \in 1..Len(c) PROVE KeyIn(c, n) \in Key /\ ValueIn(c, n) \in DictValue
      OBVIOUS
    <2>1. c[n] \in Pair
      OBVIOUS
    <2> QED
      BY <2>1 DEF Pair, KeyIn, ValueIn
  <1>3. D!Keys(c) = [n \in 1..Len(c) |-> KeyIn(c, n)]
    BY <1>1 DEF D!Keys, KeyIn
  <1> QED
    BY <1>1, <1>2, <1>3

LEMMA KnownPairs ==
  ASSUME KeysHaveHashes, DictInv, NEW k \in Key
  PROVE  /\ D!Known(k) <=> D!Has(k)
         /\ D!Has(k) => /\ D!PairOf(k) \in 1..Len(content)
                      /\ D!Equal(KeyIn(content, D!PairOf(k)), k)
                      /\ NameIn(entries, D!PairOf(k)) \in D!Names(k)
         /\ \A n \in 1..Len(content) : D!Equal(KeyIn(content, n), k) => D!Has(k) /\ n = D!PairOf(k)
  <1>1. /\ Sound(entries, buckets) /\ content \in Seq(Pair) /\ Len(entries) = Len(content)
        /\ \A n \in 1..Len(content) : KeyIn(entries, n) = KeyIn(content, n)
        /\ DOMAIN content = 1..Len(content)
    BY PairParts DEF DictInv, ItemsAre
  <1>2. D!Has(k) <=> \E n \in 1..Len(content) : D!Equal(KeyIn(content, n), k)
    BY <1>1, Finds
  <1>3. D!Known(k) <=> \E n \in 1..Len(content) : D!Equal(KeyIn(content, n), k)
    BY <1>1 DEF D!Known, KeyIn
  <1>4. ASSUME D!Has(k)
        PROVE  D!PairOf(k) \in 1..Len(content) /\ D!Equal(KeyIn(content, D!PairOf(k)), k)
    <2>1. \E n \in DOMAIN content : D!Equal(content[n].key, k)
      BY <1>1, <1>2, <1>4 DEF KeyIn
    <2>2. D!PairOf(k) \in DOMAIN content /\ D!Equal(content[D!PairOf(k)].key, k)
      BY <2>1 DEF D!PairOf
    <2> QED
      BY <1>1, <2>2 DEF KeyIn
  <1>5. \A n \in 1..Len(content) : D!Equal(KeyIn(content, n), k) => D!Has(k) /\ n = D!PairOf(k)
    <2> SUFFICES ASSUME NEW n \in 1..Len(content), D!Equal(KeyIn(content, n), k)
                 PROVE  D!Has(k) /\ n = D!PairOf(k)
      OBVIOUS
    <2>1. D!Has(k)
      BY <1>2
    <2>2. D!Equal(KeyIn(content, n), KeyIn(content, D!PairOf(k)))
      BY <1>4, <2>1 DEF D!Equal
    <2> QED
      BY <1>1, <1>4, <2>1, <2>2 DEF Sound
  <1>6. D!Has(k) => NameIn(entries, D!PairOf(k)) \in D!Names(k)
    BY <1>1, <1>4, Found
  <1> QED
    BY <1>2, <1>3, <1>4, <1>5, <1>6

Valued(d, c, m, v) == d = [c EXCEPT ![m].value = v]

LEMMA PairValued ==
  ASSUME NEW c \in Seq(Pair), NEW m \in 1..Len(c), NEW v \in DictValue, NEW d, Valued(d, c, m, v)
  PROVE  /\ d \in Seq(Pair) /\ Len(d) = Len(c)
         /\ \A n \in 1..Len(c) : /\ KeyIn(d, n) = KeyIn(c, n)
                                 /\ ValueIn(d, n) = IF n = m THEN v ELSE ValueIn(c, n)
  <1>1. PICK p : p = c[m]
    OBVIOUS
  <1>2. p \in Pair
    BY <1>1
  <1>3. PICK q : q = [p EXCEPT !.value = v]
    OBVIOUS
  <1>4. q \in Pair /\ q.key = p.key /\ q.value = v
    BY <1>2, <1>3 DEF Pair
  <1>5. d = [c EXCEPT ![m] = q]
    BY <1>1, <1>3 DEF Valued
  <1>6. d \in Seq(Pair) /\ Len(d) = Len(c) /\ \A n \in 1..Len(c) : d[n] = IF n = m THEN q ELSE c[n]
    BY <1>4, <1>5
  <1> QED
    BY <1>1, <1>4, <1>6 DEF KeyIn, ValueIn

Revalued(f, e, N, v) ==
  f = [n \in DOMAIN e |-> IF e[n].name \in N THEN [e[n] EXCEPT !.value = v] ELSE e[n]]

ValuesSet(f, e, N, v) ==
  \A n \in 1..Len(e) : /\ KeyIn(f, n) = KeyIn(e, n) /\ NameIn(f, n) = NameIn(e, n)
                        /\ ValueIn(f, n) = IF NameIn(e, n) \in N THEN v ELSE ValueIn(e, n)

LEMMA EntryValued ==
  ASSUME NEW e \in Seq(Entry), NEW v \in DictValue, NEW N, NEW f, Revalued(f, e, N, v)
  PROVE  f \in Seq(Entry) /\ Len(f) = Len(e) /\ ValuesSet(f, e, N, v)
  <1>1. DOMAIN e = 1..Len(e) /\ Len(e) \in Nat
    OBVIOUS
  <1>2. ASSUME NEW n \in 1..Len(e)
        PROVE  /\ f[n] \in Entry
               /\ KeyIn(f, n) = KeyIn(e, n) /\ NameIn(f, n) = NameIn(e, n)
               /\ ValueIn(f, n) = IF NameIn(e, n) \in N THEN v ELSE ValueIn(e, n)
    <2>1. PICK p : p = e[n]
      OBVIOUS
    <2>2. p \in Entry
      BY <2>1
    <2>3. PICK q : q = [p EXCEPT !.value = v]
      OBVIOUS
    <2>4. q \in Entry /\ q.key = p.key /\ q.name = p.name /\ q.value = v
      BY <2>2, <2>3 DEF Entry
    <2>5. f[n] = IF p.name \in N THEN q ELSE p
      BY <1>1, <2>1, <2>3 DEF Revalued
    <2> QED
      BY <2>1, <2>2, <2>4, <2>5 DEF KeyIn, NameIn, ValueIn
  <1>3. f = [n \in 1..Len(e) |-> f[n]]
    BY <1>1 DEF Revalued
  <1>4. f \in Seq(Entry) /\ Len(f) = Len(e)
    <2>1. \A n \in 1..Len(e) : f[n] \in Entry
      BY ONLY <1>2
    <2>2. f \in [1..Len(e) -> Entry]
      BY ONLY <1>3, <2>1
    <2> QED
      BY ONLY <1>1, <2>2
  <1> QED
    BY <1>2, <1>4 DEF ValuesSet

LEMMA SameSound ==
  ASSUME NEW e, NEW b, Sound(e, b), NEW f \in Seq(Entry), Len(f) = Len(e),
         \A n \in 1..Len(e) : KeyIn(f, n) = KeyIn(e, n) /\ NameIn(f, n) = NameIn(e, n)
  PROVE  Sound(f, b)
  <1>1. \A n \in 1..Len(f) : Stored(f, b, n)
    BY DEF Sound, Stored
  <1>2. \A h \in Hash : \A p \in 1..Len(b[h]) : b[h][p] # D!Hole => Taken(f, b, h, p)
    BY DEF Sound, Taken
  <1> QED
    BY <1>1, <1>2 DEF Sound

(* Putting a value into an item that is there, a new item, and taking one  *)
(* away, as long as the keys of the iterator are taken care of.            *)
LEMMA ValueSet ==
  ASSUME KeysHaveHashes, DictInv, NEW k \in Key, NEW v \in DictValue, D!Has(k),
         Revalued(entries', entries, D!Names(k), v), Valued(content', content, D!PairOf(k), v)
  PROVE  /\ Sound(entries', buckets) /\ ItemsAre(entries', content')
         /\ Len(content') = Len(content) /\ D!Keys(content') = D!Keys(content)
  <1> DEFINE e2 == entries'
             c2 == content'
             m == D!PairOf(k)
             len == Len(content)
  <1>1. /\ Sound(entries, buckets) /\ entries \in Seq(Entry) /\ content \in Seq(Pair)
        /\ Len(entries) = len
        /\ \A n \in 1..len : KeyIn(entries, n) = KeyIn(content, n)
                              /\ ValueIn(entries, n) = ValueIn(content, n)
    BY DEF DictInv, ItemsAre, Sound
  <1>2. m \in 1..len /\ \A n \in 1..len : n = m <=> D!Equal(KeyIn(content, n), k)
    BY KnownPairs
  <1>3. \A n \in 1..len : NameIn(entries, n) \in D!Names(k) <=> n = m
    BY <1>1, <1>2, Found
  <1> HIDE DEF m
  <1>4. /\ c2 \in Seq(Pair) /\ Len(c2) = len
        /\ \A n \in 1..len : /\ KeyIn(c2, n) = KeyIn(content, n)
                              /\ ValueIn(c2, n) = IF n = m THEN v ELSE ValueIn(content, n)
    BY <1>1, <1>2, PairValued DEF m
  <1>5. /\ e2 \in Seq(Entry) /\ Len(e2) = len
        /\ \A n \in 1..len : /\ KeyIn(e2, n) = KeyIn(entries, n) /\ NameIn(e2, n) = NameIn(entries, n)
                              /\ ValueIn(e2, n) = IF NameIn(entries, n) \in D!Names(k) THEN v
                                                  ELSE ValueIn(entries, n)
    <2>1. e2 \in Seq(Entry) /\ Len(e2) = Len(entries) /\ ValuesSet(e2, entries, D!Names(k), v)
      BY <1>1, EntryValued
    <2> QED
      BY <1>1, <2>1 DEF ValuesSet
  <1> HIDE DEF e2, c2
  <1>6. Sound(e2, buckets)
    BY <1>1, <1>5, SameSound
  <1>7. ItemsAre(e2, c2)
    BY <1>1, <1>3, <1>4, <1>5 DEF ItemsAre
  <1>8. D!Keys(c2) = D!Keys(content)
    BY <1>1, <1>4, PairParts
  <1> QED
    BY <1>4, <1>6, <1>7, <1>8 DEF e2, c2

Paired(d, c, k, v) == d = Append(c, [key |-> k, value |-> v])

LEMMA PairAppended ==
  ASSUME NEW c \in Seq(Pair), NEW k \in Key, NEW v \in DictValue, NEW d, Paired(d, c, k, v)
  PROVE  /\ d \in Seq(Pair) /\ Len(d) = Len(c) + 1
         /\ KeyIn(d, Len(c) + 1) = k /\ ValueIn(d, Len(c) + 1) = v
         /\ \A n \in 1..Len(c) : KeyIn(d, n) = KeyIn(c, n) /\ ValueIn(d, n) = ValueIn(c, n)
  <1>0. PICK r : r = [key |-> k, value |-> v]
    OBVIOUS
  <1>1. r \in Pair /\ r.key = k /\ r.value = v
    BY <1>0 DEF Pair
  <1>2. d \in Seq(Pair) /\ Len(d) = Len(c) + 1 /\ d[Len(c) + 1] = r
        /\ \A n \in 1..Len(c) : d[n] = c[n]
    BY <1>0, <1>1 DEF Paired
  <1> QED
    BY <1>1, <1>2 DEF KeyIn, ValueIn

LEMMA ItemAdded ==
  ASSUME KeysHaveHashes, DictInv, NEW k \in Key, NEW v \in DictValue, ~D!Has(k), D!Added(k, v),
         Paired(content', content, k, v)
  PROVE  /\ Sound(entries', buckets') /\ ItemsAre(entries', content')
         /\ dictSize' = Len(content') /\ dictVersion' = dictVersion + 1
  <1> DEFINE e2 == entries'
             c2 == content'
             len == Len(content)
  <1>1. /\ Sound(entries, buckets) /\ content \in Seq(Pair) /\ Len(entries) = len /\ len \in Nat
        /\ \A n \in 1..len : KeyIn(entries, n) = KeyIn(content, n)
                              /\ ValueIn(entries, n) = ValueIn(content, n)
        /\ dictSize = len
    BY DEF DictInv, ItemsAre
  <1>2. /\ Sound(e2, buckets') /\ Len(e2) = len + 1
        /\ KeyIn(e2, len + 1) = k /\ ValueIn(e2, len + 1) = v
        /\ \A n \in 1..len : KeyIn(e2, n) = KeyIn(entries, n) /\ ValueIn(e2, n) = ValueIn(entries, n)
    BY <1>1, AddedSound
  <1>3. /\ c2 \in Seq(Pair) /\ Len(c2) = len + 1
        /\ KeyIn(c2, len + 1) = k /\ ValueIn(c2, len + 1) = v
        /\ \A n \in 1..len : KeyIn(c2, n) = KeyIn(content, n) /\ ValueIn(c2, n) = ValueIn(content, n)
    BY <1>1, PairAppended
  <1>4. dictSize' = dictSize + 1 /\ dictVersion' = dictVersion + 1
    BY DEF D!Added
  <1> HIDE DEF e2, c2, len
  <1>5. \A n \in 1..(len + 1) : n \in 1..len \/ n = len + 1
    BY <1>1
  <1>6. ItemsAre(e2, c2)
    BY <1>1, <1>2, <1>3, <1>5 DEF ItemsAre
  <1> QED
    BY <1>1, <1>2, <1>3, <1>4, <1>6 DEF e2, c2

LEMMA ItemRemoved ==
  ASSUME KeysHaveHashes, DictInv, NEW k \in Key, D!Has(k), D!Removed(k),
         content' = D!RemoveAt(content, D!PairOf(k))
  PROVE  /\ Sound(entries', buckets') /\ ItemsAre(entries', content')
         /\ dictSize' = Len(content') /\ dictVersion' = dictVersion + 1
  <1> DEFINE e2 == entries'
             c2 == content'
             len == Len(content)
  <1>1. /\ Sound(entries, buckets) /\ entries \in Seq(Entry)
        /\ content \in Seq(Pair) /\ Len(entries) = len /\ len \in Nat
        /\ \A n \in 1..len : KeyIn(entries, n) = KeyIn(content, n)
                              /\ ValueIn(entries, n) = ValueIn(content, n)
        /\ dictSize = len
    BY DEF DictInv, ItemsAre, Sound
  <1>2. PICK m \in 1..len : D!Equal(KeyIn(entries, m), k) /\ Without(e2, entries, m)
    BY <1>1, RemovedSound DEF Without
  <1>3. Without(c2, content, m)
    <2>1. m = D!PairOf(k)
      BY <1>1, <1>2, KnownPairs
    <2> QED
      BY <2>1 DEF Without
  <1>4. Sound(e2, buckets')
    BY <1>1, RemovedSound
  <1>5. dictSize' = dictSize - 1 /\ dictVersion' = dictVersion + 1
    BY DEF D!Removed
  <1> HIDE DEF e2, c2
  <1>6. c2 \in Seq(Pair) /\ Len(c2) = len - 1 /\ Rest(c2, content, m)
    BY <1>1, <1>3, PartsRemoved
  <1>7. Len(e2) = len - 1 /\ Rest(e2, entries, m)
    BY <1>1, <1>2, PartsRemoved
  <1>8. ASSUME NEW n \in 1..(len - 1)
        PROVE  KeyIn(e2, n) = KeyIn(c2, n) /\ ValueIn(e2, n) = ValueIn(c2, n)
    <2>1. PICK l \in 1..len :
            /\ l = (IF n < m THEN n ELSE n + 1)
            /\ KeyIn(e2, n) = KeyIn(entries, l) /\ ValueIn(e2, n) = ValueIn(entries, l)
      BY <1>1, <1>7 DEF Rest
    <2>2. PICK j \in 1..len :
            /\ j = (IF n < m THEN n ELSE n + 1)
            /\ KeyIn(c2, n) = KeyIn(content, j) /\ ValueIn(c2, n) = ValueIn(content, j)
      BY <1>6 DEF Rest
    <2> QED
      BY <1>1, <2>1, <2>2
  <1>9. ItemsAre(e2, c2)
    BY <1>6, <1>7, <1>8 DEF ItemsAre
  <1> QED
    BY <1>1, <1>4, <1>5, <1>6, <1>9 DEF e2, c2

-----------------------------------------------------------------------------
(* The iterator. *)
LEMMA IterKept ==
  ASSUME NEW it, NEW mt, NEW v, NEW keys, Iterates(it, mt, v, keys), NEW keys2
  PROVE  Iterates(it, mt, v + 1, keys2)
  <1>1. v \in Nat /\ (it.on => it.version \in Nat /\ it.version <= v)
    BY DEF Iterates, Iterator
  <1> QED
    BY <1>1 DEF Iterates

LEMMA IterOff ==
  ASSUME NEW v \in Nat, NEW keys
  PROVE  Iterates(D!NoIterator, [given |-> <<>>, keys |-> <<>>], v, keys)
  <1>1. D!NoIterator \in Iterator /\ ~D!NoIterator.on
    BY DEF D!NoIterator, Iterator
  <1>2. [given |-> <<>>, keys |-> <<>>] \in Met
    BY DEF Met
  <1> QED
    BY <1>1, <1>2 DEF Iterates

LEMMA Given ==
  ASSUME NEW S, NEW s \in Seq(S), NEW i \in 1..Len(s)
  PROVE  Append(SubSeq(s, 1, i - 1), s[i]) = SubSeq(s, 1, i)
  <1> DEFINE a == SubSeq(s, 1, i - 1)
             b == SubSeq(s, 1, i)
             c == Append(a, s[i])
  <1>1. Len(s) \in Nat /\ i \in Nat /\ i >= 1 /\ i <= Len(s) /\ s[i] \in S
    OBVIOUS
  <1>2. /\ a \in Seq(S) /\ Len(a) = i - 1 /\ \A n \in 1..(i - 1) : a[n] = s[n]
        /\ b \in Seq(S) /\ Len(b) = i /\ \A n \in 1..i : b[n] = s[n]
    BY <1>1
  <1> HIDE DEF a, b
  <1>3. c \in Seq(S) /\ Len(c) = i /\ c[i] = s[i] /\ \A n \in 1..(i - 1) : c[n] = a[n]
    BY <1>1, <1>2
  <1> HIDE DEF c
  <1>4. \A n \in 1..i : c[n] = b[n]
    <2> SUFFICES ASSUME NEW n \in 1..i PROVE c[n] = b[n]
      OBVIOUS
    <2>1. CASE n = i
      BY <1>2, <1>3, <2>1
    <2>2. CASE n # i
      <3>1. n \in 1..(i - 1)
        BY <1>1, <2>2
      <3> QED
        BY <1>2, <1>3, <3>1
    <2> QED
      BY <2>1, <2>2
  <1>5. c = b
    BY <1>2, <1>3, <1>4, SeqEqual
  <1> QED
    BY <1>5 DEF a, b, c

LEMMA SameKeys ==
  ASSUME NEW e \in Seq(Entry), NEW c, ItemsAre(e, c)
  PROVE  D!Keys(e) = D!Keys(c) /\ D!Keys(c) \in Seq(Key) /\ Len(D!Keys(c)) = Len(e)
  <1>1. /\ c \in Seq(Pair) /\ DOMAIN e = 1..Len(c) /\ Len(c) = Len(e)
        /\ \A n \in 1..Len(c) : KeyIn(e, n) = KeyIn(c, n)
    BY DEF ItemsAre
  <1>2. D!Keys(e) = [n \in 1..Len(c) |-> KeyIn(e, n)]
    BY <1>1 DEF D!Keys, KeyIn
  <1> QED
    BY <1>1, <1>2, PairParts

LEMMA StartStep ==
  ASSUME DictInv, D!Start
  PROVE  Iterates(iterator', met', dictVersion, D!Keys(content))
  <1> DEFINE keys == D!Keys(content)
             it == iterator'
             mt == met'
  <1>1. /\ entries \in Seq(Entry) /\ ItemsAre(entries, content) /\ dictSize \in Nat /\ dictVersion \in Nat
        /\ Len(entries) \in Nat
    BY DEF DictInv, Sound, ItemsAre, Iterates
  <1>2. D!Keys(entries) = keys /\ keys \in Seq(Key) /\ Len(keys) = Len(entries)
    BY <1>1, SameKeys
  <1>3. /\ it = [on |-> TRUE, names |-> D!Keys(entries), size |-> dictSize,
                 version |-> dictVersion, index |-> 2]
        /\ mt = [given |-> <<entries[1].key>>, keys |-> keys]
        /\ entries # <<>>
    BY DEF D!Start
  <1>4. entries[1].key = keys[1] /\ 1 \in 1..Len(keys) /\ keys[1] \in Key
    <2>1. 1 \in DOMAIN entries /\ DOMAIN entries = 1..Len(entries)
      BY <1>1, <1>3
    <2>2. D!Keys(entries)[1] = entries[1].key
      BY <2>1 DEF D!Keys
    <2> QED
      BY <1>2, <2>1, <2>2
  <1> HIDE DEF keys, it, mt
  <1>5. /\ it \in Iterator /\ it.on /\ it.names = keys /\ it.version = dictVersion /\ it.index = 2
    BY <1>1, <1>2, <1>3 DEF Iterator
  <1>6. mt \in Met /\ mt.given = <<keys[1]>> /\ mt.keys = keys
    BY <1>2, <1>3, <1>4 DEF Met
  <1>7. SubSeq(keys, 1, 2 - 1) = <<keys[1]>>
    <2>1. Append(SubSeq(keys, 1, 1 - 1), keys[1]) = SubSeq(keys, 1, 1)
      BY <1>2, <1>4, Given
    <2>2. SubSeq(keys, 1, 1 - 1) = <<>>
      BY <1>2
    <2>3. PICK k : k = keys[1]
      OBVIOUS
    <2>4. Append(<<>>, k) = <<k>>
      OBVIOUS
    <2>5. 2 - 1 = 1
      OBVIOUS
    <2> QED
      BY <2>1, <2>2, <2>3, <2>4, <2>5
  <1>8. Len(keys) \in Nat /\ 2 <= Len(keys) + 1
    BY <1>2, <1>4
  <1> QED
    BY <1>1, <1>5, <1>6, <1>7, <1>8 DEF Iterates, it, mt, keys

LEMMA IterNextStep ==
  ASSUME DictInv, D!IterNext
  PROVE  Iterates(iterator', met', dictVersion, D!Keys(content))
  <1> DEFINE keys == D!Keys(content)
             it == iterator'
             mt == met'
  <1>1. Iterates(iterator, met, dictVersion, keys)
    BY DEF DictInv
  <1>2. PICK i : i = iterator.index
    OBVIOUS
  <1>3. PICK s : s = iterator.names
    OBVIOUS
  <1>4. PICK g : g = met.given
    OBVIOUS
  <1>5. /\ iterator \in Iterator /\ met \in Met /\ i \in Nat /\ s \in Seq(Key) /\ g \in Seq(Key)
        /\ iterator.on /\ i <= Len(s)
    BY <1>1, <1>2, <1>3, <1>4 DEF Iterates, Iterator, Met, D!IterNext
  <1>6. iterator.version <= dictVersion /\ 2 <= i /\ g = SubSeq(s, 1, i - 1)
        /\ (iterator.version = dictVersion => s = keys /\ met.keys = keys) /\ dictVersion \in Nat
    BY <1>1, <1>2, <1>3, <1>4, <1>5 DEF Iterates
  <1>7. PICK i2 : i2 = i + 1
    OBVIOUS
  <1>8. PICK g2 : g2 = Append(g, s[i])
    OBVIOUS
  <1>9. it = [iterator EXCEPT !.index = i2] /\ mt = [met EXCEPT !.given = g2]
    BY <1>2, <1>3, <1>4, <1>7, <1>8 DEF D!IterNext
  <1>10. i2 \in Nat /\ i \in 1..Len(s) /\ s[i] \in Key /\ Len(s) \in Nat
    BY <1>5, <1>6, <1>7
  <1>11. g2 \in Seq(Key)
    BY <1>5, <1>8, <1>10
  <1>12. g2 = SubSeq(s, 1, i)
    BY <1>5, <1>6, <1>8, <1>10, Given
  <1> HIDE DEF it, mt, keys
  <1>13. it \in Iterator /\ it.on /\ it.names = s /\ it.version = iterator.version /\ it.index = i2
    BY <1>3, <1>5, <1>9, <1>10 DEF Iterator
  <1>14. mt \in Met /\ mt.given = g2 /\ mt.keys = met.keys
    BY <1>5, <1>9, <1>11 DEF Met
  <1>15. 2 <= i2 /\ i2 <= Len(s) + 1 /\ i2 - 1 = i
    BY <1>5, <1>6, <1>7, <1>10
  <1> QED
    BY <1>6, <1>12, <1>13, <1>14, <1>15 DEF Iterates, it, mt, keys

-----------------------------------------------------------------------------
LEMMA DictInit ==
  ASSUME D!Init
  PROVE  DictInv
  <1>1. entries \in Seq(Entry) /\ Len(entries) = 0 /\ content \in Seq(Pair) /\ Len(content) = 0
    BY DEF D!Init
  <1>2. buckets \in [Hash -> Bucket] /\ \A h \in Hash : Len(buckets[h]) = 0
    BY DEF D!Init, Hash, Bucket
  <1>3. Sound(entries, buckets)
    BY <1>1, <1>2 DEF Sound
  <1>4. ItemsAre(entries, content)
    BY <1>1 DEF ItemsAre
  <1>5. Iterates(iterator, met, dictVersion, D!Keys(content))
    <2>1. 0 \in Nat
      OBVIOUS
    <2>2. iterator = D!NoIterator /\ met = [given |-> <<>>, keys |-> <<>>] /\ dictVersion = 0
      BY DEF D!Init
    <2> QED
      BY <2>1, <2>2, IterOff
  <1> QED
    BY <1>1, <1>3, <1>4, <1>5 DEF DictInv, D!Init

LEMMA SetItemStep ==
  ASSUME KeysHaveHashes, DictInv, D!SetItem
  PROVE  DictInv'
  <1>1. PICK k \in Key, v \in DictValue :
          /\ \/ /\ D!Has(k)
                /\ Revalued(entries', entries, D!Names(k), v)
                /\ UNCHANGED <<buckets, dictSize, dictVersion>>
             \/ /\ ~D!Has(k) /\ D!MayAdd(k)
                /\ D!Added(k, v)
          /\ content' = IF D!Known(k) THEN [content EXCEPT ![D!PairOf(k)].value = v]
                        ELSE Append(content, [key |-> k, value |-> v])
          /\ UNCHANGED <<iterator, met>>
    BY DEF D!SetItem, Revalued
  <1>2. D!Known(k) <=> D!Has(k)
    BY KnownPairs
  <1>3. Iterates(iterator, met, dictVersion, D!Keys(content)) /\ dictSize = Len(content)
    BY DEF DictInv
  <1>4. CASE D!Has(k)
    <2>1. Valued(content', content, D!PairOf(k), v) /\ Revalued(entries', entries, D!Names(k), v)
      BY <1>1, <1>2, <1>4 DEF Valued
    <2>2. /\ Sound(entries', buckets) /\ ItemsAre(entries', content')
          /\ Len(content') = Len(content) /\ D!Keys(content') = D!Keys(content)
      BY <1>4, <2>1, ValueSet
    <2>3. buckets' = buckets /\ dictSize' = dictSize /\ dictVersion' = dictVersion /\ iterator' = iterator /\ met' = met
      BY <1>1, <1>4
    <2> QED
      BY <1>3, <2>2, <2>3 DEF DictInv
  <1>5. CASE ~D!Has(k)
    <2>1. D!Added(k, v) /\ Paired(content', content, k, v)
      BY <1>1, <1>2, <1>5 DEF Paired
    <2>2. /\ Sound(entries', buckets') /\ ItemsAre(entries', content')
          /\ dictSize' = Len(content') /\ dictVersion' = dictVersion + 1
      BY <1>5, <2>1, ItemAdded
    <2>3. Iterates(iterator, met, dictVersion + 1, D!Keys(content'))
      BY <1>3, IterKept
    <2> QED
      BY <1>1, <2>2, <2>3 DEF DictInv
  <1> QED
    BY <1>4, <1>5

LEMMA SetDefaultStep ==
  ASSUME KeysHaveHashes, DictInv, D!SetDefault
  PROVE  DictInv'
  <1>1. PICK k \in Key, v \in DictValue :
          /\ ~D!Has(k) /\ D!Added(k, v)
          /\ content' = IF D!Known(k) THEN content ELSE Append(content, [key |-> k, value |-> v])
          /\ UNCHANGED <<iterator, met>>
    BY DEF D!SetDefault
  <1>2. ~D!Known(k)
    BY <1>1, KnownPairs
  <1>3. Paired(content', content, k, v)
    BY <1>1, <1>2 DEF Paired
  <1>4. /\ Sound(entries', buckets') /\ ItemsAre(entries', content')
        /\ dictSize' = Len(content') /\ dictVersion' = dictVersion + 1
    BY <1>1, <1>3, ItemAdded
  <1>5. Iterates(iterator, met, dictVersion + 1, D!Keys(content'))
    BY IterKept DEF DictInv
  <1> QED
    BY <1>1, <1>4, <1>5 DEF DictInv

LEMMA PopItemStep ==
  ASSUME KeysHaveHashes, DictInv, D!PopItem
  PROVE  DictInv'
  <1>1. PICK k \in Key :
          D!Has(k) /\ D!Removed(k) /\ content' = D!RemoveAt(content, D!PairOf(k)) /\ UNCHANGED <<iterator, met>>
    BY DEF D!PopItem
  <1>2. /\ Sound(entries', buckets') /\ ItemsAre(entries', content')
        /\ dictSize' = Len(content') /\ dictVersion' = dictVersion + 1
    BY <1>1, ItemRemoved
  <1>3. Iterates(iterator, met, dictVersion + 1, D!Keys(content'))
    BY IterKept DEF DictInv
  <1> QED
    BY <1>1, <1>2, <1>3 DEF DictInv

LEMMA DictClearStep ==
  ASSUME DictInv, D!DictClear
  PROVE  DictInv'
  <1>1. /\ entries' = <<>> /\ content' = <<>> /\ dictSize' = 0 /\ dictVersion' = dictVersion + 1
        /\ buckets' = [h \in Hash |-> <<>>] /\ iterator' = iterator /\ met' = met
    BY DEF D!DictClear, DictInv, Sound
  <1>2. entries' \in Seq(Entry) /\ Len(entries') = 0 /\ content' \in Seq(Pair) /\ Len(content') = 0
    BY <1>1
  <1>3. buckets' \in [Hash -> Bucket] /\ \A h \in Hash : Len(buckets'[h]) = 0
    BY <1>1 DEF Bucket
  <1>4. Sound(entries', buckets')
    BY <1>2, <1>3 DEF Sound
  <1>5. ItemsAre(entries', content')
    BY <1>2 DEF ItemsAre
  <1>6. Iterates(iterator, met, dictVersion + 1, D!Keys(content'))
    BY IterKept DEF DictInv
  <1> QED
    BY <1>1, <1>2, <1>4, <1>5, <1>6 DEF DictInv

(* A copy has the buckets of the dict, which are all used. *)
LEMMA DictCopyStep ==
  ASSUME KeysHaveHashes, DictInv, D!DictCopy
  PROVE  DictInv'
  <1>1. /\ entries' = entries /\ dictSize' = dictSize /\ dictVersion' = 0 /\ content' = content
        /\ iterator' = D!NoIterator /\ met' = [given |-> <<>>, keys |-> <<>>]
    BY DEF D!DictCopy
  <1>2. Sound(entries, buckets) /\ ItemsAre(entries, content) /\ dictSize = Len(content)
    BY DEF DictInv
  <1>3. buckets \in [Hash -> Bucket] /\ entries \in Seq(Entry) /\ DOMAIN entries = 1..Len(entries)
    BY <1>2 DEF Sound
  <1>4. ASSUME NEW h \in Hash, NEW p \in 1..Len(buckets[h])
        PROVE  buckets[h][p] = IF D!Position(D!InPlace(h, p)) = {} THEN D!Hole
                               ELSE entries[CHOOSE m \in D!Position(D!InPlace(h, p)) : TRUE].key
    <2> DEFINE P == D!Position(D!InPlace(h, p))
               c == CHOOSE m \in P : TRUE
    <2>0. p # 0 /\ P = {n \in 1..Len(entries) : NameIn(entries, n) = D!InPlace(h, p)}
      BY <1>3 DEF D!Position, NameIn
    <2>1. ASSUME NEW n \in P
          PROVE  buckets[h][p] # D!Hole /\ KeyIn(entries, n) = buckets[h][p]
      <3>1. n \in 1..Len(entries) /\ NameIn(entries, n) = D!InPlace(h, p)
        BY <2>0, <2>1
      <3>2. Stored(entries, buckets, n) /\ KeyIn(entries, n) \in Key
        BY <1>2, <1>3, <3>1, EntryParts DEF Sound
      <3>3. KeyIn(entries, n) = buckets[h][p]
        BY <2>0, <3>1, <3>2, NamesDiffer DEF Stored
      <3> QED
        BY <3>2, <3>3 DEF KeysHaveHashes
    <2>2. P = {} => buckets[h][p] = D!Hole
      <3> SUFFICES ASSUME buckets[h][p] # D!Hole PROVE P # {}
        OBVIOUS
      <3>1. Taken(entries, buckets, h, p)
        BY <1>2 DEF Sound
      <3> QED
        BY <2>0, <3>1 DEF Taken
    <2>3. P # {} => c \in P
      OBVIOUS
    <2> HIDE DEF P, c
    <2>4. CASE P = {}
      BY <2>2, <2>4 DEF P
    <2>5. CASE P # {}
      <3>1. KeyIn(entries, c) = buckets[h][p]
        BY <2>1, <2>3, <2>5
      <3> QED
        BY <2>5, <3>1 DEF P, c, KeyIn
    <2> QED
      BY <2>4, <2>5
  <1>5. buckets' = buckets
    <2> DEFINE same(h) == [n \in DOMAIN buckets[h] |->
                             IF D!Position(D!InPlace(h, n)) = {} THEN D!Hole
                             ELSE entries[CHOOSE m \in D!Position(D!InPlace(h, n)) : TRUE].key]
    <2>1. buckets' = [h \in Hash |-> same(h)]
      BY <1>3 DEF D!DictCopy
    <2>2. ASSUME NEW h \in Hash PROVE same(h) = buckets[h]
      <3>1. buckets[h] \in Seq(Key \cup {D!Hole}) /\ DOMAIN buckets[h] = 1..Len(buckets[h])
        BY <1>3 DEF Bucket
      <3>2. \A p \in DOMAIN buckets[h] : same(h)[p] = buckets[h][p]
        BY <1>4, <3>1
      <3>3. same(h) = [n \in DOMAIN buckets[h] |-> same(h)[n]]
        OBVIOUS
      <3> HIDE DEF same
      <3>4. buckets[h] = [n \in DOMAIN buckets[h] |-> buckets[h][n]]
        BY <3>1
      <3> QED
        BY <3>2, <3>3, <3>4
    <2> HIDE DEF same
    <2> QED
      BY <1>3, <2>1, <2>2
  <1>6. Iterates(iterator', met', dictVersion', D!Keys(content'))
    <2>1. 0 \in Nat
      OBVIOUS
    <2> QED
      BY <1>1, <2>1, IterOff
  <1> QED
    BY <1>1, <1>2, <1>5, <1>6 DEF DictInv

LEMMA DictNext ==
  ASSUME KeysHaveHashes, DictInv, [D!Next]_D!vars
  PROVE  DictInv'
  <1>1. CASE D!SetItem
    BY <1>1, SetItemStep
  <1>2. CASE D!SetDefault
    BY <1>2, SetDefaultStep
  <1>3. CASE D!PopItem
    BY <1>3, PopItemStep
  <1>4. CASE D!DictClear
    BY <1>4, DictClearStep
  <1>5. CASE D!DictCopy
    BY <1>5, DictCopyStep
  <1>6. CASE D!Start
    BY <1>6, StartStep DEF D!Start, DictInv
  <1>7. CASE D!IterNext
    BY <1>7, IterNextStep DEF D!IterNext, DictInv
  <1>8. CASE D!IterEnd
    <2>1. /\ iterator' = D!NoIterator /\ met' = [given |-> <<>>, keys |-> <<>>]
          /\ entries' = entries /\ buckets' = buckets /\ dictSize' = dictSize /\ dictVersion' = dictVersion
          /\ content' = content
      BY <1>8 DEF D!IterEnd
    <2>2. dictVersion \in Nat
      BY DEF DictInv, Iterates
    <2>3. Iterates(iterator', met', dictVersion, D!Keys(content))
      BY <2>1, <2>2, IterOff
    <2> QED
      BY <2>1, <2>3 DEF DictInv
  <1>9. CASE UNCHANGED D!vars
    BY <1>9 DEF D!vars, DictInv
  <1> QED
    BY <1>1, <1>2, <1>3, <1>4, <1>5, <1>6, <1>7, <1>8, <1>9 DEF D!Next

LEMMA DictKeeps ==
  ASSUME KeysHaveHashes, DictInv
  PROVE  D!DictsKeepItems
  <1>1. /\ Sound(entries, buckets) /\ entries \in Seq(Entry) /\ ItemsAre(entries, content)
        /\ content \in Seq(Pair) /\ DOMAIN entries = 1..Len(content) /\ DOMAIN content = 1..Len(content)
        /\ dictSize = Len(content) /\ Len(content) \in Nat
    BY DEF DictInv, Sound, ItemsAre
  <1>2. [n \in DOMAIN entries |-> [key |-> entries[n].key, value |-> entries[n].value]] = content
    <2>1. ASSUME NEW n \in 1..Len(content)
          PROVE  [key |-> entries[n].key, value |-> entries[n].value] = content[n]
      <3>1. content[n] \in Pair
        BY <1>1
      <3>2. content[n].key = entries[n].key /\ content[n].value = entries[n].value
        BY <1>1 DEF ItemsAre, KeyIn, ValueIn
      <3>3. content[n] = [key |-> content[n].key, value |-> content[n].value]
        BY <3>1 DEF Pair
      <3> QED
        BY <3>2, <3>3
    <2>2. content = [n \in 1..Len(content) |-> content[n]]
      BY <1>1
    <2> QED
      BY <1>1, <2>1, <2>2
  <1>3. \A k \in Key : /\ D!Has(k) <=> D!Known(k)
                       /\ D!Has(k) => entries[D!PairOf(k)].name \in D!Names(k)
    <2> SUFFICES ASSUME NEW k \in Key
                 PROVE  (D!Has(k) <=> D!Known(k)) /\ (D!Has(k) => NameIn(entries, D!PairOf(k)) \in D!Names(k))
      BY DEF NameIn
    <2> QED
      BY KnownPairs
  <1>4. D!MeetsKeys
    <2> SUFFICES ASSUME iterator.on, ~D!Changed
                 PROVE  /\ met.given = SubSeq(D!Keys(content), 1, Len(met.given))
                        /\ D!Keys(content) = met.keys
      BY DEF D!MeetsKeys
    <2>1. PICK i : i = iterator.index
      OBVIOUS
    <2>2. PICK s : s = iterator.names
      OBVIOUS
    <2>3. Iterates(iterator, met, dictVersion, D!Keys(content)) /\ iterator.version = dictVersion
      BY DEF DictInv, D!Changed
    <2>4. /\ i \in Nat /\ s \in Seq(Key) /\ 2 <= i /\ i <= Len(s) + 1
          /\ met.given = SubSeq(s, 1, i - 1) /\ s = D!Keys(content) /\ met.keys = D!Keys(content)
      BY <2>1, <2>2, <2>3 DEF Iterates, Iterator
    <2>5. Len(SubSeq(s, 1, i - 1)) = i - 1
      BY <2>4
    <2> QED
      BY <2>4, <2>5
  <1> QED
    <2>1. D!HasContent
      BY <1>1, <1>2, <1>3 DEF D!HasContent
    <2> QED
      BY <1>4, <2>1 DEF D!DictsKeepItems

(* A dict always has the pairs that were put into it, in that order, and   *)
(* finds each by any key equal to its own, though keys share hashes and    *)
(* buckets have holes; and an iterator that has not raised has met the     *)
(* keys of the dict, in order (dict.js).                                   *)
THEOREM DictsAlwaysKeepItems == D!Spec => []DictsKeepItems
  <1>0. KeysHaveHashes
    BY ProgramAssumption
  <1>1. D!Init => DictInv
    BY DictInit
  <1>2. DictInv /\ [D!Next]_D!vars => DictInv'
    BY <1>0, DictNext
  <1>3. DictInv => D!DictsKeepItems
    BY <1>0, DictKeeps
  <1> QED
    BY <1>1, <1>2, <1>3, PTL DEF D!Spec, DictsKeepItems

-----------------------------------------------------------------------------
(* Deques (Deques).                                                        *)

(* Places in an array of c places, of which the last one is before the     *)
(* first.                                                                  *)
Round(a, c) == IF a < 0 THEN a + c ELSE IF a < c THEN a ELSE a - c

LEMMA Modulo ==
  ASSUME NEW c \in Nat \ {0}, NEW a \in Int, NEW q \in Int, NEW r \in 0..(c - 1), a = c * q + r
  PROVE  a % c = r
  <1> DEFINE p == a \div c
             m == a % c
  <1>1. p \in Int /\ m \in 0..(c - 1) /\ a = c * p + m
    OBVIOUS
  <1> HIDE DEF p, m
  <1>2. ~(p > q)
    <2>1. SUFFICES ASSUME p >= q + 1 PROVE FALSE
      BY <1>1
    <2>2. c * p >= c * (q + 1) /\ c * (q + 1) = c * q + c
      BY <1>1, <2>1
    <2> QED
      BY <1>1, <2>2
  <1>3. ~(p < q)
    <2>1. SUFFICES ASSUME q >= p + 1 PROVE FALSE
      BY <1>1
    <2>2. c * q >= c * (p + 1) /\ c * (p + 1) = c * p + c
      BY <1>1, <2>1
    <2> QED
      BY <1>1, <2>2
  <1>4. p = q
    BY <1>1, <1>2, <1>3
  <1> QED
    BY <1>1, <1>4 DEF m

LEMMA Rounds ==
  ASSUME NEW c \in Nat \ {0}, NEW a \in (-c)..(2 * c - 1)
  PROVE  a % c = Round(a, c) /\ Round(a, c) \in 0..(c - 1)
  <1>1. CASE a < 0
    <2>1. a = c * (-1) + (a + c) /\ a + c \in 0..(c - 1) /\ a \in Int
      BY <1>1
    <2> QED
      BY <1>1, <2>1, Modulo DEF Round
  <1>2. CASE a >= 0 /\ a < c
    <2>1. a = c * 0 + a /\ a \in 0..(c - 1) /\ a \in Int
      BY <1>2
    <2> QED
      BY <1>2, <2>1, Modulo DEF Round
  <1>3. CASE a >= c
    <2>1. a = c * 1 + (a - c) /\ a - c \in 0..(c - 1) /\ a \in Int
      BY <1>3
    <2> QED
      BY <1>3, <2>1, Modulo DEF Round
  <1> QED
    BY <1>1, <1>2, <1>3

LEMMA ModuloAdds ==
  ASSUME NEW c \in Nat \ {0}, NEW a \in Int, NEW b \in Int
  PROVE  ((a % c) + b) % c = (a + b) % c
  <1> DEFINE p == a \div c
             m == a % c
             q == (m + b) \div c
             n == (m + b) % c
  <1>1. p \in Int /\ m \in 0..(c - 1) /\ a = c * p + m
    OBVIOUS
  <1> HIDE DEF p, m
  <1>2. m + b \in Int
    BY <1>1
  <1>3. q \in Int /\ n \in 0..(c - 1) /\ m + b = c * q + n
    BY <1>2
  <1> HIDE DEF q, n
  <1>4. c * (p + q) = c * p + c * q /\ p + q \in Int /\ a + b \in Int /\ c * p \in Int /\ c * q \in Int
    BY <1>1, <1>3
  <1>5. a + b = c * (p + q) + n
    BY <1>1, <1>3, <1>4
  <1>6. (a + b) % c = n
    BY <1>3, <1>4, <1>5, Modulo
  <1> QED
    BY <1>6 DEF n, m

-----------------------------------------------------------------------------
(* What deques hold.                                                       *)

Places(c) == 0..(c - 1)
HeldItem == DequeItem \cup {Q!Undefined}
Deque(v, c, h, t) == [v |-> v, cap |-> c, head |-> h, tail |-> t]

(* The array of e has the items of s from its head to its tail; it may be  *)
(* full.                                                                   *)
Array(v, c, h, t, s) ==
  /\ c \in Nat \ {0} /\ h \in Places(c) /\ t \in Places(c)
  /\ v \in [Places(c) -> HeldItem]
  /\ s \in Seq(DequeItem) /\ Len(s) <= c
  /\ t = Round(h + Len(s), c)
  /\ \A j \in 0..(Len(s) - 1) : v[Round(h + j, c)] = s[j + 1]
Fills(e, s) == e = Deque(e.v, e.cap, e.head, e.tail) /\ Array(e.v, e.cap, e.head, e.tail, s)
Holds(e, s) == Fills(e, s) /\ Len(s) < e.cap

LEMMA DequeIs ==
  ASSUME NEW v, NEW c, NEW h, NEW t
  PROVE  LET e == Deque(v, c, h, t)
         IN /\ e.v = v /\ e.cap = c /\ e.head = h /\ e.tail = t
            /\ \A s : Array(v, c, h, t, s) => Fills(e, s)
  BY DEF Deque, Fills

LEMMA SizeIs ==
  ASSUME NEW e, NEW s, Holds(e, s)
  PROVE  Q!Size(e) = Len(s) /\ Q!Contents(e) = s /\ Len(s) \in Nat
  <1> DEFINE c == e.cap
             h == e.head
             n == Len(s)
  <1>1. /\ c \in Nat \ {0} /\ h \in 0..(c - 1) /\ n \in Nat /\ n < c
        /\ e.tail = Round(h + n, c) /\ e.tail \in 0..(c - 1) /\ s \in Seq(DequeItem)
        /\ \A j \in 0..(n - 1) : e.v[Round(h + j, c)] = s[j + 1]
    BY DEF Holds, Fills, Array, Places
  <1> HIDE DEF c, h, n
  <1>2. e.tail - h \in (-c)..(2 * c - 1) /\ Round(e.tail - h, c) = n
    BY <1>1 DEF Round
  <1>3. Q!Size(e) = n
    BY <1>1, <1>2, Rounds DEF Q!Size, c, h
  <1>4. ASSUME NEW k \in 1..n PROVE e.v[Q!At(e, h + k - 1)] = s[k]
    <2>1. /\ k - 1 \in 0..(n - 1) /\ h + k - 1 = h + (k - 1) /\ h + (k - 1) \in (-c)..(2 * c - 1)
          /\ (k - 1) + 1 = k
      BY <1>1
    <2>2. Q!At(e, h + k - 1) = Round(h + (k - 1), c)
      BY <1>1, <2>1, Rounds DEF Q!At, c
    <2> QED
      BY <1>1, <2>1, <2>2
  <1>5. Q!Contents(e) = [k \in 1..n |-> s[k]]
    BY <1>3, <1>4 DEF Q!Contents, h
  <1>6. s = [k \in 1..n |-> s[k]]
    BY <1>1 DEF n
  <1> QED
    BY <1>1, <1>3, <1>5, <1>6 DEF n

(* An array that is cut or lengthened has the same items, if there is room *)
(* for them.                                                               *)
LEMMA ResizeKeeps ==
  ASSUME NEW e, NEW s, Fills(e, s), NEW len \in Nat \ {0}, Len(s) < len
  PROVE  Holds(Q!Resize(e, Len(s), len), s)
  <1> DEFINE c == e.cap
             h == e.head
             n == Len(s)
             w == [k \in 0..(len - 1) |->
                     IF h = 0 THEN (IF k < c THEN e.v[k] ELSE Q!Undefined)
                     ELSE IF k < n THEN e.v[Q!At(e, h + k)] ELSE Q!Undefined]
  <1>1. /\ c \in Nat \ {0} /\ h \in 0..(c - 1) /\ n \in Nat /\ n <= c /\ n < len
        /\ e.v \in [0..(c - 1) -> HeldItem] /\ s \in Seq(DequeItem)
        /\ \A j \in 0..(n - 1) : e.v[Round(h + j, c)] = s[j + 1]
    BY DEF Fills, Array, Places
  <1>2. Q!Resize(e, n, len) = Deque(w, len, 0, n)
    BY DEF Q!Resize, Deque
  <1>3. \A k \in 0..(c - 1) : Q!At(e, h + k) = Round(h + k, c) /\ Round(h + k, c) \in 0..(c - 1)
    <2> SUFFICES ASSUME NEW k \in 0..(c - 1)
                 PROVE  Q!At(e, h + k) = Round(h + k, c) /\ Round(h + k, c) \in 0..(c - 1)
      OBVIOUS
    <2>1. h + k \in (-c)..(2 * c - 1)
      BY <1>1
    <2> QED
      BY <1>1, <2>1, Rounds DEF Q!At
  <1>4. w \in [0..(len - 1) -> HeldItem]
    <2> SUFFICES ASSUME NEW k \in 0..(len - 1)
                 PROVE  (IF h = 0 THEN (IF k < c THEN e.v[k] ELSE Q!Undefined)
                         ELSE IF k < n THEN e.v[Q!At(e, h + k)] ELSE Q!Undefined) \in HeldItem
      OBVIOUS
    <2>1. Q!Undefined \in HeldItem
      BY DEF HeldItem
    <2>2. k < n => Q!At(e, h + k) \in 0..(c - 1)
      <3>1. k < n => k \in 0..(c - 1)
        BY <1>1
      <3> QED
        BY <3>1, <1>3
    <2>3. k < c => k \in 0..(c - 1)
      BY <1>1
    <2> HIDE DEF c, h, n
    <2> QED
      BY <1>1, <2>1, <2>2, <2>3
  <1>5. ASSUME NEW j \in 0..(n - 1) PROVE w[Round(0 + j, len)] = s[j + 1]
    <2>1. Round(0 + j, len) = j /\ j \in 0..(len - 1) /\ j \in 0..(c - 1)
      BY <1>1 DEF Round
    <2>2. h = 0 => Round(h + j, c) = j
      BY <1>1, <2>1 DEF Round
    <2>3. w[j] = e.v[Round(h + j, c)]
      BY <1>1, <1>3, <2>1, <2>2, SMTT(20)
    <2> QED
      BY <1>1, <2>1, <2>3
  <1>6. n = Round(0 + n, len) /\ n \in 0..(len - 1) /\ 0 \in 0..(len - 1)
    BY <1>1 DEF Round
  <1> HIDE DEF w, c, h
  <1>7. Array(w, len, 0, n, s)
    BY <1>1, <1>4, <1>5, <1>6 DEF Array, Places, n
  <1>8. Q!Resize(e, n, len).cap = len /\ Fills(Q!Resize(e, n, len), s)
    BY <1>2, <1>7, DequeIs
  <1> QED
    BY <1>1, <1>8 DEF Holds, n

LEMMA GrownKeeps ==
  ASSUME NEW e, NEW s, Fills(e, s), Len(s) > 0
  PROVE  Holds(Q!Grown(e), s)
  <1>1. /\ e.cap \in Nat \ {0} /\ e.head \in 0..(e.cap - 1) /\ Len(s) \in Nat /\ Len(s) <= e.cap
        /\ e.tail = Round(e.head + Len(s), e.cap)
    BY DEF Fills, Array, Places
  <1>2. CASE e.head = e.tail
    <2>1. Len(s) = e.cap
      BY <1>1, <1>2 DEF Round
    <2>2. 2 * e.cap \in Nat \ {0} /\ Len(s) < 2 * e.cap
      BY <1>1, <2>1
    <2>3. Holds(Q!Resize(e, Len(s), 2 * e.cap), s)
      BY <2>2, ResizeKeeps
    <2> QED
      BY <1>2, <2>1, <2>3 DEF Q!Grown
  <1>3. CASE e.head # e.tail
    <2>1. Len(s) # e.cap
      BY <1>1, <1>3 DEF Round
    <2> QED
      BY <1>1, <1>3, <2>1 DEF Q!Grown, Holds
  <1> QED
    BY <1>2, <1>3

LEMMA ShrunkKeeps ==
  ASSUME NEW e, NEW s, Holds(e, s)
  PROVE  Holds(Q!Shrunk(e), s)
  <1>1. e.cap \in Nat \ {0} /\ Len(s) \in Nat /\ Q!Size(e) = Len(s) /\ Fills(e, s)
    BY SizeIs DEF Holds, Fills, Array
  <1>2. CASE Q!TooFew(e, Q!Size(e))
    <2>1. Len(s) < (e.cap - 1) \div 2
      BY <1>1, <1>2 DEF Q!TooFew
    <2>2. e.cap \div 2 \in Nat \ {0} /\ Len(s) < e.cap \div 2
      BY <1>1, <2>1
    <2> QED
      BY <1>1, <1>2, <2>2, ResizeKeeps DEF Q!Shrunk
  <1>3. CASE ~Q!TooFew(e, Q!Size(e))
    BY <1>3 DEF Q!Shrunk
  <1> QED
    BY <1>2, <1>3

-----------------------------------------------------------------------------
(* Items at the ends.                                                      *)

LEMMA AtIs ==
  ASSUME NEW e, e.cap \in Nat \ {0}, NEW a \in (-e.cap)..(2 * e.cap - 1)
  PROVE  Q!At(e, a) = Round(a, e.cap) /\ Round(a, e.cap) \in 0..(e.cap - 1)
  BY Rounds DEF Q!At

(* Going round twice. *)
LEMMA RoundTwice ==
  ASSUME NEW c \in Nat \ {0}, NEW a \in (-c)..(2 * c - 1), NEW b \in Int, a + b \in (-c)..(2 * c - 1),
         Round(a, c) + b \in (-c)..(2 * c - 1)
  PROVE  Round(Round(a, c) + b, c) = Round(a + b, c)
  BY DEF Round

LEMMA PartIs ==
  ASSUME NEW s \in Seq(DequeItem), NEW m \in Nat \ {0}, NEW n \in 0..Len(s)
  PROVE  /\ SubSeq(s, m, n) \in Seq(DequeItem)
         /\ Len(SubSeq(s, m, n)) = IF m <= n THEN n - m + 1 ELSE 0
         /\ \A i \in 1..(n - m + 1) : SubSeq(s, m, n)[i] = s[m + i - 1]
  <1>1. \A i \in m..n : s[i] \in DequeItem
    OBVIOUS
  <1> QED
    BY <1>1, SubSeqProperties

(* An item changed, and an end moved. *)
TailMoved(e, a, x, b) == [e EXCEPT !.v[a] = x, !.tail = b]
HeadMoved(e, a, x, b) == [e EXCEPT !.v[a] = x, !.head = b]

LEMMA TailMoves ==
  ASSUME NEW e, e = Deque(e.v, e.cap, e.head, e.tail)
  PROVE  \A a, x, b : TailMoved(e, a, x, b) = Deque([e.v EXCEPT ![a] = x], e.cap, e.head, b)
  <1> TAKE a, x, b
  <1> DEFINE w == [e.v EXCEPT ![a] = x]
             f == [e EXCEPT !.v[a] = x]
  <1>1. f = Deque(w, e.cap, e.head, e.tail)
    BY DEF Deque
  <1> HIDE DEF w, f
  <1>2. [f EXCEPT !.tail = b] = Deque(w, e.cap, e.head, b)
    BY <1>1 DEF Deque
  <1> QED
    BY <1>2 DEF w, f, TailMoved

LEMMA HeadMoves ==
  ASSUME NEW e, e = Deque(e.v, e.cap, e.head, e.tail)
  PROVE  \A a, x, b : HeadMoved(e, a, x, b) = Deque([e.v EXCEPT ![a] = x], e.cap, b, e.tail)
  <1> TAKE a, x, b
  <1> DEFINE w == [e.v EXCEPT ![a] = x]
             f == [e EXCEPT !.v[a] = x]
  <1>1. f = Deque(w, e.cap, e.head, e.tail)
    BY DEF Deque
  <1> HIDE DEF w, f
  <1>2. [f EXCEPT !.head = b] = Deque(w, e.cap, b, e.tail)
    BY <1>1 DEF Deque
  <1> QED
    BY <1>2 DEF w, f, HeadMoved

Put(e, x) == [e EXCEPT !.v[e.tail] = x, !.tail = Q!At(e, e.tail + 1)]
PutLeft(e, x) == [e EXCEPT !.v[Q!At(e, e.head - 1)] = x, !.head = Q!At(e, e.head - 1)]

LEMMA PutKeeps ==
  ASSUME NEW e, NEW s, Holds(e, s), NEW x \in DequeItem
  PROVE  Fills(Put(e, x), Append(s, x))
  <1> DEFINE c == e.cap
             h == e.head
             t == e.tail
             n == Len(s)
             w == [e.v EXCEPT ![t] = x]
             u == Round(h + n + 1, c)
             z == Append(s, x)
  <1>1. /\ c \in Nat \ {0} /\ h \in 0..(c - 1) /\ n \in Nat /\ n < c
        /\ t = Round(h + n, c) /\ t \in 0..(c - 1) /\ s \in Seq(DequeItem)
        /\ e.v \in [0..(c - 1) -> HeldItem]
        /\ \A j \in 0..(n - 1) : e.v[Round(h + j, c)] = s[j + 1]
    BY DEF Holds, Fills, Array, Places
  <1>2. e = Deque(e.v, c, h, t)
    BY DEF Holds, Fills
  <1>3. z \in Seq(DequeItem) /\ Len(z) = n + 1 /\ z[n + 1] = x /\ \A k \in 1..n : z[k] = s[k]
    BY <1>1
  <1>4. Q!At(e, t + 1) = u /\ u \in 0..(c - 1)
    <2>1. t + 1 \in (-c)..(2 * c - 1) /\ h + n + 1 \in (-c)..(2 * c - 1)
      BY <1>1, SMTT(20)
    <2>2. Round(t + 1, c) = u
      BY <1>1, <2>1, SMTT(20) DEF Round
    <2> QED
      BY <1>1, <2>1, <2>2, AtIs
  <1>5. Put(e, x) = Deque(w, c, h, u)
    <2>1. Put(e, x) = TailMoved(e, t, x, Q!At(e, t + 1))
      BY DEF Put, TailMoved
    <2> HIDE DEF u, n, z
    <2>2. TailMoved(e, t, x, u) = Deque(w, c, h, u)
      BY <1>2, TailMoves
    <2> QED
      BY <1>4, <2>1, <2>2
  <1> HIDE DEF c, h, t, n, u, z
  <1>6. w \in [0..(c - 1) -> HeldItem]
    BY <1>1 DEF HeldItem
  <1>7. ASSUME NEW j \in 0..n PROVE w[Round(h + j, c)] = z[j + 1]
    <2>1. Round(h + j, c) \in 0..(c - 1)
      BY <1>1 DEF Round
    <2>2. CASE j = n
      BY <1>1, <1>3, <2>2
    <2>3. CASE j # n
      <3>1. j \in 0..(n - 1) /\ Round(h + j, c) # t /\ j + 1 \in 1..n
        BY <1>1, <2>3 DEF Round
      <3> QED
        BY <1>1, <1>3, <2>1, <3>1
    <2> QED
      BY <2>2, <2>3
  <1> HIDE DEF w
  <1>8. Array(w, c, h, u, z)
    <2>1. u = Round(h + (n + 1), c) /\ n + 1 <= c /\ (n + 1) - 1 = n
      <3>1. h \in Int /\ n \in Nat /\ c \in Nat /\ n < c
        BY <1>1
      <3>2. h + n + 1 = h + (n + 1) /\ n + 1 <= c /\ (n + 1) - 1 = n
        BY <3>1
      <3> QED
        BY <3>2 DEF u
    <2> QED
      BY <1>1, <1>3, <1>4, <1>6, <1>7, <2>1 DEF Array, Places
  <1> QED
    BY <1>5, <1>8, DequeIs DEF z

LEMMA PutLeftKeeps ==
  ASSUME NEW e, NEW s, Holds(e, s), NEW x \in DequeItem
  PROVE  Fills(PutLeft(e, x), <<x>> \o s)
  <1> DEFINE c == e.cap
             h == e.head
             t == e.tail
             n == Len(s)
             g == Round(h - 1, c)
             w == [e.v EXCEPT ![g] = x]
             z == <<x>> \o s
  <1>1. /\ c \in Nat \ {0} /\ h \in 0..(c - 1) /\ n \in Nat /\ n < c
        /\ t = Round(h + n, c) /\ t \in 0..(c - 1) /\ s \in Seq(DequeItem)
        /\ e.v \in [0..(c - 1) -> HeldItem]
        /\ \A j \in 0..(n - 1) : e.v[Round(h + j, c)] = s[j + 1]
    BY DEF Holds, Fills, Array, Places
  <1>2. e = Deque(e.v, c, h, t)
    BY DEF Holds, Fills
  <1>3. z \in Seq(DequeItem) /\ Len(z) = n + 1 /\ z[1] = x /\ \A k \in 1..n : z[k + 1] = s[k]
    BY <1>1
  <1>4. Q!At(e, h - 1) = g /\ g \in 0..(c - 1)
    <2>1. h - 1 \in (-c)..(2 * c - 1)
      BY <1>1
    <2> QED
      BY <1>1, <2>1, AtIs
  <1>5. PutLeft(e, x) = Deque(w, c, g, t)
    <2>1. PutLeft(e, x) = HeadMoved(e, Q!At(e, h - 1), x, Q!At(e, h - 1))
      BY DEF PutLeft, HeadMoved
    <2> HIDE DEF n, z
    <2>2. HeadMoved(e, g, x, g) = Deque(w, c, g, t)
      BY <1>2, HeadMoves
    <2> QED
      BY <1>4, <2>1, <2>2
  <1> HIDE DEF c, h, t, n, z
  <1>6. w \in [0..(c - 1) -> HeldItem]
    BY <1>1 DEF HeldItem
  <1>7. ASSUME NEW j \in 0..n PROVE w[Round(g + j, c)] = z[j + 1]
    <2>1. CASE j = 0
      <3>1. Round(g + j, c) = g
        BY <1>1, <1>4, <2>1 DEF Round
      <3> QED
        BY <1>1, <1>3, <1>4, <2>1, <3>1
    <2>2. CASE j # 0
      <3>1. j - 1 \in 0..(n - 1) /\ j \in 1..n /\ (j - 1) + 1 = j
        BY <1>1, <2>2
      <3>2. /\ Round(g + j, c) = Round(h + (j - 1), c)
            /\ Round(h + (j - 1), c) \in 0..(c - 1) /\ Round(h + (j - 1), c) # g
        BY <1>1, <3>1 DEF Round
      <3>3. w[Round(g + j, c)] = s[j]
        BY <1>1, <3>1, <3>2
      <3> QED
        BY <1>3, <3>1, <3>3
    <2> QED
      BY <2>1, <2>2
  <1>8. t = Round(g + (n + 1), c) /\ n + 1 <= c /\ (n + 1) - 1 = n
    BY <1>1 DEF Round
  <1> HIDE DEF w, g
  <1>9. Array(w, c, g, t, z)
    BY <1>1, <1>3, <1>4, <1>6, <1>7, <1>8 DEF Array, Places
  <1> QED
    BY <1>5, <1>9, DequeIs DEF z

LEMMA PopKeeps ==
  ASSUME NEW e, NEW s, Holds(e, s), Len(s) > 0
  PROVE  Holds(Q!Pop(e), SubSeq(s, 1, Len(s) - 1))
  <1> DEFINE c == e.cap
             h == e.head
             t == e.tail
             n == Len(s)
             g == Round(t - 1, c)
             w == [e.v EXCEPT ![g] = Q!Undefined]
             z == SubSeq(s, 1, n - 1)
             q == Deque(w, c, h, g)
  <1>1. /\ c \in Nat \ {0} /\ h \in 0..(c - 1) /\ n \in Nat /\ n < c /\ n > 0
        /\ t = Round(h + n, c) /\ t \in 0..(c - 1) /\ s \in Seq(DequeItem)
        /\ e.v \in [0..(c - 1) -> HeldItem]
        /\ \A j \in 0..(n - 1) : e.v[Round(h + j, c)] = s[j + 1]
    BY DEF Holds, Fills, Array, Places
  <1>2. e = Deque(e.v, c, h, t)
    BY DEF Holds, Fills
  <1>3. z \in Seq(DequeItem) /\ Len(z) = n - 1 /\ \A k \in 1..(n - 1) : z[k] = s[k]
    <2>1. n - 1 \in 0..n /\ 1 \in Nat \ {0} /\ (n - 1) - 1 + 1 = n - 1
      BY <1>1
    <2>2. \A k \in 1..(n - 1) : 1 + k - 1 = k
      OBVIOUS
    <2>3. Len(z) = IF 1 <= n - 1 THEN (n - 1) - 1 + 1 ELSE 0
      BY <1>1, <2>1, PartIs
    <2> QED
      BY <1>1, <2>1, <2>2, <2>3, PartIs
  <1>4. Q!At(e, t - 1) = g /\ g \in 0..(c - 1)
    <2>1. t - 1 \in (-c)..(2 * c - 1)
      BY <1>1
    <2> QED
      BY <1>1, <2>1, AtIs
  <1>5. Q!Pop(e) = Q!Shrunk(q)
    <2>1. Q!Pop(e) = Q!Shrunk(TailMoved(e, Q!At(e, t - 1), Q!Undefined, Q!At(e, t - 1)))
      BY DEF Q!Pop, TailMoved
    <2> HIDE DEF g, n, z
    <2>2. TailMoved(e, g, Q!Undefined, g) = Deque(w, c, h, g)
      <3>1. \A a, x, b : TailMoved(e, a, x, b) = Deque([e.v EXCEPT ![a] = x], c, h, b)
        BY <1>2, TailMoves
      <3> QED
        BY <3>1
    <2> QED
      BY <1>4, <2>1, <2>2
  <1> HIDE DEF c, h, t, n, z
  <1>6. w \in [0..(c - 1) -> HeldItem]
    BY <1>1 DEF HeldItem
  <1>7. ASSUME NEW j \in 0..(n - 2) PROVE w[Round(h + j, c)] = z[j + 1]
    <2>1. j \in 0..(n - 1) /\ j + 1 \in 1..(n - 1)
      BY <1>1
    <2>2. Round(h + j, c) \in 0..(c - 1) /\ Round(h + j, c) # g
      BY <1>1 DEF Round
    <2> QED
      BY <1>1, <1>3, <2>1, <2>2
  <1>8. g = Round(h + (n - 1), c) /\ n - 1 < c /\ n - 1 <= c /\ (n - 1) - 1 = n - 2
    BY <1>1 DEF Round
  <1> HIDE DEF w, g
  <1>9. Array(w, c, h, g, z)
    BY <1>1, <1>3, <1>4, <1>6, <1>7, <1>8 DEF Array, Places
  <1>10. Fills(q, z) /\ q.cap = c
    BY <1>9, DequeIs
  <1>11. Holds(q, z)
    BY <1>3, <1>8, <1>10 DEF Holds
  <1> QED
    BY <1>5, <1>11, ShrunkKeeps DEF z, n

LEMMA PopLeftKeeps ==
  ASSUME NEW e, NEW s, Holds(e, s), Len(s) > 0
  PROVE  Holds(Q!PopLeft(e), Tail(s))
  <1> DEFINE c == e.cap
             h == e.head
             t == e.tail
             n == Len(s)
             g == Round(h + 1, c)
             w == [e.v EXCEPT ![h] = Q!Undefined]
             z == Tail(s)
             q == Deque(w, c, g, t)
  <1>1. /\ c \in Nat \ {0} /\ h \in 0..(c - 1) /\ n \in Nat /\ n < c /\ n > 0
        /\ t = Round(h + n, c) /\ t \in 0..(c - 1) /\ s \in Seq(DequeItem)
        /\ e.v \in [0..(c - 1) -> HeldItem]
        /\ \A j \in 0..(n - 1) : e.v[Round(h + j, c)] = s[j + 1]
    BY DEF Holds, Fills, Array, Places
  <1>2. e = Deque(e.v, c, h, t)
    BY DEF Holds, Fills
  <1>3. z \in Seq(DequeItem) /\ Len(z) = n - 1 /\ \A k \in 1..(n - 1) : z[k] = s[k + 1]
    <2>1. s # <<>>
      BY <1>1
    <2> QED
      BY <1>1, <2>1
  <1>4. Q!At(e, h + 1) = g /\ g \in 0..(c - 1)
    <2>1. h + 1 \in (-c)..(2 * c - 1)
      BY <1>1
    <2> QED
      BY <1>1, <2>1, AtIs
  <1>5. Q!PopLeft(e) = Q!Shrunk(q)
    <2>1. Q!PopLeft(e) = Q!Shrunk(HeadMoved(e, h, Q!Undefined, Q!At(e, h + 1)))
      BY DEF Q!PopLeft, HeadMoved
    <2> HIDE DEF g, n, z
    <2>2. HeadMoved(e, h, Q!Undefined, g) = Deque(w, c, g, t)
      BY <1>2, HeadMoves
    <2> QED
      BY <1>4, <2>1, <2>2
  <1> HIDE DEF c, h, t, n, z
  <1>6. w \in [0..(c - 1) -> HeldItem]
    BY <1>1 DEF HeldItem
  <1>7. ASSUME NEW j \in 0..(n - 2) PROVE w[Round(g + j, c)] = z[j + 1]
    <2>1. j + 1 \in 0..(n - 1) /\ j + 1 \in 1..(n - 1)
      BY <1>1
    <2>2. Round(g + j, c) = Round(h + (j + 1), c)
      BY <1>1, <2>1 DEF Round
    <2>3. Round(h + (j + 1), c) \in 0..(c - 1) /\ Round(h + (j + 1), c) # h
      BY <1>1, <2>1 DEF Round
    <2>4. w[Round(g + j, c)] = s[(j + 1) + 1]
      BY <1>1, <2>1, <2>2, <2>3
    <2> QED
      BY <1>3, <2>1, <2>4
  <1>8. t = Round(g + (n - 1), c) /\ n - 1 < c /\ n - 1 <= c /\ (n - 1) - 1 = n - 2
    <2>1. Round(g + (n - 1), c) = Round(h + n, c)
      BY <1>1 DEF Round
    <2> QED
      BY <1>1, <2>1
  <1> HIDE DEF w, g
  <1>9. Array(w, c, g, t, z)
    BY <1>1, <1>3, <1>4, <1>6, <1>7, <1>8 DEF Array, Places
  <1>10. Fills(q, z) /\ q.cap = c
    BY <1>9, DequeIs
  <1>11. Holds(q, z)
    BY <1>3, <1>8, <1>10 DEF Holds
  <1> QED
    BY <1>5, <1>11, ShrunkKeeps DEF z, n

-----------------------------------------------------------------------------
(* Adding at an end of a deque of limited length.                          *)

Limited(s, limit) == limit = NoMaxLen \/ (limit \in Nat /\ Len(s) <= limit)

LEMMA LastOfMore ==
  ASSUME NEW s \in Seq(DequeItem), NEW x \in DequeItem, NEW limit, Limited(s, limit)
  PROVE  LET z == Append(s, x)
             tooLong == limit # NoMaxLen /\ Len(z) > limit
         IN /\ Q!LastOf(z, limit) = IF tooLong THEN Tail(z) ELSE z
            /\ Q!LastOf(z, limit) \in Seq(DequeItem) /\ Limited(Q!LastOf(z, limit), limit)
  <1> DEFINE z == Append(s, x)
             n == Len(s)
  <1>1. z \in Seq(DequeItem) /\ Len(z) = n + 1 /\ n \in Nat /\ z # <<>>
    OBVIOUS
  <1>2. Tail(z) = SubSeq(z, 2, Len(z)) /\ Tail(z) \in Seq(DequeItem) /\ Len(Tail(z)) = n
    BY <1>1, TailIsSubSeq, HeadTailProperties
  <1> HIDE DEF z
  <1>3. CASE limit # NoMaxLen /\ Len(z) > limit
    <2>1. limit \in Nat /\ limit = n
      BY <1>1, <1>3 DEF Limited
    <2>2. Len(z) - limit + 1 = 2 /\ ~(Len(z) <= limit)
      BY <1>1, <2>1
    <2>3. Q!LastOf(z, limit) = Tail(z)
      BY <1>2, <1>3, <2>2 DEF Q!LastOf
    <2> QED
      BY <1>2, <1>3, <2>1, <2>3 DEF Limited, z
  <1>4. CASE ~(limit # NoMaxLen /\ Len(z) > limit)
    <2>1. limit = NoMaxLen \/ (limit \in Nat /\ Len(z) <= limit)
      BY <1>1, <1>4 DEF Limited
    <2>2. Q!LastOf(z, limit) = z
      BY <2>1 DEF Q!LastOf
    <2> QED
      BY <1>1, <1>4, <2>1, <2>2 DEF Limited, z
  <1> QED
    BY <1>3, <1>4

LEMMA FirstOfMore ==
  ASSUME NEW s \in Seq(DequeItem), NEW x \in DequeItem, NEW limit, Limited(s, limit)
  PROVE  LET z == <<x>> \o s
             tooLong == limit # NoMaxLen /\ Len(z) > limit
         IN /\ Q!FirstOf(z, limit) = IF tooLong THEN SubSeq(z, 1, Len(z) - 1) ELSE z
            /\ Q!FirstOf(z, limit) \in Seq(DequeItem) /\ Limited(Q!FirstOf(z, limit), limit)
  <1> DEFINE z == <<x>> \o s
             n == Len(s)
  <1>1. z \in Seq(DequeItem) /\ Len(z) = n + 1 /\ n \in Nat
    OBVIOUS
  <1> HIDE DEF z
  <1>2. SubSeq(z, 1, n) \in Seq(DequeItem) /\ Len(SubSeq(z, 1, n)) = n
    <2>1. n \in 0..Len(z) /\ 1 \in Nat \ {0} /\ n - 1 + 1 = n /\ (~(1 <= n) => n = 0)
      BY <1>1
    <2> QED
      BY <1>1, <2>1, PartIs
  <1>3. CASE limit # NoMaxLen /\ Len(z) > limit
    <2>1. limit \in Nat /\ limit = n /\ Len(z) - 1 = n
      BY <1>1, <1>3 DEF Limited
    <2>2. Q!FirstOf(z, limit) = SubSeq(z, 1, n)
      BY <1>1, <1>3, <2>1 DEF Q!FirstOf
    <2> QED
      BY <1>2, <1>3, <2>1, <2>2 DEF Limited, z
  <1>4. CASE ~(limit # NoMaxLen /\ Len(z) > limit)
    <2>1. limit = NoMaxLen \/ (limit \in Nat /\ Len(z) <= limit)
      BY <1>1, <1>4 DEF Limited
    <2>2. Q!FirstOf(z, limit) = z
      BY <2>1 DEF Q!FirstOf
    <2> QED
      BY <1>1, <1>4, <2>1, <2>2 DEF Limited, z
  <1> QED
    BY <1>3, <1>4

LEMMA PushKeeps ==
  ASSUME NEW e, NEW s, Holds(e, s), NEW x \in DequeItem, NEW limit, Limited(s, limit)
  PROVE  LET z == Q!LastOf(Append(s, x), limit)
         IN Holds(Q!PushTo(e, x, limit), z) /\ Limited(z, limit)
  <1> DEFINE z == Append(s, x)
             grown == Q!Grown(Put(e, x))
  <1>1. s \in Seq(DequeItem) /\ z \in Seq(DequeItem) /\ Len(z) > 0
    <2>1. s \in Seq(DequeItem)
      BY DEF Holds, Fills, Array
    <2> QED
      BY <2>1
  <1>2. Fills(Put(e, x), z)
    BY PutKeeps
  <1>3. Q!PushTo(e, x, limit) = IF Q!TooLong(grown, limit) THEN Q!PopLeft(grown) ELSE grown
    BY DEF Q!PushTo, Put
  <1>4. LET tooLong == limit # NoMaxLen /\ Len(z) > limit
        IN /\ Q!LastOf(z, limit) = IF tooLong THEN Tail(z) ELSE z
           /\ Limited(Q!LastOf(z, limit), limit)
    BY <1>1, LastOfMore
  <1> HIDE DEF z
  <1>5. Holds(grown, z)
    BY <1>1, <1>2, GrownKeeps
  <1> HIDE DEF grown
  <1>6. Q!TooLong(grown, limit) <=> limit # NoMaxLen /\ Len(z) > limit
    BY <1>5, SizeIs DEF Q!TooLong
  <1>7. Holds(Q!PopLeft(grown), Tail(z))
    BY <1>1, <1>5, PopLeftKeeps
  <1>8. Holds(Q!PushTo(e, x, limit), Q!LastOf(z, limit))
    BY <1>3, <1>4, <1>5, <1>6, <1>7
  <1> QED
    BY <1>4, <1>8 DEF z

LEMMA PushLeftKeeps ==
  ASSUME NEW e, NEW s, Holds(e, s), NEW x \in DequeItem, NEW limit, Limited(s, limit)
  PROVE  LET z == Q!FirstOf(<<x>> \o s, limit)
         IN Holds(Q!PushLeftTo(e, x, limit), z) /\ Limited(z, limit)
  <1> DEFINE z == <<x>> \o s
             grown == Q!Grown(PutLeft(e, x))
  <1>1. s \in Seq(DequeItem) /\ z \in Seq(DequeItem) /\ Len(z) > 0
    <2>1. s \in Seq(DequeItem)
      BY DEF Holds, Fills, Array
    <2> QED
      BY <2>1
  <1>2. Fills(PutLeft(e, x), z)
    BY PutLeftKeeps
  <1>3. Q!PushLeftTo(e, x, limit) = IF Q!TooLong(grown, limit) THEN Q!Pop(grown) ELSE grown
    BY DEF Q!PushLeftTo, PutLeft
  <1>4. LET tooLong == limit # NoMaxLen /\ Len(z) > limit
        IN /\ Q!FirstOf(z, limit) = IF tooLong THEN SubSeq(z, 1, Len(z) - 1) ELSE z
           /\ Limited(Q!FirstOf(z, limit), limit)
    BY <1>1, FirstOfMore
  <1> HIDE DEF z
  <1>5. Holds(grown, z)
    BY <1>1, <1>2, GrownKeeps
  <1> HIDE DEF grown
  <1>6. Q!TooLong(grown, limit) <=> limit # NoMaxLen /\ Len(z) > limit
    BY <1>5, SizeIs DEF Q!TooLong
  <1>7. Holds(Q!Pop(grown), SubSeq(z, 1, Len(z) - 1))
    BY <1>1, <1>5, PopKeeps
  <1>8. Holds(Q!PushLeftTo(e, x, limit), Q!FirstOf(z, limit))
    BY <1>3, <1>4, <1>5, <1>6, <1>7
  <1> QED
    BY <1>4, <1>8 DEF z

-----------------------------------------------------------------------------
(* Items in the middle.                                                    *)

(* How far a place is after another one, both being in the array. *)
LEMMA Distance ==
  ASSUME NEW c \in Nat \ {0}, NEW h \in 0..(c - 1), NEW j \in 0..(c - 1), NEW q \in 0..(c - 1)
  PROVE  /\ Round(h + j, c) \in 0..(c - 1) /\ Round(h + q, c) \in 0..(c - 1)
         /\ (Round(h + j, c) - Round(h + q, c)) % c = IF j >= q THEN j - q ELSE j - q + c
  <1>1. /\ Round(h + j, c) \in 0..(c - 1) /\ Round(h + q, c) \in 0..(c - 1)
        /\ Round(h + j, c) - Round(h + q, c) \in (-c)..(2 * c - 1)
        /\ Round(Round(h + j, c) - Round(h + q, c), c) = IF j >= q THEN j - q ELSE j - q + c
    BY DEF Round
  <1> QED
    BY <1>1, Rounds

(* A sequence with an item more, or less. *)
LEMMA InsertedAt ==
  ASSUME NEW S, NEW s \in Seq(S), NEW i \in 1..(Len(s) + 1), NEW x \in S
  PROVE  /\ Q!InsertAt(s, i, x) \in Seq(S) /\ Len(Q!InsertAt(s, i, x)) = Len(s) + 1
         /\ \A n \in 1..(Len(s) + 1) :
              Q!InsertAt(s, i, x)[n] = IF n < i THEN s[n] ELSE IF n = i THEN x ELSE s[n - 1]
  <1> DEFINE a == SubSeq(s, 1, i - 1)
             b == SubSeq(s, i, Len(s))
             m == a \o <<x>>
             r == Q!InsertAt(s, i, x)
  <1>1. Len(s) \in Nat /\ i \in Nat /\ i >= 1 /\ i <= Len(s) + 1
    OBVIOUS
  <1>2. /\ a \in Seq(S) /\ Len(a) = i - 1 /\ \A n \in 1..(i - 1) : a[n] = s[n]
        /\ b \in Seq(S) /\ Len(b) = Len(s) + 1 - i /\ \A n \in 1..(Len(s) + 1 - i) : b[n] = s[n + i - 1]
    BY <1>1
  <1>3. r = m \o b
    BY DEF Q!InsertAt
  <1> HIDE DEF a, b, r
  <1>4. m \in Seq(S) /\ Len(m) = i /\ m[i] = x /\ \A n \in 1..(i - 1) : m[n] = s[n]
    <2>1. a \in Seq(S) /\ Len(a) \in Nat
      BY <1>2
    <2>2. m \in Seq(S) /\ Len(m) = Len(a) + 1
      BY <2>1
    <2>3. m[Len(a) + 1] = x /\ \A n \in 1..Len(a) : m[n] = a[n]
      BY <2>1
    <2>4. Len(a) + 1 = i /\ 1..Len(a) = 1..(i - 1)
      BY <1>1, <1>2
    <2> HIDE DEF m
    <2> QED
      BY <1>2, <2>2, <2>3, <2>4
  <1> HIDE DEF m
  <1>5. /\ r \in Seq(S) /\ Len(r) = Len(m) + Len(b)
        /\ \A n \in 1..(Len(m) + Len(b)) : r[n] = IF n <= Len(m) THEN m[n] ELSE b[n - Len(m)]
    <2>1. m \in Seq(S) /\ b \in Seq(S)
      BY <1>2, <1>4
    <2> QED
      BY <1>3, <2>1, ConcatProperties
  <1>6. ASSUME NEW n \in 1..(Len(s) + 1)
        PROVE  r[n] = IF n < i THEN s[n] ELSE IF n = i THEN x ELSE s[n - 1]
    <2>1. CASE n <= i
      BY <1>1, <1>2, <1>4, <1>5, <2>1
    <2>2. CASE n > i
      <3>1. n - i \in 1..(Len(s) + 1 - i) /\ (n - i) + i - 1 = n - 1 /\ ~(n <= i)
        BY <1>1, <2>2
      <3>2. r[n] = b[n - i] /\ b[n - i] = s[(n - i) + i - 1]
        BY <1>1, <1>2, <1>4, <1>5, <3>1
      <3> QED
        BY <1>1, <2>2, <3>1, <3>2
    <2> QED
      BY <1>1, <2>1, <2>2
  <1> QED
    BY <1>1, <1>2, <1>4, <1>5, <1>6 DEF r

LEMMA WidenedKeeps ==
  ASSUME NEW e, NEW s, Holds(e, s), NEW q \in 0..Len(s), NEW x \in DequeItem
  PROVE  LET z == Q!InsertAt(s, q + 1, x)
         IN /\ z \in Seq(DequeItem) /\ Len(z) = Len(s) + 1
            /\ Fills(Q!Widened(e, Round(e.head + q, e.cap), x), z)
  <1> DEFINE c == e.cap
             h == e.head
             t == e.tail
             n == Len(s)
             pos == Round(h + q, c)
             moved == (t - pos) % c
             w == [k \in DOMAIN e.v |-> IF k = pos THEN x
                     ELSE IF (k - pos) % c \in 1..moved THEN e.v[Q!At(e, k - 1)] ELSE e.v[k]]
             u == Q!At(e, t + 1)
             z == Q!InsertAt(s, q + 1, x)
  <1>1. /\ c \in Nat \ {0} /\ h \in 0..(c - 1) /\ n \in Nat /\ n < c
        /\ t = Round(h + n, c) /\ t \in 0..(c - 1) /\ s \in Seq(DequeItem)
        /\ e.v \in [0..(c - 1) -> HeldItem]
        /\ \A j \in 0..(n - 1) : e.v[Round(h + j, c)] = s[j + 1]
    BY DEF Holds, Fills, Array, Places
  <1>2. e = Deque(e.v, c, h, t)
    BY DEF Holds, Fills
  <1>3. /\ z \in Seq(DequeItem) /\ Len(z) = n + 1
        /\ \A j \in 0..n : z[j + 1] = IF j < q THEN s[j + 1] ELSE IF j = q THEN x ELSE s[j]
    <2> HIDE DEF z
    <2>1. q + 1 \in 1..(n + 1) /\ q \in 0..n
      BY <1>1
    <2>2. /\ z \in Seq(DequeItem) /\ Len(z) = n + 1
          /\ \A k \in 1..(n + 1) : z[k] = IF k < q + 1 THEN s[k] ELSE IF k = q + 1 THEN x ELSE s[k - 1]
      <3>1. s \in Seq(DequeItem) /\ q + 1 \in 1..(Len(s) + 1) /\ x \in DequeItem
        BY <1>1, <2>1
      <3> QED
        BY <3>1, InsertedAt DEF z
    <2>3. ASSUME NEW j \in 0..n
          PROVE  z[j + 1] = IF j < q THEN s[j + 1] ELSE IF j = q THEN x ELSE s[j]
      <3>1. /\ j + 1 \in 1..(n + 1) /\ (j + 1) - 1 = j
            /\ (j < q <=> j + 1 < q + 1) /\ (j = q <=> j + 1 = q + 1)
        BY <1>1, <2>1
      <3> QED
        BY <2>2, <3>1
    <2> QED
      BY <2>2, <2>3
  <1>4. Q!Widened(e, pos, x) = Deque(w, c, h, u)
    <2>1. Q!Widened(e, pos, x) = [e EXCEPT !.tail = u, !.v = w]
      BY DEF Q!Widened
    <2> HIDE DEF w, u, pos
    <2> QED
      BY <1>2, <2>1 DEF Deque
  <1> HIDE DEF c, h, t, n, z
  <1>5. u = Round(h + (n + 1), c) /\ u \in 0..(c - 1)
    <2>1. t + 1 \in (-c)..(2 * c - 1) /\ Round(t + 1, c) = Round(h + (n + 1), c)
      BY <1>1 DEF Round
    <2> QED
      BY <1>1, <2>1, AtIs DEF c
  <1> HIDE DEF u
  <1>6. DOMAIN e.v = 0..(c - 1) /\ \A k \in 0..(c - 1) : e.v[k] \in HeldItem /\ Q!At(e, k - 1) \in 0..(c - 1)
    <2>1. \A k \in 0..(c - 1) : Q!At(e, k - 1) \in 0..(c - 1)
      BY <1>1 DEF Q!At, c
    <2> QED
      BY <1>1, <2>1
  <1>7. w \in [0..(c - 1) -> HeldItem]
    BY <1>6 DEF HeldItem
  <1>8. moved = n - q /\ q \in 0..(c - 1) /\ n \in 0..(c - 1)
    <2>1. q \in 0..(c - 1) /\ n \in 0..(c - 1) /\ n >= q
      BY <1>1 DEF n
    <2>2. (Round(h + n, c) - Round(h + q, c)) % c = n - q
      BY <1>1, <2>1, Distance
    <2> QED
      BY <1>1, <2>1, <2>2
  <1>9. ASSUME NEW j \in 0..n PROVE w[Round(h + j, c)] = z[j + 1]
    <2> DEFINE k == Round(h + j, c)
    <2>1. j \in 0..(c - 1) /\ q \in Nat
      BY <1>1, <1>8
    <2>2. k \in 0..(c - 1) /\ (k - pos) % c = IF j >= q THEN j - q ELSE j - q + c
      <3> HIDE DEF moved, w, pos, k
      <3>1. /\ Round(h + j, c) \in 0..(c - 1)
            /\ (Round(h + j, c) - Round(h + q, c)) % c = IF j >= q THEN j - q ELSE j - q + c
        <4>1. j \in 0..(c - 1) /\ q \in 0..(c - 1) /\ c \in Nat \ {0} /\ h \in 0..(c - 1)
          BY <1>1, <1>8, <2>1
        <4>2. CASE j >= q
          BY <4>1, <4>2, Distance
        <4>3. CASE ~(j >= q)
          BY <4>1, <4>3, Distance
        <4> QED
          BY <4>1, <4>2, <4>3
      <3> QED
        BY <3>1 DEF k, pos
    <2>3. j = q <=> k = pos
      BY <1>1, <1>8, <2>1 DEF Round
    <2>4. w[k] = IF k = pos THEN x ELSE IF (k - pos) % c \in 1..moved THEN e.v[Q!At(e, k - 1)] ELSE e.v[k]
      BY <1>6, <2>2
    <2>5. CASE j < q
      <3>1. (k - pos) % c = j - q + c /\ ~(j - q + c \in 1..(n - q)) /\ j \in 0..(n - 1) /\ j # q
        BY <1>1, <1>8, <2>1, <2>2, <2>5
      <3> HIDE DEF k, moved, pos
      <3>2. w[k] = e.v[k]
        BY <1>8, <2>3, <2>4, <3>1
      <3> QED
        BY <1>1, <1>3, <2>5, <3>1, <3>2 DEF k
    <2>6. CASE j = q
      <3> HIDE DEF k, moved, pos, w
      <3>1. w[k] = x /\ z[j + 1] = x
        BY <1>1, <1>3, <2>1, <2>3, <2>4, <2>6
      <3> QED
        BY <3>1 DEF k
    <2>7. CASE j > q
      <3>1. (k - pos) % c = j - q /\ j - q \in 1..(n - q) /\ j - 1 \in 0..(n - 1) /\ (j - 1) + 1 = j
        BY <1>1, <1>8, <2>1, <2>2, <2>7
      <3>2. Q!At(e, k - 1) = Round(h + (j - 1), c)
        <4>1. k - 1 \in (-c)..(2 * c - 1) /\ Round(k - 1, c) = Round(h + (j - 1), c)
          <5> HIDE DEF moved, w, pos
          <5>1. j \in 1..(c - 1) /\ h + (j - 1) = h + j - 1
            BY <1>1, <2>1, <2>7
          <5>2. k - 1 \in (-c)..(2 * c - 1) /\ Round(k - 1, c) = Round(h + j - 1, c)
            BY <1>1, <5>1 DEF Round
          <5> QED
            BY <5>1, <5>2
        <4> QED
          BY <1>1, <4>1, AtIs DEF c
      <3> HIDE DEF k, moved, pos, w
      <3>3. w[k] = e.v[Q!At(e, k - 1)]
        BY <1>8, <2>1, <2>3, <2>4, <2>7, <3>1
      <3>4. w[k] = s[j] /\ z[j + 1] = s[j]
        <4>1. j \in 0..n /\ ~(j < q) /\ j # q
          BY <1>1, <2>1, <2>7
        <4>2. w[k] = s[(j - 1) + 1]
          BY <1>1, <3>1, <3>2, <3>3
        <4> QED
          BY <1>3, <3>1, <4>1, <4>2
      <3> QED
        BY <3>4 DEF k
    <2> QED
      BY <2>1, <2>5, <2>6, <2>7
  <1> HIDE DEF w, pos
  <1>10. Array(w, c, h, u, z)
    <2>1. n + 1 <= c /\ (n + 1) - 1 = n
      BY <1>1
    <2> QED
      BY <1>1, <1>3, <1>5, <1>7, <1>9, <2>1 DEF Array, Places
  <1>11. Fills(Q!Widened(e, pos, x), z)
    BY <1>4, <1>10, DequeIs
  <1> QED
    BY <1>3, <1>11 DEF z, pos, n, h, c

LEMMA ClosedKeeps ==
  ASSUME NEW e, NEW s, Holds(e, s), NEW q \in 0..(Len(s) - 1)
  PROVE  Holds([Q!Closed(e, Round(e.head + q, e.cap)) EXCEPT !.tail = Q!At(e, e.tail - 1)],
               Q!RemoveAt(s, q + 1))
  <1> DEFINE c == e.cap
             h == e.head
             t == e.tail
             n == Len(s)
             pos == Round(h + q, c)
             moved == (t - pos) % c
             w == [k \in DOMAIN e.v |-> IF (k - pos) % c < moved THEN e.v[Q!At(e, k + 1)] ELSE e.v[k]]
             u == Q!At(e, t - 1)
             z == Q!RemoveAt(s, q + 1)
             f == [Q!Closed(e, pos) EXCEPT !.tail = u]
  <1>1. /\ c \in Nat \ {0} /\ h \in 0..(c - 1) /\ n \in Nat /\ n < c
        /\ t = Round(h + n, c) /\ t \in 0..(c - 1) /\ s \in Seq(DequeItem)
        /\ e.v \in [0..(c - 1) -> HeldItem]
        /\ \A j \in 0..(n - 1) : e.v[Round(h + j, c)] = s[j + 1]
    BY DEF Holds, Fills, Array, Places
  <1>2. e = Deque(e.v, c, h, t)
    BY DEF Holds, Fills
  <1>3. /\ z \in Seq(DequeItem) /\ Len(z) = n - 1
        /\ \A j \in 0..(n - 2) : z[j + 1] = IF j < q THEN s[j + 1] ELSE s[j + 2]
    <2> HIDE DEF z, f, w, moved
    <2>1. q + 1 \in 1..n
      BY <1>1
    <2>2. /\ z \in Seq(DequeItem) /\ Len(z) = n - 1
          /\ \A k \in 1..(n - 1) : z[k] = IF k < q + 1 THEN s[k] ELSE s[k + 1]
      BY <1>1, <2>1, RemovedAt, SameRemoval DEF z
    <2>3. ASSUME NEW j \in 0..(n - 2) PROVE z[j + 1] = IF j < q THEN s[j + 1] ELSE s[j + 2]
      <3>1. j + 1 \in 1..(n - 1) /\ (j + 1) + 1 = j + 2 /\ (j < q <=> j + 1 < q + 1)
        BY <1>1, <2>1
      <3> QED
        BY <2>2, <3>1
    <2> QED
      BY <2>2, <2>3
  <1>4. f = Deque(w, c, h, u)
    <2>1. Q!Closed(e, pos) = Deque(w, c, h, t)
      BY <1>2 DEF Q!Closed, Deque
    <2> HIDE DEF w, u, pos
    <2> QED
      BY <2>1 DEF Deque
  <1> HIDE DEF c, h, t, n, z, f
  <1>5. u = Round(h + (n - 1), c) /\ u \in 0..(c - 1) /\ n > 0
    <2>1. t - 1 \in (-c)..(2 * c - 1) /\ Round(t - 1, c) = Round(h + (n - 1), c) /\ n > 0
      BY <1>1 DEF Round, n
    <2> QED
      BY <1>1, <2>1, AtIs DEF c
  <1> HIDE DEF u
  <1>6. DOMAIN e.v = 0..(c - 1) /\ \A k \in 0..(c - 1) : e.v[k] \in HeldItem /\ Q!At(e, k + 1) \in 0..(c - 1)
    <2>1. \A k \in 0..(c - 1) : Q!At(e, k + 1) \in 0..(c - 1)
      BY <1>1 DEF Q!At, c
    <2> QED
      BY <1>1, <2>1
  <1>7. w \in [0..(c - 1) -> HeldItem]
    BY <1>6 DEF HeldItem
  <1>8. moved = n - q /\ q \in 0..(c - 1) /\ n \in 0..(c - 1) /\ q \in 0..(n - 1)
    <2>1. q \in 0..(c - 1) /\ n \in 0..(c - 1) /\ n >= q
      BY <1>1 DEF n
    <2>2. (Round(h + n, c) - Round(h + q, c)) % c = n - q
      BY <1>1, <2>1, Distance
    <2> QED
      BY <1>1, <2>1, <2>2 DEF n
  <1>9. ASSUME NEW j \in 0..(n - 2) PROVE w[Round(h + j, c)] = z[j + 1]
    <2> DEFINE k == Round(h + j, c)
    <2>1. j \in 0..(c - 1) /\ q \in Nat /\ j \in 0..(n - 1) /\ j + 1 \in 0..(n - 1)
      BY <1>1, <1>8
    <2>2. k \in 0..(c - 1) /\ (k - pos) % c = IF j >= q THEN j - q ELSE j - q + c
      <3> HIDE DEF moved, w, pos, k
      <3>1. /\ Round(h + j, c) \in 0..(c - 1)
            /\ (Round(h + j, c) - Round(h + q, c)) % c = IF j >= q THEN j - q ELSE j - q + c
        <4>1. j \in 0..(c - 1) /\ q \in 0..(c - 1) /\ c \in Nat \ {0} /\ h \in 0..(c - 1)
          BY <1>1, <1>8, <2>1
        <4>2. CASE j >= q
          BY <4>1, <4>2, Distance
        <4>3. CASE ~(j >= q)
          BY <4>1, <4>3, Distance
        <4> QED
          BY <4>1, <4>2, <4>3
      <3> QED
        BY <3>1 DEF k, pos
    <2>3. w[k] = IF (k - pos) % c < moved THEN e.v[Q!At(e, k + 1)] ELSE e.v[k]
      BY <1>6, <2>2
    <2>4. CASE j < q
      <3>1. (k - pos) % c = j - q + c /\ ~(j - q + c < n - q)
        <4> HIDE DEF k, pos, w, moved
        <4>1. j \in Nat /\ q \in Nat /\ n \in 0..(c - 1) /\ c \in Nat \ {0}
          BY <1>1, <1>8, <2>1
        <4>2. ~(j >= q)
          BY <4>1, <2>4
        <4>3. ~(j - q + c < n - q)
          BY <4>1
        <4> QED
          BY <2>2, <4>2, <4>3
      <3> HIDE DEF k, moved, pos
      <3>2. w[k] = e.v[k]
        BY <1>8, <2>3, <3>1
      <3> QED
        BY <1>1, <1>3, <2>1, <2>4, <3>2 DEF k
    <2>5. CASE j >= q
      <3>1. (k - pos) % c = j - q /\ j - q < n - q /\ (j + 1) + 1 = j + 2 /\ ~(j < q)
        BY <1>1, <1>8, <2>1, <2>2, <2>5
      <3>2. Q!At(e, k + 1) = Round(h + (j + 1), c)
        <4>1. k + 1 \in (-c)..(2 * c - 1) /\ Round(k + 1, c) = Round(h + (j + 1), c)
          BY <1>1, <2>1 DEF Round
        <4> QED
          BY <1>1, <4>1, AtIs DEF c
      <3> HIDE DEF k, moved, pos, w
      <3>3. w[k] = e.v[Q!At(e, k + 1)]
        BY <1>8, <2>3, <3>1
      <3>4. w[k] = s[j + 2] /\ z[j + 1] = s[j + 2]
        BY <1>1, <1>3, <2>1, <3>1, <3>2, <3>3
      <3> QED
        BY <3>4 DEF k
    <2> QED
      BY <2>1, <2>4, <2>5
  <1> HIDE DEF w, pos
  <1>10. Array(w, c, h, u, z) /\ Len(z) < c
    <2>1. n - 1 <= c /\ n - 1 < c /\ (n - 1) - 1 = n - 2
      BY <1>1
    <2> QED
      BY <1>1, <1>3, <1>5, <1>7, <1>9, <2>1 DEF Array, Places
  <1>11. Holds(f, z)
    BY <1>4, <1>10, DequeIs DEF Holds
  <1> QED
    BY <1>11 DEF z, pos, n, h, c, t, u, f

LEMMA SetKeeps ==
  ASSUME NEW e, NEW s, Holds(e, s), NEW q \in 0..(Len(s) - 1), NEW x \in DequeItem
  PROVE  Holds([e EXCEPT !.v[Round(e.head + q, e.cap)] = x], Q!ReplaceAt(s, q + 1, x))
  <1> DEFINE c == e.cap
             h == e.head
             t == e.tail
             n == Len(s)
             pos == Round(h + q, c)
             w == [e.v EXCEPT ![pos] = x]
             z == Q!ReplaceAt(s, q + 1, x)
             f == [e EXCEPT !.v[pos] = x]
  <1>1. /\ c \in Nat \ {0} /\ h \in 0..(c - 1) /\ n \in Nat /\ n < c
        /\ t = Round(h + n, c) /\ t \in 0..(c - 1) /\ s \in Seq(DequeItem)
        /\ e.v \in [0..(c - 1) -> HeldItem]
        /\ \A j \in 0..(n - 1) : e.v[Round(h + j, c)] = s[j + 1]
    BY DEF Holds, Fills, Array, Places
  <1>2. e = Deque(e.v, c, h, t)
    BY DEF Holds, Fills
  <1>3. z \in Seq(DequeItem) /\ Len(z) = n /\ \A k \in 1..n : z[k] = IF k = q + 1 THEN x ELSE s[k]
    <2>1. q + 1 \in 1..Len(s)
      BY <1>1
    <2> QED
      BY <1>1, <2>1, ExceptSeq DEF Q!ReplaceAt
  <1>4. f = Deque(w, c, h, t)
    <2> HIDE DEF pos
    <2> QED
      BY <1>2 DEF Deque
  <1>5. q \in 0..(n - 1)
    OBVIOUS
  <1> HIDE DEF c, h, t, n, z, f
  <1>6. w \in [0..(c - 1) -> HeldItem]
    BY <1>1 DEF HeldItem
  <1>7. ASSUME NEW j \in 0..(n - 1) PROVE w[Round(h + j, c)] = z[j + 1]
    <2>1. /\ Round(h + j, c) \in 0..(c - 1) /\ (Round(h + j, c) = pos <=> j = q)
          /\ j + 1 \in 1..n /\ (j + 1 = q + 1 <=> j = q)
      BY <1>1, <1>5 DEF Round
    <2> HIDE DEF pos
    <2> QED
      BY <1>1, <1>3, <2>1
  <1> HIDE DEF w, pos
  <1>8. Array(w, c, h, t, z)
    <2>1. n <= c
      BY <1>1
    <2> QED
      BY <1>1, <1>3, <1>6, <1>7, <2>1 DEF Array, Places
  <1>9. Holds(f, z)
    BY <1>1, <1>3, <1>4, <1>8, DequeIs DEF Holds
  <1> QED
    BY <1>9 DEF f, z, pos, h, c

LEMMA ReversedKeeps ==
  ASSUME NEW e, NEW s, Holds(e, s)
  PROVE  Holds(Q!Reversed(e), Q!Reverse(s))
  <1> DEFINE c == e.cap
             h == e.head
             t == e.tail
             n == Len(s)
             w == [k \in DOMAIN e.v |-> IF (k - h) % c < n THEN e.v[Q!At(e, t - 1 - (k - h))] ELSE e.v[k]]
             z == Q!Reverse(s)
  <1>1. /\ c \in Nat \ {0} /\ h \in 0..(c - 1) /\ n \in Nat /\ n < c
        /\ t = Round(h + n, c) /\ t \in 0..(c - 1) /\ s \in Seq(DequeItem)
        /\ e.v \in [0..(c - 1) -> HeldItem]
        /\ \A j \in 0..(n - 1) : e.v[Round(h + j, c)] = s[j + 1]
    BY DEF Holds, Fills, Array, Places
  <1>2. e = Deque(e.v, c, h, t)
    BY DEF Holds, Fills
  <1>3. z \in Seq(DequeItem) /\ Len(z) = n /\ \A k \in 1..n : z[k] = s[n - k + 1]
    <2>1. \A k \in 1..n : n - k + 1 \in 1..n
      BY <1>1
    <2> HIDE DEF n
    <2>2. z = [k \in 1..n |-> s[n - k + 1]]
      BY DEF z, n, Q!Reverse
    <2>3. \A k \in 1..n : s[n - k + 1] \in DequeItem
      BY <1>1, <2>1 DEF n
    <2> QED
      BY <1>1, <2>2, <2>3
  <1>4. Q!Reversed(e) = Deque(w, c, h, t)
    <2>1. Q!Size(e) = n
      BY SizeIs
    <2>2. Q!Reversed(e) = [e EXCEPT !.v = w]
      BY <2>1 DEF Q!Reversed
    <2> HIDE DEF w
    <2> QED
      BY <1>2, <2>2 DEF Deque
  <1> HIDE DEF c, h, t, n, z
  <1>5. \A k \in 0..(c - 1) : Q!At(e, t - 1 - (k - h)) \in 0..(c - 1)
    BY <1>1 DEF Q!At, c
  <1>6. w \in [0..(c - 1) -> HeldItem]
    BY <1>1, <1>5
  <1>7. ASSUME NEW j \in 0..(n - 1) PROVE w[Round(h + j, c)] = z[j + 1]
    <2> DEFINE k == Round(h + j, c)
               m == n - 1 - j
    <2>1. /\ k \in 0..(c - 1) /\ m \in 0..(n - 1) /\ j + 1 \in 1..n
          /\ n - (j + 1) + 1 = m + 1
      <3>1. c \in Nat \ {0} /\ h \in 0..(c - 1) /\ n \in Nat /\ n < c
        BY <1>1
      <3>2. k \in 0..(c - 1)
        BY <3>1 DEF Round
      <3>3. m \in 0..(n - 1) /\ j + 1 \in 1..n /\ n - (j + 1) + 1 = m + 1
        BY <3>1
      <3> QED
        BY <3>2, <3>3
    <2>2. (k - h) % c = j
      <3>1. k - h \in (-c)..(2 * c - 1) /\ Round(k - h, c) = j
        BY <1>1 DEF Round
      <3> HIDE DEF k, w
      <3> QED
        BY <1>1, <3>1, Rounds
    <2>3. Q!At(e, t - 1 - (k - h)) = Round(h + m, c)
      <3>1. t - 1 - (k - h) \in (-c)..(2 * c - 1) /\ Round(t - 1 - (k - h), c) = Round(h + m, c)
        BY <1>1 DEF Round
      <3> HIDE DEF k, m, w
      <3> QED
        BY <1>1, <3>1, AtIs DEF c
    <2> HIDE DEF k, m
    <2>4. w[k] = e.v[Q!At(e, t - 1 - (k - h))]
      <3>1. k \in DOMAIN e.v /\ j < n
        BY <1>1, <2>1
      <3>2. w[k] = IF (k - h) % c < n THEN e.v[Q!At(e, t - 1 - (k - h))] ELSE e.v[k]
        BY <3>1
      <3> HIDE DEF w
      <3> QED
        BY <2>2, <3>1, <3>2
    <2> HIDE DEF w
    <2>5. w[k] = s[m + 1] /\ z[j + 1] = s[m + 1]
      BY <1>1, <1>3, <2>1, <2>3, <2>4
    <2> QED
      BY <2>5 DEF k
  <1> HIDE DEF w
  <1>8. Array(w, c, h, t, z)
    <2>1. n <= c
      BY <1>1
    <2> QED
      BY <1>1, <1>3, <1>6, <1>7, <2>1 DEF Array, Places
  <1> QED
    BY <1>1, <1>3, <1>4, <1>8, DequeIs DEF Holds, z

-----------------------------------------------------------------------------
(* Rotating.                                                               *)

LEMMA TurnIs ==
  ASSUME NEW s \in Seq(DequeItem), Len(s) > 0, NEW a \in Int
  PROVE  /\ Q!Turn(s, a) \in Seq(DequeItem) /\ Len(Q!Turn(s, a)) = Len(s)
         /\ \A k \in 1..Len(s) : Q!Turn(s, a)[k] = s[((k - 1 - a) % Len(s)) + 1]
  <1> DEFINE n == Len(s)
             z == Q!Turn(s, a)
  <1>1. n \in Nat \ {0}
    OBVIOUS
  <1>2. z = [k \in 1..n |-> s[((k - 1 - a) % n) + 1]]
    BY DEF Q!Turn
  <1> HIDE DEF n, z
  <1>3. \A k \in 1..n : s[((k - 1 - a) % n) + 1] \in DequeItem
    <2> TAKE k \in 1..n
    <2>1. (k - 1 - a) % n \in 0..(n - 1)
      BY <1>1
    <2>2. ((k - 1 - a) % n) + 1 \in 1..n
      BY <1>1, <2>1
    <2> QED
      BY <2>2 DEF n
  <1> QED
    BY <1>1, <1>2, <1>3 DEF n, z

LEMMA TurnTurns ==
  ASSUME NEW s \in Seq(DequeItem), Len(s) > 0, NEW a \in Int, NEW b \in Int
  PROVE  Q!Turn(Q!Turn(s, a), b) = Q!Turn(s, a + b)
  <1> DEFINE n == Len(s)
             y == Q!Turn(s, a)
             z == Q!Turn(y, b)
  <1>1. n \in Nat \ {0} /\ a + b \in Int
    OBVIOUS
  <1>2. y \in Seq(DequeItem) /\ Len(y) = n /\ \A k \in 1..n : y[k] = s[((k - 1 - a) % n) + 1]
    BY TurnIs
  <1> HIDE DEF y, n
  <1>3. z \in Seq(DequeItem) /\ Len(z) = n /\ \A k \in 1..n : z[k] = y[((k - 1 - b) % n) + 1]
    <2>1. y \in Seq(DequeItem) /\ Len(y) > 0 /\ Len(y) = n
      BY <1>1, <1>2
    <2> QED
      BY <2>1, TurnIs
  <1>4. /\ Q!Turn(s, a + b) \in Seq(DequeItem) /\ Len(Q!Turn(s, a + b)) = n
        /\ \A k \in 1..n : Q!Turn(s, a + b)[k] = s[((k - 1 - (a + b)) % n) + 1]
    BY <1>1, TurnIs DEF n
  <1> HIDE DEF z
  <1>5. ASSUME NEW k \in 1..n PROVE z[k] = Q!Turn(s, a + b)[k]
    <2> DEFINE m == (k - 1 - b) % n
    <2>1. m \in 0..(n - 1)
      BY <1>1
    <2>2. (m + (-a)) % n = ((k - 1 - b) + (-a)) % n
      <3>1. k - 1 - b \in Int /\ -a \in Int
        BY <1>1
      <3> QED
        BY <1>1, <3>1, ModuloAdds
    <2> HIDE DEF m
    <2>3. /\ m + 1 \in 1..n /\ (m + 1) - 1 - a = m + (-a)
          /\ (k - 1 - b) + (-a) = k - 1 - (a + b)
      BY <1>1, <2>1
    <2>4. z[k] = y[m + 1]
      BY <1>3 DEF m
    <2>5. y[m + 1] = s[((m + (-a)) % n) + 1]
      BY <1>2, <2>3
    <2> QED
      BY <1>4, <2>2, <2>3, <2>4, <2>5
  <1> QED
    BY <1>3, <1>4, <1>5, SeqEqual DEF z, y

(* One item moved in an array. *)
Moved(v, a, b) == [[v EXCEPT ![a] = v[b]] EXCEPT ![b] = Q!Undefined]

LEMMA ShiftedIs ==
  ASSUME NEW v, NEW c \in Nat \ {0}, NEW h, NEW t, NEW a \in Int, NEW b \in Int,
         v \in [0..(c - 1) -> HeldItem]
  PROVE  /\ Q!Shifted(Deque(v, c, h, t), a, b) = Deque(Moved(v, a % c, b % c), c, h, t)
         /\ Moved(v, a % c, b % c) \in [0..(c - 1) -> HeldItem]
  <1> DEFINE e == Deque(v, c, h, t)
             m == a % c
             o == b % c
  <1>1. m \in 0..(c - 1) /\ o \in 0..(c - 1)
    OBVIOUS
  <1>2. Q!At(e, a) = m /\ Q!At(e, b) = o
    BY DequeIs DEF Q!At
  <1> HIDE DEF m, o
  <1>3. Q!Shifted(e, a, b) = [e EXCEPT !.v = Moved(v, m, o)]
    BY <1>2, DequeIs DEF Q!Shifted, Moved
  <1>4. Moved(v, m, o) \in [0..(c - 1) -> HeldItem]
    <2>1. Q!Undefined \in HeldItem /\ v[o] \in HeldItem
      BY <1>1 DEF HeldItem
    <2> QED
      BY <1>1, <2>1 DEF Moved
  <1>5. [e EXCEPT !.v = Moved(v, m, o)] = Deque(Moved(v, m, o), c, h, t)
    BY DEF Deque
  <1> QED
    BY <1>3, <1>4, <1>5 DEF m, o

(* The last item before the first one. *)
LEMMA TurnsRight ==
  ASSUME NEW v, NEW c, NEW h, NEW t, NEW s, Holds(Deque(v, c, h, t), s), Len(s) > 0
  PROVE  LET g == (h - 1) % c
             u == (t - 1) % c
         IN Holds(Deque(Moved(v, g, u), c, g, u), Q!Turn(s, 1))
  <1> DEFINE g == (h - 1) % c
             u == (t - 1) % c
             n == Len(s)
             w == Moved(v, g, u)
             z == Q!Turn(s, 1)
  <1>1. /\ c \in Nat \ {0} /\ h \in 0..(c - 1) /\ n \in Nat \ {0} /\ n < c
        /\ t = Round(h + n, c) /\ t \in 0..(c - 1) /\ s \in Seq(DequeItem)
        /\ v \in [0..(c - 1) -> HeldItem]
        /\ \A j \in 0..(n - 1) : v[Round(h + j, c)] = s[j + 1]
    BY DequeIs DEF Holds, Fills, Array, Places
  <1>2. /\ z \in Seq(DequeItem) /\ Len(z) = n
        /\ z[1] = s[n] /\ \A j \in 1..(n - 1) : z[j + 1] = s[j]
    <2>1. z \in Seq(DequeItem) /\ Len(z) = n /\ \A k \in 1..n : z[k] = s[((k - 1 - 1) % n) + 1]
      <3>1. s \in Seq(DequeItem) /\ Len(s) > 0 /\ 1 \in Int
        BY <1>1
      <3> HIDE DEF g, u, w
      <3> QED
        BY <3>1, TurnIs
    <2> HIDE DEF z, n, w, g, u
    <2>2. z[1] = s[n]
      <3>1. 1 - 1 - 1 = -1 /\ -1 \in (-n)..(2 * n - 1) /\ Round(-1, n) = n - 1 /\ 1 \in 1..n
        BY <1>1 DEF Round
      <3>2. (1 - 1 - 1) % n = n - 1
        BY <1>1, <3>1, Rounds
      <3>3. z[1] = s[((1 - 1 - 1) % n) + 1]
        BY <2>1, <3>1
      <3>4. (n - 1) + 1 = n
        BY <1>1
      <3> QED
        BY <3>2, <3>3, <3>4
    <2>3. ASSUME NEW j \in 1..(n - 1) PROVE z[j + 1] = s[j]
      <3>1. /\ j + 1 \in 1..n /\ (j + 1) - 1 - 1 = j - 1 /\ j - 1 \in (-n)..(2 * n - 1)
            /\ Round(j - 1, n) = j - 1 /\ (j - 1) + 1 = j
        BY <1>1 DEF Round
      <3>2. (j - 1) % n = j - 1
        BY <1>1, <3>1, Rounds
      <3> QED
        BY <2>1, <3>1, <3>2
    <2> QED
      BY <2>1, <2>2, <2>3
  <1>3. g = Round(h - 1, c) /\ u = Round(h + (n - 1), c) /\ g \in 0..(c - 1) /\ u \in 0..(c - 1)
    <2> HIDE DEF z, n, w
    <2>1. /\ h - 1 \in (-c)..(2 * c - 1) /\ t - 1 \in (-c)..(2 * c - 1)
          /\ Round(t - 1, c) = Round(h + (n - 1), c)
      BY <1>1 DEF Round
    <2> QED
      BY <1>1, <2>1, Rounds
  <1> HIDE DEF g, u, z, n
  <1>4. w \in [0..(c - 1) -> HeldItem] /\ g # u
    <2>1. Q!Undefined \in HeldItem /\ v[u] \in HeldItem
      BY <1>1, <1>3 DEF HeldItem
    <2>2. g # u
      BY <1>1, <1>3 DEF Round
    <2> QED
      BY <1>1, <1>3, <2>1, <2>2 DEF Moved
  <1>5. ASSUME NEW j \in 0..(n - 1) PROVE w[Round(g + j, c)] = z[j + 1]
    <2>1. CASE j = 0
      <3>1. Round(g + j, c) = g
        BY <1>1, <1>3, <2>1 DEF Round
      <3>2. w[g] = v[u] /\ v[u] = s[(n - 1) + 1] /\ (n - 1) + 1 = n
        <4>1. v \in [0..(c - 1) -> HeldItem] /\ n \in Nat /\ n > 0
          BY <1>1
        <4>2. n - 1 \in 0..(n - 1) /\ (n - 1) + 1 = n
          BY <4>1
        <4>3. v[u] = s[(n - 1) + 1]
          <5> HIDE DEF w
          <5> QED
            BY <1>1, <1>3, <4>2
        <4>4. w[g] = v[u]
          BY <1>3, <1>4, <4>1 DEF Moved
        <4> QED
          BY <4>2, <4>3, <4>4
      <3> HIDE DEF w
      <3> QED
        BY <1>2, <2>1, <3>1, <3>2
    <2>2. CASE j # 0
      <3>1. j \in 1..(n - 1) /\ j - 1 \in 0..(n - 1) /\ (j - 1) + 1 = j
        BY <1>1, <2>2
      <3>2. /\ Round(g + j, c) = Round(h + (j - 1), c) /\ Round(h + (j - 1), c) \in 0..(c - 1)
            /\ Round(h + (j - 1), c) # g /\ Round(h + (j - 1), c) # u
        <4> HIDE DEF w
        <4> QED
          BY <1>1, <1>3, <3>1 DEF Round
      <3>3. w[Round(h + (j - 1), c)] = v[Round(h + (j - 1), c)]
        BY <1>1, <1>3, <3>2 DEF Moved
      <3> HIDE DEF w
      <3> QED
        BY <1>1, <1>2, <3>1, <3>2, <3>3
    <2> QED
      BY <2>1, <2>2
  <1> HIDE DEF w
  <1>6. Array(w, c, g, u, z)
    <2>1. u = Round(g + n, c) /\ n <= c
      BY <1>1, <1>3 DEF Round
    <2> QED
      BY <1>1, <1>2, <1>3, <1>4, <1>5, <2>1 DEF Array, Places
  <1> QED
    BY <1>1, <1>2, <1>6, DequeIs DEF Holds, w, g, u, z

(* The first item after the last one. *)
LEMMA TurnsLeft ==
  ASSUME NEW v, NEW c, NEW h, NEW t, NEW s, Holds(Deque(v, c, h, t), s), Len(s) > 0
  PROVE  LET g == (h + 1) % c
             u == (t + 1) % c
         IN Holds(Deque(Moved(v, t, h), c, g, u), Q!Turn(s, -1))
  <1> DEFINE g == (h + 1) % c
             u == (t + 1) % c
             n == Len(s)
             w == Moved(v, t, h)
             z == Q!Turn(s, -1)
  <1>1. /\ c \in Nat \ {0} /\ h \in 0..(c - 1) /\ n \in Nat \ {0} /\ n < c
        /\ t = Round(h + n, c) /\ t \in 0..(c - 1) /\ s \in Seq(DequeItem)
        /\ v \in [0..(c - 1) -> HeldItem]
        /\ \A j \in 0..(n - 1) : v[Round(h + j, c)] = s[j + 1]
    BY DequeIs DEF Holds, Fills, Array, Places
  <1>2. /\ z \in Seq(DequeItem) /\ Len(z) = n
        /\ z[n] = s[1] /\ \A j \in 0..(n - 2) : z[j + 1] = s[j + 2]
    <2>1. z \in Seq(DequeItem) /\ Len(z) = n /\ \A k \in 1..n : z[k] = s[((k - 1 - (-1)) % n) + 1]
      <3>1. -1 \in Int
        OBVIOUS
      <3> QED
        BY <1>1, <3>1, TurnIs
    <2> HIDE DEF z, n, w, g, u
    <2>2. z[n] = s[1]
      <3>1. n - 1 - (-1) = n /\ n \in (-n)..(2 * n - 1) /\ Round(n, n) = 0 /\ n \in 1..n
        BY <1>1 DEF Round
      <3>2. (n - 1 - (-1)) % n = 0
        BY <1>1, <3>1, Rounds
      <3>3. z[n] = s[0 + 1] /\ 0 + 1 = 1
        BY <1>1, <2>1, <3>1, <3>2
      <3> QED
        BY <3>3
    <2>3. ASSUME NEW j \in 0..(n - 2) PROVE z[j + 1] = s[j + 2]
      <3>1. /\ j + 1 \in 1..n /\ (j + 1) - 1 - (-1) = j + 1 /\ j + 1 \in (-n)..(2 * n - 1)
            /\ Round(j + 1, n) = j + 1 /\ (j + 1) + 1 = j + 2
        BY <1>1 DEF Round
      <3>2. (j + 1) % n = j + 1
        BY <1>1, <3>1, Rounds
      <3> QED
        BY <2>1, <3>1, <3>2
    <2> QED
      BY <2>1, <2>2, <2>3
  <1>3. g = Round(h + 1, c) /\ u = Round(h + (n + 1), c) /\ g \in 0..(c - 1) /\ u \in 0..(c - 1)
    <2> HIDE DEF z, n, w
    <2>1. /\ h + 1 \in (-c)..(2 * c - 1) /\ t + 1 \in (-c)..(2 * c - 1)
          /\ Round(t + 1, c) = Round(h + (n + 1), c)
      BY <1>1 DEF Round
    <2> QED
      BY <1>1, <2>1, Rounds
  <1> HIDE DEF g, u, z, n
  <1>4. w \in [0..(c - 1) -> HeldItem] /\ h # t
    <2>1. Q!Undefined \in HeldItem /\ v[h] \in HeldItem
      BY <1>1 DEF HeldItem
    <2>2. h # t
      BY <1>1 DEF Round
    <2> QED
      BY <1>1, <2>1, <2>2 DEF Moved
  <1>5. ASSUME NEW j \in 0..(n - 1) PROVE w[Round(g + j, c)] = z[j + 1]
    <2>1. CASE j = n - 1
      <3>1. Round(g + j, c) = t /\ j + 1 = n /\ Round(h + 0, c) = h /\ 0 \in 0..(n - 1)
        <4> HIDE DEF w
        <4>1. Round(g + j, c) = Round(h + n, c)
          BY <1>1, <1>3, <2>1 DEF Round
        <4> QED
          BY <1>1, <2>1, <4>1 DEF Round
      <3>2. w[t] = v[h]
        BY <1>1, <1>4 DEF Moved
      <3>3. v[h] = s[0 + 1] /\ 0 + 1 = 1
        <4> HIDE DEF w
        <4>1. \A i \in 0..(n - 1) : v[Round(h + i, c)] = s[i + 1]
          BY <1>1
        <4>2. v[Round(h + 0, c)] = s[0 + 1]
          BY <3>1, <4>1
        <4> QED
          BY <3>1, <4>2
      <3> HIDE DEF w
      <3> QED
        BY <1>2, <3>1, <3>2, <3>3
    <2>2. CASE j # n - 1
      <3>1. j \in 0..(n - 2) /\ j + 1 \in 0..(n - 1) /\ (j + 1) + 1 = j + 2
        BY <1>1, <2>2
      <3>2. /\ Round(g + j, c) = Round(h + (j + 1), c) /\ Round(h + (j + 1), c) \in 0..(c - 1)
            /\ Round(h + (j + 1), c) # h /\ Round(h + (j + 1), c) # t
        <4> HIDE DEF w
        <4>1. /\ Round(g + j, c) = Round(h + (j + 1), c) /\ Round(h + (j + 1), c) \in 0..(c - 1)
              /\ Round(h + (j + 1), c) # h /\ Round(h + (j + 1), c) # Round(h + n, c)
          BY <1>1, <1>3, <3>1 DEF Round
        <4> QED
          BY <1>1, <4>1
      <3>3. w[Round(h + (j + 1), c)] = v[Round(h + (j + 1), c)]
        BY <1>1, <3>2 DEF Moved
      <3> HIDE DEF w
      <3> QED
        BY <1>1, <1>2, <3>1, <3>2, <3>3
    <2> QED
      BY <2>1, <2>2
  <1> HIDE DEF w
  <1>6. Array(w, c, g, u, z)
    <2>1. u = Round(g + n, c) /\ n <= c
      BY <1>1, <1>3 DEF Round
    <2> QED
      BY <1>1, <1>2, <1>3, <1>4, <1>5, <2>1 DEF Array, Places
  <1> QED
    BY <1>1, <1>2, <1>6, DequeIs, SMTT(20) DEF Holds, w, g, u, z

(* The steps of a rotation are a function. *)
LEMMA HasFirst ==
  ASSUME NEW S \in SUBSET Nat, S # {}
  PROVE  \E m \in S : \A j \in S : m <= j
  <1>1. PICK m \in S : \A j \in S : ~(<<j, m>> \in OpToRel(<, Nat))
    BY NatLessThanWellFounded, WFMin
  <1>2. ASSUME NEW j \in S PROVE m <= j
    <2>1. j \in Nat /\ m \in Nat /\ ~(j < m)
      BY <1>1 DEF OpToRel
    <2> QED
      BY <2>1
  <1> QED
    BY <1>2

ShiftFrom(e, n, f, k) ==
  IF n > 0 THEN Q!Shifted(f, e.head - k, e.tail - k)
  ELSE Q!Shifted(f, e.tail + k - 1, e.head + k - 1)
Shifts(e, n, m, f) ==
  f = [k \in 0..m |-> IF k = 0 THEN e ELSE ShiftFrom(e, n, f[k - 1], k)]

LEMMA ShiftsExist ==
  ASSUME NEW e, NEW n
  PROVE  \A m \in Nat : \E f : Shifts(e, n, m, f)
  <1> DEFINE Bad == {m \in Nat : ~(\E f : Shifts(e, n, m, f))}
  <1>1. SUFFICES ASSUME Bad # {} PROVE FALSE
    OBVIOUS
  <1>2. PICK m \in Bad : \A j \in Bad : m <= j
    <2>1. Bad \in SUBSET Nat
      OBVIOUS
    <2> HIDE DEF Bad
    <2> QED
      BY <1>1, <2>1, HasFirst
  <1>3. CASE m = 0
    <2> DEFINE f == [k \in 0..0 |-> e]
    <2>1. \A k \in 0..0 : k = 0
      OBVIOUS
    <2>2. Shifts(e, n, 0, f)
      BY <2>1 DEF Shifts
    <2> QED
      BY <1>3, <2>2
  <1>4. CASE m # 0
    <2>1. m \in Nat /\ m - 1 \in Nat /\ ~(m <= m - 1)
      BY <1>4
    <2>2. PICK f : Shifts(e, n, m - 1, f)
      BY <1>2, <2>1
    <2> DEFINE last == ShiftFrom(e, n, f[m - 1], m)
               g == [k \in 0..m |-> IF k = m THEN last ELSE f[k]]
    <2>3. \A k \in 0..(m - 1) : f[k] = IF k = 0 THEN e ELSE ShiftFrom(e, n, f[k - 1], k)
      BY <2>2 DEF Shifts
    <2>4. ASSUME NEW k \in 0..m
          PROVE  g[k] = IF k = 0 THEN e ELSE ShiftFrom(e, n, g[k - 1], k)
      <3> HIDE DEF last
      <3>1. CASE k = m
        <4>1. g[k] = last /\ k - 1 \in 0..m /\ k - 1 # m /\ g[k - 1] = f[k - 1]
          BY <2>1, <3>1
        <4> HIDE DEF g
        <4> QED
          BY <1>4, <3>1, <4>1 DEF last
      <3>2. CASE k = 0
        <4>1. k \in 0..(m - 1) /\ k # m
          BY <2>1, <3>2, <1>4
        <4>2. g[k] = f[k]
          BY <4>1
        <4> HIDE DEF g
        <4> QED
          BY <2>3, <3>2, <4>1, <4>2
      <3>3. CASE k # m /\ k # 0
        <4>1. k \in 0..(m - 1) /\ k - 1 \in 0..m /\ k - 1 # m
          BY <2>1, <3>3
        <4>2. g[k] = f[k] /\ g[k - 1] = f[k - 1]
          BY <3>3, <4>1
        <4> HIDE DEF g
        <4> QED
          BY <2>3, <3>3, <4>1, <4>2
      <3> QED
        BY <3>1, <3>2, <3>3
    <2>5. Shifts(e, n, m, g)
      <3>1. g = [k \in 0..m |-> g[k]]
        OBVIOUS
      <3> HIDE DEF g
      <3> QED
        BY <2>4, <3>1 DEF Shifts
    <2> HIDE DEF g
    <2> QED
      BY <1>2, <2>5
  <1> QED
    BY <1>3, <1>4

LEMMA RotatedIs ==
  ASSUME NEW e, NEW n \in Int
  PROVE  LET count == IF n > 0 THEN n ELSE -n
         IN \E f : /\ Shifts(e, n, count, f)
                   /\ Q!Rotated(e, n) = [f[count] EXCEPT !.head = Q!At(e, e.head - n),
                                                         !.tail = Q!At(e, e.tail - n)]
  <1> DEFINE count == IF n > 0 THEN n ELSE -n
             f == CHOOSE f : Shifts(e, n, count, f)
  <1>1. count \in Nat
    OBVIOUS
  <1>2. Shifts(e, n, count, f)
    BY <1>1, ShiftsExist
  <1>3. Q!Rotated(e, n) = [f[count] EXCEPT !.head = Q!At(e, e.head - n), !.tail = Q!At(e, e.tail - n)]
    BY DEF Q!Rotated, Shifts, ShiftFrom
  <1> QED
    BY <1>2, <1>3

LEMMA NoTurn ==
  ASSUME NEW s \in Seq(DequeItem), Len(s) > 0
  PROVE  Q!Turn(s, 0) = s
  <1> DEFINE n == Len(s)
             z == Q!Turn(s, 0)
  <1>1. n \in Nat \ {0} /\ 0 \in Int
    OBVIOUS
  <1>2. z \in Seq(DequeItem) /\ Len(z) = n /\ \A k \in 1..n : z[k] = s[((k - 1 - 0) % n) + 1]
    BY <1>1, TurnIs
  <1> HIDE DEF z
  <1>3. ASSUME NEW k \in 1..n PROVE z[k] = s[k]
    <2> HIDE DEF n
    <2>1. k - 1 - 0 = k - 1 /\ k - 1 \in (-n)..(2 * n - 1) /\ Round(k - 1, n) = k - 1 /\ (k - 1) + 1 = k
      BY <1>1 DEF Round
    <2>2. (k - 1) % n = k - 1
      BY <1>1, <2>1, Rounds
    <2> QED
      BY <1>2, <2>1, <2>2
  <1> QED
    BY <1>2, <1>3, SeqEqual DEF z

(* After k steps of rotating e by n. *)
Turned(e, s, n, f, k) ==
  LET a == IF n > 0 THEN k ELSE -k
  IN /\ f = Deque(f.v, e.cap, e.head, e.tail)
     /\ Holds(Deque(f.v, e.cap, (e.head - a) % e.cap, (e.tail - a) % e.cap), Q!Turn(s, a))

LEMMA ShiftTurns ==
  ASSUME NEW e, NEW s, Holds(e, s), Len(s) > 0, NEW n \in Int, NEW k \in Nat \ {0},
         NEW f, Turned(e, s, n, f, k - 1)
  PROVE  Turned(e, s, n, ShiftFrom(e, n, f, k), k)
  <1> DEFINE c == e.cap
             h == e.head
             t == e.tail
             x == f.v
             y == ShiftFrom(e, n, f, k)
  <1>1. /\ c \in Nat \ {0} /\ h \in 0..(c - 1) /\ t \in 0..(c - 1) /\ s \in Seq(DequeItem)
        /\ f = Deque(x, c, h, t)
    BY DEF Holds, Fills, Array, Places, Turned
  <1>2. CASE n > 0
    <2> DEFINE a == k - 1
               g == (h - a) % c
               u == (t - a) % c
               i == (h - k) % c
               j == (t - k) % c
               z == Q!Turn(s, a)
    <2>1. Holds(Deque(x, c, g, u), z)
      BY <1>2 DEF Turned
    <2>2. a \in Int /\ 1 \in Int /\ a + 1 = k /\ h - k \in Int /\ t - k \in Int
      BY <1>1
    <2>3. Len(z) = Len(s) /\ Q!Turn(z, 1) = Q!Turn(s, k)
      BY <1>1, <2>2, TurnIs, TurnTurns
    <2>4. (g - 1) % c = i /\ (u - 1) % c = j
      <3>1. h - a \in Int /\ t - a \in Int /\ -1 \in Int
        BY <1>1, <2>2
      <3>2. /\ (((h - a) % c) + (-1)) % c = ((h - a) + (-1)) % c
            /\ (((t - a) % c) + (-1)) % c = ((t - a) + (-1)) % c
        BY <1>1, <3>1, ModuloAdds
      <3>3. g \in Int /\ u \in Int
        BY <1>1, <3>1
      <3> HIDE DEF z
      <3>4. (h - a) + (-1) = h - k /\ (t - a) + (-1) = t - k
        BY <1>1
      <3> HIDE DEF g, u, a
      <3>5. g - 1 = g + (-1) /\ u - 1 = u + (-1)
        BY <3>3
      <3> QED
        BY <3>2, <3>4, <3>5 DEF g, u
    <2> HIDE DEF a, g, u, z
    <2>5. Holds(Deque(Moved(x, (g - 1) % c, (u - 1) % c), c, (g - 1) % c, (u - 1) % c), Q!Turn(z, 1))
      BY <2>1, <2>3, TurnsRight
    <2>6. y = Deque(Moved(x, i, j), c, h, t)
      <3>1. x \in [0..(c - 1) -> HeldItem]
        BY <2>1, DequeIs DEF Holds, Fills, Array, Places
      <3>2. y = Q!Shifted(Deque(x, c, h, t), h - k, t - k)
        BY <1>1, <1>2 DEF ShiftFrom
      <3> HIDE DEF x, y, c, h, t
      <3>3. \A p, q \in Int : Q!Shifted(Deque(x, c, h, t), p, q) = Deque(Moved(x, p % c, q % c), c, h, t)
        BY <1>1, <3>1, ShiftedIs
      <3> QED
        BY <2>2, <3>2, <3>3
    <2>7. Holds(Deque(Moved(x, i, j), c, i, j), Q!Turn(s, k))
      BY <2>3, <2>4, <2>5
    <2>8. y.v = Moved(x, i, j)
      <3> HIDE DEF x, y, c, h, t, i, j
      <3> QED
        BY <2>6, DequeIs
    <2> HIDE DEF x, y
    <2> QED
      BY <1>2, <2>6, <2>7, <2>8 DEF Turned, y
  <1>3. CASE ~(n > 0)
    <2> DEFINE a == -(k - 1)
               g == (h - a) % c
               u == (t - a) % c
               i == (h - (-k)) % c
               j == (t - (-k)) % c
               z == Q!Turn(s, a)
    <2>1. Holds(Deque(x, c, g, u), z)
      BY <1>3 DEF Turned
    <2>2. a \in Int /\ -1 \in Int /\ a + (-1) = -k /\ h + k - 1 \in Int /\ t + k - 1 \in Int
      BY <1>1
    <2>3. Len(z) = Len(s) /\ Q!Turn(z, -1) = Q!Turn(s, -k)
      BY <1>1, <2>2, TurnIs, TurnTurns
    <2>4. (g + 1) % c = i /\ (u + 1) % c = j
      <3>1. h - a \in Int /\ t - a \in Int /\ 1 \in Int
        BY <1>1, <2>2
      <3>2. /\ (((h - a) % c) + 1) % c = ((h - a) + 1) % c
            /\ (((t - a) % c) + 1) % c = ((t - a) + 1) % c
        BY <1>1, <3>1, ModuloAdds
      <3> HIDE DEF z
      <3>3. (h - a) + 1 = h - (-k) /\ (t - a) + 1 = t - (-k)
        BY <1>1
      <3> HIDE DEF a
      <3> QED
        BY <3>2, <3>3
    <2>5. (t + k - 1) % c = u /\ (h + k - 1) % c = g
      <3>1. t + k - 1 = t - a /\ h + k - 1 = h - a
        BY <1>1
      <3> HIDE DEF a
      <3> QED
        BY <3>1
    <2> HIDE DEF a, g, u, z
    <2>6. Holds(Deque(Moved(x, u, g), c, (g + 1) % c, (u + 1) % c), Q!Turn(z, -1))
      BY <2>1, <2>3, TurnsLeft
    <2>7. y = Deque(Moved(x, u, g), c, h, t)
      <3>1. x \in [0..(c - 1) -> HeldItem]
        BY <2>1, DequeIs DEF Holds, Fills, Array, Places
      <3>2. y = Q!Shifted(Deque(x, c, h, t), t + k - 1, h + k - 1)
        BY <1>1, <1>3 DEF ShiftFrom
      <3> HIDE DEF x, y, c, h, t
      <3>3. y = Deque(Moved(x, (t + k - 1) % c, (h + k - 1) % c), c, h, t)
        <4>1. \A p, q \in Int : Q!Shifted(Deque(x, c, h, t), p, q) = Deque(Moved(x, p % c, q % c), c, h, t)
          BY <1>1, <3>1, ShiftedIs
        <4> QED
          BY <2>2, <3>2, <4>1
      <3> QED
        BY <2>5, <3>3
    <2>8. Holds(Deque(Moved(x, u, g), c, i, j), Q!Turn(s, -k))
      BY <2>3, <2>4, <2>6
    <2>9. y.v = Moved(x, u, g)
      <3> HIDE DEF x, y, c, h, t
      <3> QED
        BY <2>7, DequeIs
    <2> HIDE DEF x, y
    <2> QED
      BY <1>3, <2>7, <2>8, <2>9 DEF Turned, y
  <1> QED
    BY <1>2, <1>3

LEMMA RotatedKeeps ==
  ASSUME NEW e, NEW s, Holds(e, s), Len(s) > 0, NEW n \in Int
  PROVE  Holds(Q!Rotated(e, n), Q!Turn(s, n))
  <1> DEFINE count == IF n > 0 THEN n ELSE -n
             a == IF n > 0 THEN count ELSE -count
  <1>1. PICK f : /\ Shifts(e, n, count, f)
                 /\ Q!Rotated(e, n) = [f[count] EXCEPT !.head = Q!At(e, e.head - n),
                                                       !.tail = Q!At(e, e.tail - n)]
    BY RotatedIs
  <1>2. count \in Nat /\ a = n
    OBVIOUS
  <1>3. \A k \in 0..count : Turned(e, s, n, f[k], k)
    <2> DEFINE Bad == {k \in 0..count : ~Turned(e, s, n, f[k], k)}
    <2>1. SUFFICES ASSUME Bad # {} PROVE FALSE
      OBVIOUS
    <2> HIDE DEF count
    <2>2. PICK k \in Bad : \A j \in Bad : k <= j
      <3>1. Bad \in SUBSET Nat
        BY <1>2
      <3> HIDE DEF Bad
      <3> QED
        BY <2>1, <3>1, HasFirst
    <2>3. k \in 0..count /\ f[k] = IF k = 0 THEN e ELSE ShiftFrom(e, n, f[k - 1], k)
      BY <1>1 DEF Shifts
    <2>4. CASE k = 0
      <3>1. /\ e.cap \in Nat \ {0} /\ e.head \in 0..(e.cap - 1) /\ e.tail \in 0..(e.cap - 1)
            /\ s \in Seq(DequeItem) /\ e = Deque(e.v, e.cap, e.head, e.tail)
        BY DEF Holds, Fills, Array, Places
      <3>2. e.head % e.cap = e.head /\ e.tail % e.cap = e.tail
        <4> HIDE DEF Bad, a
        <4>1. /\ e.head \in (-e.cap)..(2 * e.cap - 1) /\ Round(e.head, e.cap) = e.head
              /\ e.tail \in (-e.cap)..(2 * e.cap - 1) /\ Round(e.tail, e.cap) = e.tail
          BY <3>1 DEF Round
        <4> QED
          BY <3>1, <4>1, Rounds
      <3>3. e.head - 0 = e.head /\ e.tail - 0 = e.tail /\ -0 = 0
        <4> HIDE DEF Bad, a
        <4>1. -0 \in Int /\ 0 + (-0) = 0 /\ \A i \in Int : 0 + i = 0 => i = 0
          OBVIOUS
        <4>2. -0 = 0
          BY <4>1, Zenon
        <4> QED
          BY <3>1, <4>2
      <3>4. Q!Turn(s, 0) = s
        BY <3>1, NoTurn
      <3>5. Turned(e, s, n, e, 0)
        BY <3>1, <3>2, <3>3, <3>4 DEF Turned
      <3> QED
        BY <2>3, <2>4, <3>5
    <2>5. CASE k # 0
      <3>1. k - 1 \in 0..count /\ ~(k <= k - 1) /\ k \in Nat \ {0}
        BY <1>2, <2>3, <2>5
      <3>2. Turned(e, s, n, f[k - 1], k - 1)
        BY <2>2, <3>1
      <3> QED
        BY <2>3, <2>5, <3>1, <3>2, ShiftTurns
    <2> QED
      BY <2>4, <2>5
  <1>4. Turned(e, s, n, f[count], count)
    <2> HIDE DEF count
    <2>1. count \in 0..count
      BY <1>2
    <2> QED
      BY <1>3, <2>1
  <1> DEFINE x == f[count].v
  <1>5. /\ f[count] = Deque(x, e.cap, e.head, e.tail)
        /\ Holds(Deque(x, e.cap, (e.head - a) % e.cap, (e.tail - a) % e.cap), Q!Turn(s, a))
    BY <1>4 DEF Turned
  <1> HIDE DEF x, count, a
  <1>6. Q!Rotated(e, n) = Deque(x, e.cap, Q!At(e, e.head - n), Q!At(e, e.tail - n))
    <2> DEFINE y == f[count]
               i == Q!At(e, e.head - n)
               j == Q!At(e, e.tail - n)
    <2>1. y = Deque(x, e.cap, e.head, e.tail) /\ Q!Rotated(e, n) = [y EXCEPT !.head = i, !.tail = j]
      BY <1>1, <1>5
    <2> HIDE DEF y, i, j
    <2>2. [y EXCEPT !.head = i, !.tail = j] = Deque(x, e.cap, i, j)
      BY <2>1 DEF Deque
    <2> QED
      BY <2>1, <2>2 DEF i, j
  <1> QED
    BY <1>2, <1>5, <1>6 DEF Q!At

-----------------------------------------------------------------------------
(* Adding several items.                                                   *)

Pushes(e, s, limit, m, f) ==
  f = [k \in 0..m |-> IF k = 0 THEN e ELSE Q!PushTo(f[k - 1], s[k], limit)]

LEMMA PushesExist ==
  ASSUME NEW e, NEW s, NEW limit
  PROVE  \A m \in Nat : \E f : Pushes(e, s, limit, m, f)
  <1> DEFINE Bad == {m \in Nat : ~(\E f : Pushes(e, s, limit, m, f))}
  <1>1. SUFFICES ASSUME Bad # {} PROVE FALSE
    OBVIOUS
  <1>2. PICK m \in Bad : \A j \in Bad : m <= j
    <2>1. Bad \in SUBSET Nat
      OBVIOUS
    <2> HIDE DEF Bad
    <2> QED
      BY <1>1, <2>1, HasFirst
  <1>3. CASE m = 0
    <2> DEFINE f == [k \in 0..0 |-> e]
    <2>1. \A k \in 0..0 : k = 0
      OBVIOUS
    <2>2. Pushes(e, s, limit, 0, f)
      BY <2>1 DEF Pushes
    <2> QED
      BY <1>3, <2>2
  <1>4. CASE m # 0
    <2>1. m \in Nat /\ m - 1 \in Nat /\ ~(m <= m - 1)
      BY <1>4
    <2>2. PICK f : Pushes(e, s, limit, m - 1, f)
      BY <1>2, <2>1
    <2> DEFINE newest == Q!PushTo(f[m - 1], s[m], limit)
               g == [k \in 0..m |-> IF k = m THEN newest ELSE f[k]]
    <2>3. \A k \in 0..(m - 1) : f[k] = IF k = 0 THEN e ELSE Q!PushTo(f[k - 1], s[k], limit)
      BY <2>2 DEF Pushes
    <2>4. ASSUME NEW k \in 0..m
          PROVE  g[k] = IF k = 0 THEN e ELSE Q!PushTo(g[k - 1], s[k], limit)
      <3> HIDE DEF newest
      <3>1. CASE k = m
        <4>1. g[k] = newest /\ k - 1 \in 0..m /\ k - 1 # m /\ g[k - 1] = f[k - 1]
          BY <2>1, <3>1
        <4> HIDE DEF g
        <4> QED
          BY <1>4, <3>1, <4>1 DEF newest
      <3>2. CASE k = 0
        <4>1. k \in 0..(m - 1) /\ k # m
          BY <2>1, <3>2, <1>4
        <4>2. g[k] = f[k]
          BY <4>1
        <4> HIDE DEF g
        <4> QED
          BY <2>3, <3>2, <4>1, <4>2
      <3>3. CASE k # m /\ k # 0
        <4>1. k \in 0..(m - 1) /\ k - 1 \in 0..m /\ k - 1 # m
          BY <2>1, <3>3
        <4>2. g[k] = f[k] /\ g[k - 1] = f[k - 1]
          BY <3>3, <4>1
        <4> HIDE DEF g
        <4> QED
          BY <2>3, <3>3, <4>1, <4>2
      <3> QED
        BY <3>1, <3>2, <3>3
    <2>5. Pushes(e, s, limit, m, g)
      <3>1. g = [k \in 0..m |-> g[k]]
        OBVIOUS
      <3> HIDE DEF g
      <3> QED
        BY <2>4, <3>1 DEF Pushes
    <2> HIDE DEF g
    <2> QED
      BY <1>2, <2>5
  <1> QED
    BY <1>3, <1>4

LEMMA PushAllIs ==
  ASSUME NEW e, NEW s, Len(s) \in Nat, NEW limit
  PROVE  \E f : Pushes(e, s, limit, Len(s), f) /\ Q!PushAll(e, s, limit) = f[Len(s)]
  <1> DEFINE f == CHOOSE f : Pushes(e, s, limit, Len(s), f)
  <1>1. Pushes(e, s, limit, Len(s), f)
    BY PushesExist
  <1>2. Q!PushAll(e, s, limit) = f[Len(s)]
    BY DEF Q!PushAll, Pushes
  <1> QED
    BY <1>1, <1>2

(* What is dropped first need not be there. *)
LEMMA LastOfAgain ==
  ASSUME NEW u \in Seq(DequeItem), NEW x \in DequeItem, NEW limit, limit \in Nat \/ limit = NoMaxLen
  PROVE  Q!LastOf(Append(Q!LastOf(u, limit), x), limit) = Q!LastOf(Append(u, x), limit)
  <1>1. CASE limit = NoMaxLen \/ Len(u) <= limit
    BY <1>1 DEF Q!LastOf
  <1>2. CASE ~(limit = NoMaxLen \/ Len(u) <= limit)
    <2> DEFINE n == Len(u)
               r == SubSeq(u, n - limit + 1, n)
               y == Append(r, x)
               z == Append(u, x)
               p == SubSeq(y, 2, limit + 1)
               q == SubSeq(z, n - limit + 2, n + 1)
    <2>1. n \in Nat /\ limit \in Nat /\ limit < n /\ Q!LastOf(u, limit) = r
      BY <1>2 DEF Q!LastOf
    <2>2. r \in Seq(DequeItem) /\ Len(r) = limit /\ \A i \in 1..limit : r[i] = u[n - limit + i]
      <3>1. /\ n - limit + 1 \in Nat \ {0} /\ n \in 0..n /\ n - (n - limit + 1) + 1 = limit
            /\ (~(n - limit + 1 <= n) => limit = 0)
            /\ \A i \in 1..limit : (n - limit + 1) + i - 1 = n - limit + i
        BY <2>1
      <3> QED
        BY <3>1, PartIs
    <2> HIDE DEF n, r
    <2>3. y \in Seq(DequeItem) /\ Len(y) = limit + 1 /\ y[limit + 1] = x /\ \A i \in 1..limit : y[i] = r[i]
      BY <2>1, <2>2
    <2>4. z \in Seq(DequeItem) /\ Len(z) = n + 1 /\ z[n + 1] = x /\ \A i \in 1..n : z[i] = u[i]
      BY <2>1 DEF n
    <2> HIDE DEF y, z
    <2>5. Q!LastOf(y, limit) = p /\ Q!LastOf(z, limit) = q
      <3>1. /\ ~(limit + 1 <= limit) /\ ~(n + 1 <= limit) /\ (limit + 1) - limit + 1 = 2
            /\ (n + 1) - limit + 1 = n - limit + 2
        BY <2>1
      <3> QED
        BY <1>2, <2>3, <2>4, <3>1 DEF Q!LastOf
    <2>6. p \in Seq(DequeItem) /\ Len(p) = limit /\ \A i \in 1..limit : p[i] = y[i + 1]
      <3>1. /\ 2 \in Nat \ {0} /\ limit + 1 \in 0..Len(y) /\ (limit + 1) - 2 + 1 = limit
            /\ (~(2 <= limit + 1) => limit = 0) /\ \A i \in 1..limit : 2 + i - 1 = i + 1
        BY <2>1, <2>3
      <3> QED
        BY <2>3, <3>1, PartIs
    <2>7. q \in Seq(DequeItem) /\ Len(q) = limit /\ \A i \in 1..limit : q[i] = z[n - limit + 1 + i]
      <3>1. /\ n - limit + 2 \in Nat \ {0} /\ n + 1 \in 0..Len(z) /\ (n + 1) - (n - limit + 2) + 1 = limit
            /\ (~(n - limit + 2 <= n + 1) => limit = 0)
            /\ \A i \in 1..limit : (n - limit + 2) + i - 1 = n - limit + 1 + i
        BY <2>1, <2>4
      <3> QED
        BY <2>4, <3>1, PartIs
    <2> HIDE DEF p, q
    <2>8. ASSUME NEW i \in 1..limit PROVE p[i] = q[i]
      <3>1. CASE i = limit
        <4>1. n - limit + 1 + i = n + 1
          BY <2>1, <3>1
        <4> QED
          BY <2>3, <2>4, <2>6, <2>7, <3>1, <4>1
      <3>2. CASE i # limit
        <4>1. /\ i + 1 \in 1..limit /\ n - limit + 1 + i \in 1..n
              /\ n - limit + (i + 1) = n - limit + 1 + i
          BY <2>1, <3>2
        <4>2. p[i] = u[n - limit + (i + 1)]
          BY <2>2, <2>3, <2>6, <4>1
        <4>3. q[i] = u[n - limit + 1 + i]
          BY <2>4, <2>7, <4>1
        <4> QED
          BY <4>1, <4>2, <4>3
      <3> QED
        BY <3>1, <3>2
    <2>9. p = q
      BY <2>6, <2>7, <2>8, SeqEqual
    <2> QED
      BY <2>1, <2>5, <2>9 DEF y, z
  <1> QED
    BY <1>1, <1>2

LEMMA PushAllKeeps ==
  ASSUME NEW e, NEW y, Holds(e, y), NEW s \in Seq(DequeItem), NEW limit, Limited(y, limit)
  PROVE  LET z == Q!LastOf(y \o s, limit)
         IN Holds(Q!PushAll(e, s, limit), z) /\ Limited(z, limit)
  <1> DEFINE n == Len(s)
             u(k) == y \o SubSeq(s, 1, k)
             Pushed(g, k) == Holds(g, Q!LastOf(u(k), limit)) /\ Limited(Q!LastOf(u(k), limit), limit)
  <1>1. n \in Nat /\ y \in Seq(DequeItem) /\ (limit \in Nat \/ limit = NoMaxLen)
    BY DEF Holds, Fills, Array, Limited
  <1>2. PICK f : Pushes(e, s, limit, n, f) /\ Q!PushAll(e, s, limit) = f[n]
    BY <1>1, PushAllIs
  <1>3. \A k \in 0..n : f[k] = IF k = 0 THEN e ELSE Q!PushTo(f[k - 1], s[k], limit)
    BY <1>2 DEF Pushes
  <1>4. u(0) = y /\ u(n) = y \o s
    BY <1>1, SubSeqFull, SubSeqEmpty, ConcatEmptySeq
  <1>5. ASSUME NEW k \in 1..n
        PROVE  /\ u(k - 1) \in Seq(DequeItem) /\ s[k] \in DequeItem
               /\ u(k) = Append(u(k - 1), s[k])
    <2> DEFINE a == SubSeq(s, 1, k - 1)
               b == SubSeq(s, 1, k)
    <2>1. k - 1 \in 0..n /\ k \in 1..n /\ 1 \in 1..n /\ k \in 1..Len(s) /\ s[k] \in DequeItem
      BY <1>1
    <2>2. b = a \o <<s[k]>>
      BY <2>1, SubSeqRecursiveSecond
    <2>3. a \in Seq(DequeItem)
      BY <2>1, PartIs
    <2> HIDE DEF a, b, n
    <2>4. y \o (a \o <<s[k]>>) = Append(y \o a, s[k])
      <3>1. y \o (a \o <<s[k]>>) = (y \o a) \o <<s[k]>>
        BY <1>1, <2>1, <2>3, ConcatAssociative, SMTT(20)
      <3>2. y \o a \in Seq(DequeItem)
        BY <1>1, <2>3
      <3> HIDE DEF u
      <3> QED
        BY <2>1, <3>1, <3>2
    <2>5. y \o a \in Seq(DequeItem)
      BY <1>1, <2>3
    <2> QED
      BY <2>1, <2>2, <2>4, <2>5 DEF a, b
  <1> HIDE DEF u
  <1>6. Pushed(f[0], 0)
    <2>1. f[0] = e
      BY <1>1, <1>3
    <2>2. Q!LastOf(y, limit) = y
      BY DEF Limited, Q!LastOf
    <2> QED
      BY <1>4, <2>1, <2>2
  <1>7. ASSUME NEW k \in 1..n, Pushed(f[k - 1], k - 1) PROVE Pushed(f[k], k)
    <2> DEFINE v == Q!LastOf(u(k - 1), limit)
    <2>1. f[k] = Q!PushTo(f[k - 1], s[k], limit)
      <3>1. k \in 0..n /\ k # 0
        BY <1>1
      <3> QED
        BY <1>3, <3>1
    <2>2. Holds(f[k - 1], v) /\ Limited(v, limit) /\ s[k] \in DequeItem
      BY <1>5, <1>7
    <2>3. Q!LastOf(Append(v, s[k]), limit) = Q!LastOf(u(k), limit)
      BY <1>1, <1>5, LastOfAgain, ZenonT(30)
    <2> HIDE DEF v
    <2>4. Holds(Q!PushTo(f[k - 1], s[k], limit), Q!LastOf(Append(v, s[k]), limit))
          /\ Limited(Q!LastOf(Append(v, s[k]), limit), limit)
      BY <2>2, PushKeeps
    <2> QED
      BY <2>1, <2>3, <2>4
  <1> HIDE DEF Pushed
  <1>8. \A k \in 0..n : Pushed(f[k], k)
    <2> DEFINE Bad == {k \in 0..n : ~Pushed(f[k], k)}
    <2>1. SUFFICES ASSUME Bad # {} PROVE FALSE
      OBVIOUS
    <2>2. PICK k \in Bad : \A j \in Bad : k <= j
      <3>1. Bad \in SUBSET Nat
        BY <1>1
      <3> HIDE DEF Bad
      <3> QED
        BY <2>1, <3>1, HasFirst
    <2>3. k # 0
      BY <1>6
    <2>4. k \in 1..n /\ k - 1 \in 0..n /\ ~(k <= k - 1)
      BY <1>1, <2>3
    <2>5. Pushed(f[k - 1], k - 1)
      BY <2>2, <2>4
    <2> QED
      BY <1>7, <2>4, <2>5
  <1>9. Pushed(f[n], n)
    BY <1>1, <1>8
  <1> QED
    BY <1>2, <1>4, <1>9 DEF Pushed

-----------------------------------------------------------------------------
(* The operations.                                                         *)

(* While deletions have counted right, the deque has its items, and not    *)
(* more than it may.                                                       *)
DequeInv ==
  /\ items \in Seq(DequeItem)
  /\ counted => Holds(deque, items) /\ Limited(items, maxlen)
  /\ maxlen \in Nat \/ maxlen = NoMaxLen

LEMMA NoItems ==
  ASSUME NEW limit, limit \in Nat \/ limit = NoMaxLen
  PROVE  Holds(Q!Cleared, <<>>) /\ Limited(<<>>, limit)
  <1>1. Q!Cleared = Deque(Q!EmptyArray(2), 2, 0, 0)
    BY DEF Q!Cleared, Deque
  <1>2. Q!EmptyArray(2) \in [0..(2 - 1) -> HeldItem]
    BY DEF Q!EmptyArray, HeldItem
  <1>3. <<>> \in Seq(DequeItem) /\ Len(<<>>) = 0 /\ Round(0 + 0, 2) = 0 /\ 0 \in 0..(2 - 1) /\ 0..(0 - 1) = {}
    BY EmptySeq DEF Round
  <1>4. Array(Q!EmptyArray(2), 2, 0, 0, <<>>)
    BY <1>2, <1>3 DEF Array, Places
  <1>5. Fills(Q!Cleared, <<>>) /\ Q!Cleared.cap = 2
    BY <1>1, <1>4, DequeIs
  <1> QED
    BY <1>3, <1>5 DEF Holds, Limited

LEMMA DequeInit == LengthsAreNumbers /\ Q!Init => DequeInv
  <1> SUFFICES ASSUME LengthsAreNumbers, Q!Init PROVE DequeInv
    OBVIOUS
  <1>1. maxlen \in Nat \/ maxlen = NoMaxLen
    BY DEF LengthsAreNumbers, Q!Init
  <1>2. <<>> \in Seq(DequeItem)
    BY EmptySeq
  <1> QED
    BY <1>1, <1>2, NoItems DEF Q!Init, DequeInv

(* The place of an index, from the head or from the tail. *)
LEMMA PlaceIs ==
  ASSUME NEW e, NEW s, Holds(e, s), NEW i \in -Len(s)..Len(s)
  PROVE  LET q == IF i >= 0 THEN i ELSE Len(s) + i
         IN Q!At(e, (IF i >= 0 THEN e.head ELSE e.tail) + i) = Round(e.head + q, e.cap)
  <1> DEFINE c == e.cap
             h == e.head
             t == e.tail
             n == Len(s)
             q == IF i >= 0 THEN i ELSE n + i
             a == (IF i >= 0 THEN h ELSE t) + i
  <1>1. /\ c \in Nat \ {0} /\ h \in 0..(c - 1) /\ n \in Nat /\ n < c
        /\ t = Round(h + n, c) /\ t \in 0..(c - 1)
    BY DEF Holds, Fills, Array, Places
  <1>2. i \in -n..n
    OBVIOUS
  <1> HIDE DEF c, h, t, n
  <1>3. a \in (-c)..(2 * c - 1) /\ Round(a, c) = Round(h + q, c)
    BY <1>1, <1>2 DEF Round
  <1> HIDE DEF a
  <1>4. Q!At(e, a) = Round(a, c)
    BY <1>1, <1>3, AtIs DEF c
  <1> QED
    BY <1>3, <1>4 DEF a, c, h, t, n

(* The deque becomes e, with the items s. *)
LEMMA BecomesKeeps ==
  ASSUME DequeInv, NEW e, NEW s, Q!Becomes(e, s), Holds(e, s), Limited(s, maxlen)
  PROVE  DequeInv'
  <1>1. s \in Seq(DequeItem)
    BY DEF Holds, Fills, Array
  <1> QED
    BY <1>1 DEF Q!Becomes, DequeInv

(* Fewer items are not more than there may be. *)
LEMMA FewerItems ==
  ASSUME NEW s, NEW z, NEW limit, Limited(s, limit), Len(s) \in Nat, Len(z) \in Nat,
         limit = NoMaxLen \/ Len(z) <= Len(s)
  PROVE  Limited(z, limit)
  BY DEF Limited

LEMMA EndsKeep ==
  ASSUME DequeInv, counted, Q!AppendItem \/ Q!AppendLeft \/ Q!PopItem \/ Q!PopLeftItem \/ Q!Clear
  PROVE  DequeInv'
  <1>1. Holds(deque, items) /\ Limited(items, maxlen) /\ items \in Seq(DequeItem)
    BY DEF DequeInv
  <1>2. CASE Q!AppendItem
    <2>1. PICK x \in DequeItem : Q!Becomes(Q!PushTo(deque, x, maxlen), Q!LastOf(Append(items, x), maxlen))
      BY <1>2 DEF Q!AppendItem
    <2> QED
      BY <1>1, <2>1, PushKeeps, BecomesKeeps
  <1>3. CASE Q!AppendLeft
    <2>1. PICK x \in DequeItem : Q!Becomes(Q!PushLeftTo(deque, x, maxlen), Q!FirstOf(<<x>> \o items, maxlen))
      BY <1>3 DEF Q!AppendLeft
    <2> QED
      BY <1>1, <2>1, PushLeftKeeps, BecomesKeeps
  <1>4. ASSUME deque.head # deque.tail PROVE Len(items) \in Nat /\ Len(items) > 0 /\ items # <<>>
    BY <1>1, <1>4 DEF Holds, Fills, Array, Places, Round
  <1>5. CASE Q!PopItem
    <2> DEFINE z == SubSeq(items, 1, Len(items) - 1)
    <2>1. deque.head # deque.tail /\ Q!Becomes(Q!Pop(deque), z)
      BY <1>5 DEF Q!PopItem, Q!Front
    <2>2. Len(items) > 0 /\ Holds(Q!Pop(deque), z)
      BY <1>1, <1>4, <2>1, PopKeeps
    <2>3. Len(items) \in Nat /\ Len(z) \in Nat /\ Len(z) <= Len(items)
      <3>1. /\ Len(items) - 1 \in 0..Len(items) /\ 1 \in Nat \ {0}
            /\ (Len(items) - 1) - 1 + 1 = Len(items) - 1 /\ Len(items) \in Nat
        BY <1>4, <2>1
      <3> QED
        BY <1>1, <3>1, PartIs
    <2> HIDE DEF z
    <2>4. Limited(z, maxlen)
      BY <1>1, <2>3, FewerItems
    <2> QED
      BY <2>1, <2>2, <2>4, BecomesKeeps
  <1>6. CASE Q!PopLeftItem
    <2>1. deque.head # deque.tail /\ Q!Becomes(Q!PopLeft(deque), Tail(items))
      BY <1>6 DEF Q!PopLeftItem
    <2>2. Len(items) > 0 /\ Holds(Q!PopLeft(deque), Tail(items))
      BY <1>1, <1>4, <2>1, PopLeftKeeps
    <2>3. Len(items) \in Nat /\ Len(Tail(items)) \in Nat /\ Len(Tail(items)) <= Len(items)
      BY <1>1, <1>4, <2>1, HeadTailProperties
    <2>4. Limited(Tail(items), maxlen)
      BY <1>1, <2>3, FewerItems
    <2> QED
      BY <2>1, <2>2, <2>4, BecomesKeeps
  <1>7. CASE Q!Clear
    <2>1. Holds(Q!Cleared, <<>>) /\ Limited(<<>>, maxlen)
      BY NoItems DEF DequeInv
    <2> QED
      BY <1>7, <2>1, BecomesKeeps DEF Q!Clear
  <1> QED
    BY <1>2, <1>3, <1>5, <1>6, <1>7

LEMMA InsertKeeps == ASSUME DequeInv, counted, Q!Insert PROVE DequeInv'
  <1> DEFINE n == Len(items)
             c == deque.cap
             h == deque.head
  <1>1. /\ Holds(deque, items) /\ Limited(items, maxlen) /\ items \in Seq(DequeItem) /\ n \in Nat
        /\ Q!Size(deque) = n
    BY SizeIs DEF DequeInv
  <1>2. PICK x \in DequeItem, i \in -(n + 1)..n + 1 :
          LET index == IF i > n THEN n ELSE IF i <= -n THEN 0 ELSE i
              pos == Q!At(deque, (IF index >= 0 THEN h ELSE deque.tail) + index)
              place == IF index >= 0 THEN index + 1 ELSE n + index + 1
          IN /\ maxlen = NoMaxLen \/ n < maxlen
             /\ Q!Becomes(Q!Grown(Q!Widened(deque, pos, x)), Q!InsertAt(items, place, x))
    BY <1>1 DEF Q!Insert
  <1> DEFINE index == IF i > n THEN n ELSE IF i <= -n THEN 0 ELSE i
             q == IF index >= 0 THEN index ELSE n + index
             z == Q!InsertAt(items, q + 1, x)
             f == Q!Widened(deque, Round(h + q, c), x)
  <1>3. index \in -n..n /\ q \in 0..n
    BY <1>1, <1>2
  <1>4. (IF index >= 0 THEN index + 1 ELSE n + index + 1) = q + 1
    BY <1>1, <1>3
  <1>5. Q!At(deque, (IF index >= 0 THEN h ELSE deque.tail) + index) = Round(h + q, c)
    <2> HIDE DEF index
    <2> QED
      BY <1>1, <1>3, PlaceIs
  <1>6. Q!Becomes(Q!Grown(f), z) /\ (maxlen = NoMaxLen \/ n < maxlen)
    BY <1>2, <1>4, <1>5
  <1>7. z \in Seq(DequeItem) /\ Len(z) = n + 1 /\ Fills(f, z)
    <2> HIDE DEF index, q
    <2> QED
      BY <1>1, <1>3, WidenedKeeps
  <1> HIDE DEF z, f, n
  <1>8. Holds(Q!Grown(f), z)
    BY <1>1, <1>7, GrownKeeps
  <1>9. Limited(z, maxlen)
    BY <1>1, <1>6, <1>7 DEF Limited, n
  <1> QED
    BY <1>6, <1>8, <1>9, BecomesKeeps

LEMMA RemoveKeeps == ASSUME DequeInv, counted, Q!RemoveItem \/ Q!DeleteItem PROVE DequeInv'
  <1> DEFINE n == Len(items)
             After(q) == [Q!Closed(deque, Round(deque.head + q, deque.cap)) EXCEPT !.tail = Q!At(deque, deque.tail - 1)]
  <1>1. /\ Holds(deque, items) /\ Limited(items, maxlen) /\ items \in Seq(DequeItem) /\ n \in Nat
        /\ Q!Size(deque) = n
    BY SizeIs DEF DequeInv
  <1>2. ASSUME NEW q \in 0..(n - 1)
        PROVE  /\ Holds(After(q), Q!RemoveAt(items, q + 1))
               /\ Limited(Q!RemoveAt(items, q + 1), maxlen)
               /\ Q!RemoveAt(items, q + 1) \in Seq(DequeItem)
    <2>1. Holds(After(q), Q!RemoveAt(items, q + 1))
      BY <1>1, <1>2, ClosedKeeps
    <2>2. q + 1 \in 1..n
      BY <1>1
    <2>3. Q!RemoveAt(items, q + 1) \in Seq(DequeItem) /\ Len(Q!RemoveAt(items, q + 1)) = n - 1
      BY <1>1, <2>2, RemovedAt, SameRemoval
    <2>4. n - 1 \in Nat /\ n - 1 <= n
      BY <1>1, <2>2
    <2>5. Limited(Q!RemoveAt(items, q + 1), maxlen)
      BY <1>1, <2>3, <2>4, FewerItems
    <2> QED
      BY <2>1, <2>3, <2>5
  <1> HIDE DEF n
  <1>3. CASE Q!RemoveItem
    <2>1. PICK q \in 0..(n - 1) :
            Q!Becomes(Q!Shrunk([Q!Closed(deque, Q!At(deque, deque.head + q)) EXCEPT !.tail = Q!At(deque, deque.tail - 1)]),
                      Q!RemoveAt(items, q + 1))
      BY <1>1, <1>3 DEF Q!RemoveItem
    <2>2. Q!At(deque, deque.head + q) = Round(deque.head + q, deque.cap)
      <3>1. q \in -n..n /\ q >= 0
        BY <1>1
      <3> QED
        BY <1>1, <3>1, PlaceIs DEF n
    <2>3. Q!Becomes(Q!Shrunk(After(q)), Q!RemoveAt(items, q + 1))
      BY <2>1, <2>2
    <2> HIDE DEF After
    <2>4. Holds(Q!Shrunk(After(q)), Q!RemoveAt(items, q + 1))
      BY <1>2, ShrunkKeeps
    <2> QED
      BY <1>2, <2>3, <2>4, BecomesKeeps
  <1>4. CASE Q!DeleteItem
    <2>1. PICK i \in -n..(n - 1) :
            LET pos == Q!At(deque, (IF i >= 0 THEN deque.head ELSE deque.tail) + i)
                closed == [Q!Closed(deque, pos) EXCEPT !.tail = Q!At(deque, deque.tail - 1)]
            IN /\ deque' = IF Q!TooFew(deque, n) THEN Q!Resize(closed, n, deque.cap \div 2) ELSE closed
               /\ counted' = ~Q!TooFew(deque, n)
               /\ items' = Q!RemoveAt(items, IF i >= 0 THEN i + 1 ELSE Len(items) + i + 1)
               /\ UNCHANGED maxlen
      BY <1>1, <1>4 DEF Q!DeleteItem
    <2> DEFINE q == IF i >= 0 THEN i ELSE n + i
    <2>2. /\ q \in 0..(n - 1) /\ i \in -n..n
          /\ (IF i >= 0 THEN i + 1 ELSE n + i + 1) = q + 1
      BY <1>1
    <2>3. Q!At(deque, (IF i >= 0 THEN deque.head ELSE deque.tail) + i) = Round(deque.head + q, deque.cap)
      BY <1>1, <2>2, PlaceIs DEF n
    <2>4. items' = Q!RemoveAt(items, q + 1)
      BY <2>1, <2>2 DEF n
    <2>5. counted' => deque' = After(q)
      BY <2>1, <2>3
    <2> HIDE DEF After, q
    <2>6. /\ Holds(After(q), Q!RemoveAt(items, q + 1))
          /\ Limited(Q!RemoveAt(items, q + 1), maxlen)
          /\ Q!RemoveAt(items, q + 1) \in Seq(DequeItem)
      BY <1>2, <2>2
    <2>7. maxlen' = maxlen
      BY <2>1
    <2> QED
      BY <2>4, <2>5, <2>6, <2>7 DEF DequeInv
  <1> QED
    BY <1>3, <1>4

LEMMA ChangesKeep ==
  ASSUME DequeInv, counted, Q!SetItem \/ Q!Rotate \/ Q!ReverseItems
  PROVE  DequeInv'
  <1> DEFINE n == Len(items)
  <1>1. /\ Holds(deque, items) /\ Limited(items, maxlen) /\ items \in Seq(DequeItem) /\ n \in Nat
        /\ Q!Size(deque) = n
    BY SizeIs DEF DequeInv
  <1>2. ASSUME NEW z, Len(z) = n PROVE Limited(z, maxlen)
    BY <1>1, <1>2 DEF Limited
  <1>3. CASE Q!SetItem
    <2>1. PICK x \in DequeItem, i \in -n..(n - 1) :
            Q!Becomes([deque EXCEPT !.v[Q!At(deque, (IF i >= 0 THEN deque.head ELSE deque.tail) + i)] = x],
                      Q!ReplaceAt(items, IF i >= 0 THEN i + 1 ELSE Len(items) + i + 1, x))
      BY <1>1, <1>3 DEF Q!SetItem
    <2> DEFINE q == IF i >= 0 THEN i ELSE n + i
               z == Q!ReplaceAt(items, q + 1, x)
               f == [deque EXCEPT !.v[Round(deque.head + q, deque.cap)] = x]
    <2>2. /\ q \in 0..(n - 1) /\ i \in -n..n /\ q + 1 \in 1..n
          /\ (IF i >= 0 THEN i + 1 ELSE n + i + 1) = q + 1
      BY <1>1
    <2>3. Q!At(deque, (IF i >= 0 THEN deque.head ELSE deque.tail) + i) = Round(deque.head + q, deque.cap)
      BY <1>1, <2>2, PlaceIs
    <2>4. Q!Becomes(f, z)
      BY <2>1, <2>2, <2>3
    <2> HIDE DEF q
    <2>5. Holds(f, z)
      BY <1>1, <2>2, SetKeeps
    <2>6. Len(z) = n
      BY <1>1, <2>2, ExceptSeq DEF Q!ReplaceAt
    <2> HIDE DEF f, z
    <2> QED
      BY <1>2, <2>4, <2>5, <2>6, BecomesKeeps
  <1>4. CASE Q!Rotate
    <2>1. PICK k \in -(n + 1)..n + 1 : deque.head # deque.tail /\ Q!Becomes(Q!Rotated(deque, k), Q!Turn(items, k))
      BY <1>1, <1>4 DEF Q!Rotate
    <2>2. k \in Int /\ n > 0
      <3>1. deque.head # deque.tail => n > 0
        BY <1>1 DEF Holds, Fills, Array, Places, Round
      <3> QED
        BY <1>1, <2>1, <3>1
    <2>3. Holds(Q!Rotated(deque, k), Q!Turn(items, k)) /\ Len(Q!Turn(items, k)) = n
      BY <1>1, <2>2, RotatedKeeps, TurnIs
    <2> QED
      BY <1>2, <2>1, <2>3, BecomesKeeps
  <1>5. CASE Q!ReverseItems
    <2>1. Holds(Q!Reversed(deque), Q!Reverse(items))
      BY <1>1, ReversedKeeps
    <2>2. Len(Q!Reverse(items)) = n
      BY <1>1 DEF Q!Reverse
    <2> QED
      BY <1>2, <1>5, <2>1, <2>2, BecomesKeeps DEF Q!ReverseItems
  <1> QED
    BY <1>3, <1>4, <1>5

LEMMA InPlaceKeeps ==
  ASSUME DequeInv, counted, Q!InPlaceAdd \/ Q!InPlaceMultiply
  PROVE  DequeInv'
  <1>1. /\ Holds(deque, items) /\ Limited(items, maxlen) /\ items \in Seq(DequeItem)
        /\ Q!Contents(deque) = items
    BY SizeIs DEF DequeInv
  <1>2. CASE Q!InPlaceAdd
    <2>1. PICK x \in DequeItem : /\ deque' = Q!PushTo(deque, x, NoMaxLen) /\ maxlen' = NoMaxLen
                                 /\ items' = Append(items, x) /\ UNCHANGED counted
      BY <1>2 DEF Q!InPlaceAdd
    <2>2. Limited(items, NoMaxLen) /\ Q!LastOf(Append(items, x), NoMaxLen) = Append(items, x)
      BY DEF Limited, Q!LastOf
    <2>3. Holds(Q!PushTo(deque, x, NoMaxLen), Append(items, x))
      BY <1>1, <2>2, PushKeeps
    <2>4. Append(items, x) \in Seq(DequeItem)
      BY <1>1
    <2> QED
      BY <2>1, <2>3, <2>4 DEF DequeInv, Limited
  <1>3. CASE Q!InPlaceMultiply
    <2>1. PICK n \in {-1, 2} :
            Q!Becomes(IF n = 2 THEN Q!PushAll(IF n <= 0 THEN Q!Cleared ELSE deque,
                                              Q!Contents(IF n <= 0 THEN Q!Cleared ELSE deque), maxlen)
                               ELSE IF n <= 0 THEN Q!Cleared ELSE deque,
                      IF n = 2 THEN Q!LastOf(items \o items, maxlen) ELSE <<>>)
      BY <1>3 DEF Q!InPlaceMultiply
    <2>2. CASE n = 2
      <3>1. Q!Becomes(Q!PushAll(deque, items, maxlen), Q!LastOf(items \o items, maxlen))
        BY <1>1, <2>1, <2>2
      <3> QED
        BY <1>1, <3>1, PushAllKeeps, BecomesKeeps
    <2>3. CASE n = -1
      <3>1. Q!Becomes(Q!Cleared, <<>>)
        BY <2>1, <2>3
      <3>2. Holds(Q!Cleared, <<>>) /\ Limited(<<>>, maxlen)
        BY NoItems DEF DequeInv
      <3> QED
        BY <3>1, <3>2, BecomesKeeps
    <2> QED
      BY <2>2, <2>3
  <1> QED
    BY <1>2, <1>3

LEMMA DequeNext == DequeInv /\ [Q!Next]_Q!vars => DequeInv'
  <1> SUFFICES ASSUME DequeInv, [Q!Next]_Q!vars PROVE DequeInv'
    OBVIOUS
  <1>1. CASE Q!Next
    BY <1>1, EndsKeep, InsertKeeps, RemoveKeeps, ChangesKeep, InPlaceKeeps DEF Q!Next
  <1>2. CASE UNCHANGED Q!vars
    BY <1>2 DEF Q!vars, DequeInv
  <1> QED
    BY <1>1, <1>2

LEMMA DequeKeeps == DequeInv => Q!DequesAreSequences
  BY SizeIs DEF DequeInv, Q!DequesAreSequences

(* A deque holds what a sequence would after the same operations, however  *)
(* its array wraps, grows and shrinks (collections.js).                    *)
THEOREM DequesAreAlwaysSequences == Q!Spec => []DequesAreSequences
  <1>0. LengthsAreNumbers
    BY ProgramAssumption
  <1>1. Q!Init => DequeInv
    BY <1>0, DequeInit
  <1>2. DequeInv /\ [Q!Next]_Q!vars => DequeInv'
    BY DequeNext
  <1>3. DequeInv => Q!DequesAreSequences
    BY DequeKeeps
  <1> QED
    BY <1>1, <1>2, <1>3, PTL DEF Q!Spec, DequesAreSequences

-----------------------------------------------------------------------------
(* Costumes (Appearances).                                                 *)

(* Squares of s by s pixels, w of them in a row. *)
LEMMA Tiles ==
  ASSUME NEW s \in Nat \ {0}, NEW w \in Nat \ {0}, NEW n \in Int
  PROVE  n \in 0..(s * w - 1) <=> \E col \in 0..(w - 1), h \in 0..(s - 1) : n = s * col + h
  <1>1. ASSUME n \in 0..(s * w - 1)
        PROVE  \E col \in 0..(w - 1), h \in 0..(s - 1) : n = s * col + h
    <2> DEFINE col == n \div s
               h == n % s
    <2>1. col \in Int /\ h \in 0..(s - 1) /\ n = s * col + h
      OBVIOUS
    <2> HIDE DEF col, h
    <2>2. n >= 0 /\ n < s * w
      BY <1>1
    <2>3. col >= 0
      <3>1. SUFFICES ASSUME col <= -1 PROVE FALSE
        BY <2>1
      <3>2. s * col <= s * (-1)
        BY <2>1, <3>1
      <3> QED
        BY <2>1, <2>2, <3>2
    <2>4. col < w
      <3>1. SUFFICES ASSUME col >= w PROVE FALSE
        BY <2>1
      <3>2. s * col >= s * w
        BY <2>1, <3>1
      <3> QED
        BY <2>1, <2>2, <3>2
    <2> QED
      BY <2>1, <2>3, <2>4
  <1>2. ASSUME NEW col \in 0..(w - 1), NEW h \in 0..(s - 1), n = s * col + h
        PROVE  n \in 0..(s * w - 1)
    <2>1. s * col >= 0 /\ s * col <= s * (w - 1) /\ s * (w - 1) = s * w - s
      OBVIOUS
    <2> QED
      BY <1>2, <2>1
  <1> QED
    BY <1>1, <1>2

-----------------------------------------------------------------------------
(* Descriptors.                                                            *)

CostumeRecord == [label : STRING, file : DOMAIN ImageSize, centre : Int \X Int]
IsMeant(w, costume) ==
  /\ ~w.mistaken
  /\ costume = W!Costume(IF w.label = W!NoLabel THEN StemOf[w.file] ELSE w.label, w.file,
                         IF w.centre = <<>> THEN W!Middle(w.file) ELSE w.centre)

(* Elements of tuples, one after another. *)
Element == {W!Text(t) : t \in STRING} \cup {W!Number(i) : i \in Int}

LEMMA Parts ==
  ASSUME NEW E, NEW a \in Seq(E), NEW x \in E, NEW b \in Seq(E), NEW y \in E
  PROVE  LET s == a \o <<x>> \o b
             z == <<y>> \o Tail(s)
         IN /\ s \in Seq(E) /\ Len(s) = Len(a) + 1 + Len(b)
            /\ s[Len(a) + 1] = x
            /\ \A k \in 1..Len(a) : s[k] = a[k]
            /\ \A k \in 1..Len(b) : s[Len(a) + 1 + k] = b[k]
            /\ z \in Seq(E) /\ Len(z) = Len(s) /\ z[1] = y
  <1> DEFINE s == a \o <<x>> \o b
  <1>1. /\ s \in Seq(E) /\ Len(s) = Len(a) + 1 + Len(b)
        /\ s[Len(a) + 1] = x
        /\ \A k \in 1..Len(a) : s[k] = a[k]
        /\ \A k \in 1..Len(b) : s[Len(a) + 1 + k] = b[k]
    OBVIOUS
  <1> HIDE DEF s
  <1>2. Tail(s) \in Seq(E) /\ Len(Tail(s)) = Len(s) - 1
    BY <1>1
  <1>3. <<y>> \o Tail(s) \in Seq(E) /\ Len(<<y>> \o Tail(s)) = Len(s) /\ (<<y>> \o Tail(s))[1] = y
    BY <1>2
  <1> QED
    BY <1>1, <1>3 DEF s

LEMMA DescribedAsMeant ==
  ASSUME CostumesAreWritten, NEW w \in CostumeMeant, W!IsValid(W!Written(w)),
         w.bare => ~w.mistaken /\ w.label = W!NoLabel /\ w.centre = <<>>
  PROVE  IsMeant(w, W!Described(W!Written(w))) /\ W!Described(W!Written(w)) \in CostumeRecord
  <1> DEFINE f == w.file
             m == w.centre
             label == IF w.label = W!NoLabel THEN <<>> ELSE <<W!Text(w.label)>>
             centre == [k \in DOMAIN m |-> W!Number(m[k])]
             all == label \o <<W!Text(f)>> \o centre
  <1>1. /\ f \in DOMAIN ImageSize /\ StemOf[f] \in STRING /\ W!Middle(f) \in Int \X Int
        /\ w.label \in STRING /\ m \in Seq(Int)
    BY DEF CostumesAreWritten, CostumeMeant, W!Middle
  <1>2. \A t : W!IsText(W!Text(t)) /\ W!Text(t).text = t
    BY DEF W!IsText, W!Text
  <1>3. \A n : ~W!IsText(W!Number(n)) /\ W!Number(n).number = n
    BY DEF W!IsText, W!Number
  <1>4. CASE w.bare
    <2>1. W!Written(w) = W!Bare(f)
      BY <1>4 DEF W!Written
    <2>2. W!Described(W!Written(w)) = W!Costume(StemOf[f], f, W!Middle(f))
      BY <2>1 DEF W!Described, W!Bare
    <2> QED
      BY <1>1, <1>4, <2>2 DEF IsMeant, W!Costume, CostumeRecord
  <1>5. CASE ~w.bare
    <2> DEFINE l == Len(label)
               n == Len(m)
               s == IF w.mistaken THEN <<W!Number(0)>> \o Tail(all) ELSE all
    <2>1. W!Written(w) = W!Tuple(s)
      BY <1>5 DEF W!Written
    <2>2. "tuple" \in DOMAIN W!Written(w) /\ W!Written(w).tuple = s /\ ~("bare" \in DOMAIN W!Written(w))
      BY <2>1 DEF W!Tuple
    <2>3. /\ l \in {0, 1} /\ n \in Nat /\ Len(centre) = n
          /\ l = 0 <=> w.label = W!NoLabel
          /\ l = 1 => label[1] = W!Text(w.label)
          /\ \A k \in 1..n : centre[k] = W!Number(m[k]) /\ m[k] \in Int
      BY <1>1
    <2>4. label \in Seq(Element) /\ centre \in Seq(Element) /\ W!Text(f) \in Element
          /\ W!Number(0) \in Element
      <3>1. /\ \A u \in STRING : W!Text(u) \in Element
            /\ \A i \in Int : W!Number(i) \in Element
        BY DEF Element
      <3>2. f \in STRING
        BY <1>1 DEF CostumesAreWritten
      <3>9. W!Number(0) \in Element
        BY DEF Element
      <3>10. W!Text(w.label) \in Element /\ W!Text(f) \in Element
        BY <1>1, <3>1, <3>2, Zenon
      <3>7. W!Text(w.label) \in Element /\ W!Text(f) \in Element /\ W!Number(0) \in Element
        BY <3>9, <3>10
      <3>8. <<>> \in Seq(Element) /\ <<W!Text(w.label)>> \in Seq(Element)
        BY <3>7
      <3>3. label \in Seq(Element)
        BY <3>8
      <3>4. \A k \in 1..Len(m) : W!Number(m[k]) \in Element
        BY <1>1, <3>1
      <3>5. centre = [k \in 1..Len(m) |-> W!Number(m[k])] /\ Len(m) \in Nat
        BY <1>1
      <3>6. centre \in Seq(Element)
        BY <3>4, <3>5
      <3> QED
        BY <3>3, <3>6, <3>7
    <2>5. /\ all \in Seq(Element) /\ Len(all) = l + 1 + n
          /\ all[l + 1] = W!Text(f)
          /\ l = 1 => all[1] = W!Text(w.label)
          /\ \A k \in 1..n : all[l + 1 + k] = W!Number(m[k])
          /\ w.mistaken => s \in Seq(Element) /\ Len(s) = l + 1 + n /\ s[1] = W!Number(0)
      <3> HIDE DEF label, centre
      <3>1. LET z == <<W!Number(0)>> \o Tail(all)
            IN /\ all \in Seq(Element) /\ Len(all) = l + 1 + Len(centre)
               /\ all[l + 1] = W!Text(f)
               /\ \A k \in 1..l : all[k] = label[k]
               /\ \A k \in 1..Len(centre) : all[l + 1 + k] = centre[k]
               /\ z \in Seq(Element) /\ Len(z) = Len(all) /\ z[1] = W!Number(0)
        BY <2>4, Parts
      <3> HIDE DEF all, l, n
      <3> QED
        BY <2>3, <3>1 DEF s
    <2> HIDE DEF label, centre, all, l
    <2>7. /\ s \in Seq(Element) /\ Len(s) = l + 1 + n
          /\ w.mistaken => s[1] = W!Number(0)
          /\ ~w.mistaken => s = all
      BY <2>5
    <2> HIDE DEF s, n
    <2>8. /\ Len(s) \in 1..4
          /\ \A k \in 1..Len(s) : W!IsText(s[k]) <=> k <= IF Len(s) \in {1, 3} THEN 1 ELSE 2
      <3>1. DOMAIN s = 1..Len(s)
        BY <2>7
      <3> QED
        BY <2>2, <3>1 DEF W!IsValid
    <2>9. ~w.mistaken
      <3>1. SUFFICES ASSUME w.mistaken PROVE FALSE
        OBVIOUS
      <3>2. ~W!IsText(s[1]) /\ 1 \in 1..Len(s)
        BY <1>3, <2>7, <2>8, <3>1
      <3> QED
        BY <2>8, <3>2
    <2>10. s = all /\ l + 1 + n \in 1..4
      BY <2>7, <2>8, <2>9
    <2>11. n \in {0, 2}
      <3>1. CASE l = 0
        <4>1. n # 1
          <5>1. SUFFICES ASSUME n = 1 PROVE FALSE
            OBVIOUS
          <5>2. ~W!IsText(s[2]) /\ 2 \in 1..Len(s) /\ Len(s) = 2
            BY <1>3, <2>5, <2>7, <2>10, <3>1, <5>1
          <5> QED
            BY <2>8, <5>2
        <4>2. n # 3
          <5>1. SUFFICES ASSUME n = 3 PROVE FALSE
            OBVIOUS
          <5>2. ~W!IsText(s[2]) /\ 2 \in 1..Len(s) /\ Len(s) = 4
            BY <1>3, <2>5, <2>7, <2>10, <3>1, <5>1
          <5> QED
            BY <2>8, <5>2
        <4> QED
          BY <2>3, <2>10, <3>1, <4>1, <4>2
      <3>2. CASE l = 1
        <4>1. n # 1
          <5>1. SUFFICES ASSUME n = 1 PROVE FALSE
            OBVIOUS
          <5>2. W!IsText(s[2]) /\ 2 \in 1..Len(s) /\ Len(s) = 3
            BY <1>2, <2>5, <2>7, <2>10, <3>2, <5>1
          <5> QED
            BY <2>8, <5>2
        <4> QED
          BY <2>3, <2>10, <3>2, <4>1
      <3> QED
        BY <2>3, <3>1, <3>2
    <2>12. W!Labelled(s) <=> l = 1
      BY <2>3, <2>7, <2>11 DEF W!Labelled
    <2>13. /\ s[IF W!Labelled(s) THEN 2 ELSE 1].text = f
           /\ W!Labelled(s) => s[1].text = w.label
      BY <1>2, <2>3, <2>5, <2>10, <2>12
    <2>14. n = 2 => s[Len(s) - 1].number = m[1] /\ s[Len(s)].number = m[2]
      BY <1>3, <2>3, <2>5, <2>7, <2>10
    <2>15. m = IF n = 2 THEN <<m[1], m[2]>> ELSE <<>>
      BY <1>1, <2>11, SMTT(20) DEF n
    <2>16. Len(s) > 2 <=> n = 2
      BY <2>3, <2>7, <2>11
    <2>17. W!Described(W!Written(w)) =
             W!Costume(IF W!Labelled(s) THEN w.label ELSE StemOf[f], f,
                       IF n = 2 THEN <<m[1], m[2]>> ELSE W!Middle(f))
      BY <2>2, <2>13, <2>14, <2>16 DEF W!Described
    <2>18. W!Described(W!Written(w)) =
             W!Costume(IF w.label = W!NoLabel THEN StemOf[f] ELSE w.label, f,
                       IF m = <<>> THEN W!Middle(f) ELSE m)
      BY <2>3, <2>11, <2>12, <2>15, <2>17
    <2>19. n = 2 => m[1] \in Int /\ m[2] \in Int
      BY <2>3
    <2>20. (IF m = <<>> THEN W!Middle(f) ELSE m) \in Int \X Int
      BY <1>1, <2>11, <2>15, <2>19
    <2> QED
      BY <1>1, <2>9, <2>18, <2>20 DEF IsMeant, W!Costume, CostumeRecord
  <1> QED
    BY <1>4, <1>5

-----------------------------------------------------------------------------
(* Registration, and changing costumes.                                    *)

Label == STRING \cup {W!NoLabel}
InstanceRecord ==
  [index : Int, shown : BOOLEAN, place : Int \X Int, size : Nat \ {0}, asked : Label]

Types(prog, reg, app, nam, inst) ==
  /\ prog \in Casts /\ reg \subseteq W!Class
  /\ app \in [W!Class -> Seq(CostumeRecord)]
  /\ nam \in [W!Class -> [set : BOOLEAN, list : Seq(STRING)]]
  /\ inst \in [W!Class -> InstanceRecord]

(* The labels of costumes, and which of them an instance wears. *)
LabelsOf(costumes) == [k \in DOMAIN costumes |-> costumes[k].label]
Meant(written, costumes) ==
  /\ Len(costumes) = Len(written)
  /\ \A k \in DOMAIN written : IsMeant(written[k], costumes[k])
Wears(costumes, i) ==
  /\ costumes # <<>> => i.index \in 0..(Len(costumes) - 1)
  /\ i.shown \/ i.asked # W!NoLabel => costumes # <<>>
  /\ i.asked # W!NoLabel => costumes[i.index + 1].label = i.asked

(* Class 2 goes by the names of class 1. *)
Borrowed(nam, c) == c = 2 /\ ~nam[2].set /\ nam[1].set

(* Registered classes have the costumes meant, cached names are the labels *)
(* of the class's own costumes, and an instance wears one of its costumes, *)
(* unless its class borrows names.                                         *)
Appearing(prog, reg, app, nam, inst) ==
  /\ Types(prog, reg, app, nam, inst)
  /\ \A c \in reg : Meant(prog[c].costumes, app[c])
  /\ \A c \in reg : ~Borrowed(nam, c) => Wears(app[c], inst[c])
  /\ \A c \in W!Class \ reg : inst[c].asked = W!NoLabel
  /\ \A c \in W!Class : nam[c].set => c \in reg /\ nam[c].list = LabelsOf(app[c])

AppearanceInv == Appearing(cast, registered, appearances, names, instance)

LEMMA NothingAppears == CostumesAreWritten /\ W!Init => AppearanceInv
  <1> SUFFICES ASSUME CostumesAreWritten, W!Init PROVE AppearanceInv
    OBVIOUS
  <1>1. W!NotSet.set = FALSE /\ W!NotSet \in [set : BOOLEAN, list : Seq(STRING)]
    BY DEF W!NotSet
  <1>2. [index |-> W!NoIndex, shown |-> FALSE, place |-> <<0, 0>>, size |-> 1, asked |-> W!NoLabel]
          \in InstanceRecord
    <2>1. W!NoIndex \in Int /\ <<0, 0>> \in Int \X Int /\ 1 \in Nat \ {0} /\ W!NoLabel \in Label
      <3>1. W!NoIndex \in Int
        BY DEF W!NoIndex
      <3>2. W!NoLabel \in Label
        BY DEF Label
      <3>3. 0 \in Int /\ 1 \in Nat \ {0}
        OBVIOUS
      <3>4. <<0, 0>> \in Int \X Int
        BY <3>3
      <3> QED
        BY <3>1, <3>2, <3>3, <3>4
    <2>2. FALSE \in BOOLEAN
      OBVIOUS
    <2> QED
      BY <2>1, <2>2, Zenon DEF InstanceRecord
  <1>3. Types(cast, registered, appearances, names, instance)
    BY <1>1, <1>2 DEF W!Init, Types
  <1> QED
    BY <1>1, <1>3 DEF W!Init, AppearanceInv, Appearing

(* Costumes of a program are written as CostumesAreWritten says. *)
LEMMA WrittenCostumes ==
  ASSUME CostumesAreWritten, NEW prog \in Casts, NEW c \in W!Class
  PROVE  LET s == prog[c].costumes
         IN /\ s \in Seq(CostumeMeant) /\ Len(s) \in Nat /\ DOMAIN s = 1..Len(s)
            /\ \A k \in DOMAIN s : /\ s[k] \in CostumeMeant
                                   /\ s[k].bare => ~s[k].mistaken /\ s[k].label = W!NoLabel
                                                     /\ s[k].centre = <<>>
  <1> DEFINE Ms == {w \in CostumeMeant : w.bare => ~w.mistaken /\ w.label = W!NoLabel /\ w.centre = <<>>}
             s == prog[c].costumes
  <1>1. s \in Seq(Ms)
    BY DEF CostumesAreWritten
  <1>2. \A m \in Ms : m \in CostumeMeant /\ (m.bare => ~m.mistaken /\ m.label = W!NoLabel /\ m.centre = <<>>)
    OBVIOUS
  <1> HIDE DEF Ms, s
  <1>3. Len(s) \in Nat /\ DOMAIN s = 1..Len(s) /\ \A k \in 1..Len(s) : s[k] \in Ms
    BY <1>1
  <1>4. s \in Seq(CostumeMeant)
    BY <1>2, <1>3, <1>1
  <1> QED
    BY <1>2, <1>3, <1>4 DEF s

LEMMA RegisterKeeps ==
  ASSUME CostumesAreWritten, AppearanceInv, NEW c \in W!Class, W!RegisterActor(c)
  PROVE  AppearanceInv'
  <1> DEFINE s == cast[c].costumes
             costumes == [k \in DOMAIN s |-> W!Written(s[k])]
             all == [k \in DOMAIN costumes |-> W!Described(costumes[k])]
             i == [instance[c] EXCEPT
                     !.index = IF costumes # <<>> THEN 0 ELSE W!NoIndex,
                     !.shown = IF cast[c].start = "either" THEN costumes # <<>>
                               ELSE cast[c].start = "shown"]
  <1>1. /\ c \notin registered /\ \A k \in DOMAIN costumes : W!IsValid(costumes[k])
        /\ cast[c].start = "shown" => costumes # <<>>
        /\ registered' = registered \cup {c}
        /\ appearances' = [appearances EXCEPT ![c] = all]
        /\ instance' = [instance EXCEPT ![c] = i]
        /\ cast' = cast /\ names' = names
    BY DEF W!RegisterActor
  <1>2. Types(cast, registered, appearances, names, instance)
    BY DEF AppearanceInv, Appearing
  <1>3. /\ Len(s) \in Nat /\ DOMAIN s = 1..Len(s) /\ DOMAIN costumes = 1..Len(s)
        /\ \A k \in DOMAIN s : costumes[k] = W!Written(s[k])
    BY <1>2, WrittenCostumes DEF Types
  <1>4. \A k \in DOMAIN s : IsMeant(s[k], all[k]) /\ all[k] \in CostumeRecord
    <2> SUFFICES ASSUME NEW k \in DOMAIN s
                 PROVE  IsMeant(s[k], all[k]) /\ all[k] \in CostumeRecord
      OBVIOUS
    <2>1. /\ s[k] \in CostumeMeant /\ W!IsValid(W!Written(s[k])) /\ all[k] = W!Described(W!Written(s[k]))
          /\ s[k].bare => ~s[k].mistaken /\ s[k].label = W!NoLabel /\ s[k].centre = <<>>
      BY <1>1, <1>2, <1>3, WrittenCostumes DEF Types
    <2> QED
      BY <2>1, DescribedAsMeant
  <1>5. all \in Seq(CostumeRecord) /\ Len(all) = Len(s)
    <2>1. all = [k \in 1..Len(s) |-> all[k]] /\ \A k \in 1..Len(s) : all[k] \in CostumeRecord
      BY <1>3, <1>4
    <2> HIDE DEF all, costumes, s
    <2> QED
      BY <1>3, <2>1
  <1>6. Meant(s, all)
    BY <1>4, <1>5 DEF Meant
  <1>7. instance[c].asked = W!NoLabel /\ ~names[c].set
    BY <1>1 DEF AppearanceInv, Appearing
  <1>8. costumes # <<>> <=> all # <<>>
    BY <1>3, <1>5
  <1>9. /\ i \in InstanceRecord
        /\ i.index = (IF costumes # <<>> THEN 0 ELSE W!NoIndex)
        /\ i.shown => costumes # <<>>
        /\ i.asked = W!NoLabel
    <2> DEFINE index == IF costumes # <<>> THEN 0 ELSE W!NoIndex
               shown == IF cast[c].start = "either" THEN costumes # <<>>
                        ELSE cast[c].start = "shown"
    <2>1. instance[c] \in InstanceRecord
      BY <1>2 DEF Types
    <2>2. index \in Int /\ shown \in BOOLEAN /\ (shown => costumes # <<>>)
      <3>1. index \in Int
        BY DEF W!NoIndex
      <3>2. shown => costumes # <<>>
        BY <1>1
      <3>3. shown \in BOOLEAN
        OBVIOUS
      <3> QED
        BY <3>1, <3>2, <3>3
    <2>3. i = [instance[c] EXCEPT !.index = index, !.shown = shown]
      OBVIOUS
    <2>4. index = (IF costumes # <<>> THEN 0 ELSE W!NoIndex)
      OBVIOUS
    <2> HIDE DEF index, shown, i, costumes
    <2> QED
      BY <1>7, <2>1, <2>2, <2>3, <2>4 DEF InstanceRecord
  <1>10. Wears(all, i)
    <2> HIDE DEF costumes, i
    <2>1. all # <<>> => 0 \in 0..(Len(all) - 1)
      BY <1>5
    <2> QED
      BY <1>8, <1>9, <2>1 DEF Wears
  <1> HIDE DEF s, costumes, all, i
  <1>11. Types(cast, registered', appearances', names, instance')
    BY <1>1, <1>2, <1>5, <1>9 DEF Types
  <1>12. \A e \in registered' :
           /\ Meant(cast[e].costumes, appearances'[e])
           /\ ~Borrowed(names, e) => Wears(appearances'[e], instance'[e])
    BY <1>1, <1>2, <1>6, <1>10 DEF AppearanceInv, Appearing, Types, s
  <1>13. \A e \in W!Class \ registered' : instance'[e].asked = W!NoLabel
    BY <1>1, <1>2 DEF AppearanceInv, Appearing, Types
  <1>14. \A e \in W!Class : names[e].set => e \in registered' /\ names[e].list = LabelsOf(appearances'[e])
    BY <1>1, <1>2, <1>7 DEF AppearanceInv, Appearing, Types
  <1> QED
    BY <1>1, <1>11, <1>12, <1>13, <1>14 DEF AppearanceInv, Appearing

(* An instance changes, and perhaps a class gets its names. *)
Changed(c, i) ==
  /\ registered' = registered /\ appearances' = appearances /\ cast' = cast
  /\ instance' = [instance EXCEPT ![c] = i]
  /\ i \in InstanceRecord
  /\ names' = names \/ W!EnsureNames(c)
  /\ ~W!Borrows(c) => Wears(appearances[c], i)

LEMMA ChangedKeeps ==
  ASSUME AppearanceInv, NEW c \in registered, NEW i, Changed(c, i)
  PROVE  AppearanceInv'
  <1>1. Types(cast, registered, appearances, names, instance) /\ c \in W!Class
    BY DEF AppearanceInv, Appearing, Types
  <1>2. /\ registered' = registered /\ appearances' = appearances /\ cast' = cast
        /\ instance' = [instance EXCEPT ![c] = i]
        /\ i \in InstanceRecord
        /\ names' = names \/ W!EnsureNames(c)
        /\ ~Borrowed(names, c) => Wears(appearances[c], i)
    BY DEF Changed, W!Borrows, Borrowed
  <1>3. /\ names' \in [W!Class -> [set : BOOLEAN, list : Seq(STRING)]]
        /\ \A e \in W!Class : names'[e].set => e \in registered /\ names'[e].list = LabelsOf(appearances[e])
        /\ \A e \in W!Class : Borrowed(names, e) => Borrowed(names', e)
    <2>1. \A e \in W!Class : names[e].set => e \in registered /\ names[e].list = LabelsOf(appearances[e])
      BY DEF AppearanceInv, Appearing
    <2>2. CASE names' = names
      BY <1>1, <2>1, <2>2 DEF Types
    <2>3. CASE W!EnsureNames(c)
      <3>1. CASE W!Found(c).set
        BY <1>1, <2>1, <2>3, <3>1 DEF Types, W!EnsureNames
      <3>2. CASE ~W!Found(c).set
        <4> DEFINE new == [set |-> TRUE, list |-> LabelsOf(appearances[c])]
        <4>1. names' = [names EXCEPT ![c] = new]
          BY <2>3, <3>2 DEF W!EnsureNames, W!Labels, LabelsOf
        <4>2. appearances[c] \in Seq(CostumeRecord) /\ \A r \in CostumeRecord : r.label \in STRING
          BY <1>1 DEF Types, CostumeRecord
        <4>3. LabelsOf(appearances[c]) \in Seq(STRING)
          BY <4>2 DEF LabelsOf
        <4>4. new \in [set : BOOLEAN, list : Seq(STRING)] /\ new.list = LabelsOf(appearances[c])
          BY <4>3
        <4>5. \A e \in W!Class : Borrowed(names, e) => e = 2 /\ c # 2 /\ names'[2] = names[2] /\ names'[1].set
          <5>1. SUFFICES ASSUME Borrowed(names, 2)
                         PROVE  c # 2 /\ names'[2] = names[2] /\ names'[1].set
            BY DEF Borrowed
          <5>2. c # 2
            BY <3>2, <5>1 DEF Borrowed, W!Found
          <5>3. c = 1
            BY <1>1, <5>2 DEF W!Class
          <5> QED
            BY <1>1, <4>1, <5>1, <5>3 DEF Types, W!Class, Borrowed
        <4> HIDE DEF new
        <4>6. names' \in [W!Class -> [set : BOOLEAN, list : Seq(STRING)]]
          BY <1>1, <4>1, <4>4 DEF Types
        <4>7. \A e \in W!Class : names'[e].set => e \in registered /\ names'[e].list = LabelsOf(appearances[e])
          BY <1>1, <2>1, <4>1, <4>4 DEF Types
        <4> QED
          BY <4>5, <4>6, <4>7 DEF Borrowed
      <3> QED
        BY <3>1, <3>2
    <2> QED
      BY <1>2, <2>2, <2>3
  <1>4. Types(cast', registered', appearances', names', instance')
    BY <1>1, <1>2, <1>3 DEF Types
  <1>5. \A e \in registered' : Meant(cast'[e].costumes, appearances'[e])
    BY <1>2 DEF AppearanceInv, Appearing
  <1>6. \A e \in registered' : ~Borrowed(names', e) => Wears(appearances'[e], instance'[e])
    BY <1>1, <1>2, <1>3 DEF AppearanceInv, Appearing, Types
  <1>7. \A e \in W!Class \ registered' : instance'[e].asked = W!NoLabel
    BY <1>1, <1>2 DEF AppearanceInv, Appearing, Types
  <1> QED
    BY <1>2, <1>3, <1>4, <1>5, <1>6, <1>7 DEF AppearanceInv, Appearing

LEMMA LabelsAre ==
  ASSUME AppearanceInv, NEW c \in W!Class
  PROVE  /\ appearances[c] \in Seq(CostumeRecord) /\ instance[c] \in InstanceRecord
         /\ W!Labels(c) = LabelsOf(appearances[c]) /\ W!Labels(c) \in Seq(STRING)
         /\ Len(W!Labels(c)) = Len(appearances[c])
         /\ \A k \in 1..Len(appearances[c]) : W!Labels(c)[k] = appearances[c][k].label
  <1>1. appearances[c] \in Seq(CostumeRecord) /\ instance[c] \in InstanceRecord
    BY DEF AppearanceInv, Appearing, Types
  <1>2. \A r \in CostumeRecord : r.label \in STRING
    BY DEF CostumeRecord
  <1> DEFINE s == appearances[c]
  <1>3. W!Labels(c) = LabelsOf(s) /\ LabelsOf(s) = [k \in 1..Len(s) |-> s[k].label]
    BY <1>1 DEF W!Labels, LabelsOf
  <1>4. \A k \in 1..Len(s) : s[k].label \in STRING
    BY <1>1, <1>2
  <1> HIDE DEF s
  <1>5. /\ Len(s) \in Nat /\ LabelsOf(s) \in Seq(STRING) /\ Len(LabelsOf(s)) = Len(s)
        /\ \A k \in 1..Len(s) : LabelsOf(s)[k] = s[k].label
    BY <1>1, <1>3, <1>4 DEF s
  <1> QED
    BY <1>1, <1>3, <1>5 DEF s

LEMMA EnsuredAre ==
  ASSUME AppearanceInv, NEW c \in registered
  PROVE  /\ c \in W!Class /\ W!EnsuredNames(c) \in Seq(STRING)
         /\ ~W!Borrows(c) => W!EnsuredNames(c) = LabelsOf(appearances[c])
  <1>1. c \in W!Class /\ 1 \in W!Class /\ names \in [W!Class -> [set : BOOLEAN, list : Seq(STRING)]]
    BY DEF AppearanceInv, Appearing, Types, W!Class
  <1>2. \A e \in W!Class : names[e].list \in Seq(STRING)
    BY <1>1
  <1>3. \A e \in W!Class : names[e].set => names[e].list = LabelsOf(appearances[e])
    BY DEF AppearanceInv, Appearing
  <1>4. W!Labels(c) = LabelsOf(appearances[c]) /\ W!Labels(c) \in Seq(STRING)
    BY <1>1, LabelsAre
  <1>5. W!Found(c) = names[c] \/ W!Found(c) = names[1]
    BY DEF W!Found
  <1>6. W!EnsuredNames(c) \in Seq(STRING)
    BY <1>1, <1>2, <1>4, <1>5 DEF W!EnsuredNames
  <1>7. ASSUME ~W!Borrows(c) PROVE W!EnsuredNames(c) = LabelsOf(appearances[c])
    BY <1>1, <1>3, <1>4, <1>7 DEF W!EnsuredNames, W!Found, W!Borrows
  <1> QED
    BY <1>1, <1>6, <1>7

LEMMA FirstFound ==
  ASSUME NEW s \in Seq(STRING), NEW name, \E k \in DOMAIN s : s[k] = name
  PROVE  W!FirstOf(s, name) \in 1..Len(s) /\ s[W!FirstOf(s, name)] = name
  <1> DEFINE S == {k \in DOMAIN s : s[k] = name}
  <1>1. S \in SUBSET Nat /\ S # {} /\ DOMAIN s = 1..Len(s)
    OBVIOUS
  <1>2. PICK m \in S : \A j \in S : m <= j
    BY <1>1, HasFirst
  <1>3. \A j \in 1..(m - 1) : s[j] # name
    BY <1>1, <1>2
  <1>4. \E k \in DOMAIN s : s[k] = name /\ \A j \in 1..(k - 1) : s[j] # name
    BY <1>3
  <1> QED
    BY <1>1, <1>4 DEF W!FirstOf

(* The instance of class c wears one of the costumes, with the label asked *)
(* for, if any was.                                                        *)
LEMMA WearsCostume ==
  ASSUME AppearanceInv, NEW c \in registered, NEW n \in Int, NEW a \in Label,
         instance' = [instance EXCEPT ![c].index = n, ![c].asked = a],
         names' = names \/ W!EnsureNames(c), UNCHANGED <<cast, registered, appearances>>,
         ~W!Borrows(c) => /\ n \in 0..(Len(appearances[c]) - 1)
                          /\ a # W!NoLabel => appearances[c][n + 1].label = a
  PROVE  AppearanceInv'
  <1> DEFINE i == [instance[c] EXCEPT !.index = n, !.asked = a]
  <1>1. /\ c \in W!Class /\ instance \in [W!Class -> InstanceRecord]
        /\ appearances[c] \in Seq(CostumeRecord)
    BY LabelsAre DEF AppearanceInv, Appearing, Types
  <1>2. i \in InstanceRecord /\ i.index = n /\ i.asked = a
    <2>1. instance[c] \in InstanceRecord
      BY <1>1
    <2> QED
      BY <2>1 DEF InstanceRecord
  <1>3. instance' = [instance EXCEPT ![c] = i]
    BY <1>1
  <1> HIDE DEF i
  <1>4. ~W!Borrows(c) => Wears(appearances[c], i)
    <2> SUFFICES ASSUME ~W!Borrows(c) PROVE Wears(appearances[c], i)
      OBVIOUS
    <2>1. n \in 0..(Len(appearances[c]) - 1) /\ Len(appearances[c]) \in Nat
      BY <1>1
    <2>2. appearances[c] # <<>>
      BY <1>1, <2>1
    <2> QED
      BY <1>2, <2>1, <2>2 DEF Wears
  <1>5. Changed(c, i)
    BY <1>2, <1>3, <1>4 DEF Changed
  <1> QED
    BY <1>5, ChangedKeeps

LEMMA NothingWornChanges ==
  ASSUME AppearanceInv, NEW c \in registered, NEW i \in InstanceRecord,
         instance' = [instance EXCEPT ![c] = i],
         names' = names \/ W!EnsureNames(c), UNCHANGED <<cast, registered, appearances>>,
         i.index = instance[c].index, i.asked = instance[c].asked,
         i.shown => instance[c].shown \/ appearances[c] # <<>>
  PROVE  AppearanceInv'
  <1>1. ~W!Borrows(c) => Wears(appearances[c], instance[c])
    BY DEF AppearanceInv, Appearing, W!Borrows, Borrowed
  <1>2. ~W!Borrows(c) => Wears(appearances[c], i)
    BY <1>1 DEF Wears
  <1>3. Changed(c, i)
    BY <1>2 DEF Changed
  <1> QED
    BY <1>3, ChangedKeeps

LEMMA StaysTheSame ==
  ASSUME AppearanceInv, NEW c \in registered, instance' = instance,
         W!EnsureNames(c), UNCHANGED <<cast, registered, appearances>>
  PROVE  AppearanceInv'
  <1>1. c \in W!Class /\ instance \in [W!Class -> InstanceRecord]
    BY DEF AppearanceInv, Appearing, Types
  <1>2. instance' = [instance EXCEPT ![c] = instance[c]] /\ instance[c] \in InstanceRecord
    BY <1>1
  <1> QED
    BY <1>2, NothingWornChanges

LEMMA SwitchByNameKeeps ==
  ASSUME AppearanceInv, NEW c \in registered, W!SwitchByName(c)
  PROVE  AppearanceInv'
  <1>1. PICK name \in W!KnownNames :
          /\ W!EnsureNames(c)
          /\ instance' =
               IF \E k \in DOMAIN W!EnsuredNames(c) : W!EnsuredNames(c)[k] = name
               THEN [instance EXCEPT ![c].index = W!FirstOf(W!EnsuredNames(c), name) - 1,
                                     ![c].asked = name]
               ELSE instance
          /\ UNCHANGED <<cast, registered, appearances>>
    BY DEF W!SwitchByName
  <1>2. name \in Label
    <2>1. PICK e \in W!Class : name \in W!Range(W!Labels(e))
      BY DEF W!KnownNames
    <2>2. W!Labels(e) \in Seq(STRING)
      BY LabelsAre
    <2> QED
      BY <2>1, <2>2 DEF W!Range, Label
  <1>3. CASE \E k \in DOMAIN W!EnsuredNames(c) : W!EnsuredNames(c)[k] = name
    <2> DEFINE n == W!FirstOf(W!EnsuredNames(c), name)
    <2>1. W!EnsuredNames(c) \in Seq(STRING)
      BY EnsuredAre
    <2>2. n \in 1..Len(W!EnsuredNames(c)) /\ W!EnsuredNames(c)[n] = name
      BY <1>3, <2>1, FirstFound
    <2>3. ~W!Borrows(c) => /\ n - 1 \in 0..(Len(appearances[c]) - 1)
                           /\ appearances[c][n - 1 + 1].label = name
      <3> SUFFICES ASSUME ~W!Borrows(c) PROVE /\ n - 1 \in 0..(Len(appearances[c]) - 1)
                                              /\ appearances[c][n - 1 + 1].label = name
        OBVIOUS
      <3>1. W!EnsuredNames(c) = W!Labels(c) /\ c \in W!Class
        BY EnsuredAre, LabelsAre
      <3>2. /\ Len(W!Labels(c)) = Len(appearances[c]) /\ Len(appearances[c]) \in Nat
            /\ \A k \in 1..Len(appearances[c]) : W!Labels(c)[k] = appearances[c][k].label
        BY <3>1, LabelsAre
      <3> HIDE DEF n
      <3>3. n \in 1..Len(appearances[c]) /\ W!Labels(c)[n] = name
        BY <2>2, <3>1, <3>2
      <3>4. n - 1 + 1 = n /\ n - 1 \in 0..(Len(appearances[c]) - 1)
        BY <3>2, <3>3
      <3> QED
        BY <3>2, <3>3, <3>4
    <2>4. /\ instance' = [instance EXCEPT ![c].index = n - 1, ![c].asked = name]
          /\ n - 1 \in Int
      BY <1>1, <1>3, <2>2
    <2> HIDE DEF n
    <2> QED
      BY <1>1, <1>2, <2>3, <2>4, WearsCostume
  <1>4. CASE ~(\E k \in DOMAIN W!EnsuredNames(c) : W!EnsuredNames(c)[k] = name)
    BY <1>1, <1>4, StaysTheSame
  <1> QED
    BY <1>3, <1>4

LEMMA SwitchByNumberKeeps ==
  ASSUME AppearanceInv, NEW c \in registered, W!SwitchByNumber(c)
  PROVE  AppearanceInv'
  <1>1. PICK n \in -1..Len(W!EnsuredNames(c)) :
          /\ W!EnsureNames(c)
          /\ instance' = IF n >= 0 /\ n < Len(W!EnsuredNames(c))
                         THEN [instance EXCEPT ![c].index = n, ![c].asked = W!NoLabel]
                         ELSE instance
          /\ UNCHANGED <<cast, registered, appearances>>
    BY DEF W!SwitchByNumber
  <1>2. W!EnsuredNames(c) \in Seq(STRING) /\ Len(W!EnsuredNames(c)) \in Nat /\ n \in Int
    BY EnsuredAre
  <1>3. CASE n >= 0 /\ n < Len(W!EnsuredNames(c))
    <2>1. ~W!Borrows(c) => Len(W!EnsuredNames(c)) = Len(appearances[c])
      BY EnsuredAre, LabelsAre
    <2>2. ~W!Borrows(c) => n \in 0..(Len(appearances[c]) - 1)
      BY <1>2, <1>3, <2>1
    <2>3. W!NoLabel \in Label
      BY DEF Label
    <2>4. instance' = [instance EXCEPT ![c].index = n, ![c].asked = W!NoLabel]
      BY <1>1, <1>3
    <2> QED
      BY <1>1, <1>2, <2>2, <2>3, <2>4, WearsCostume
  <1>4. CASE ~(n >= 0 /\ n < Len(W!EnsuredNames(c)))
    BY <1>1, <1>4, StaysTheSame
  <1> QED
    BY <1>3, <1>4

LEMMA NextCostumeKeeps ==
  ASSUME AppearanceInv, NEW c \in registered, W!NextCostume(c)
  PROVE  AppearanceInv'
  <1>1. PICK n \in {-1, 1, 2} :
          /\ appearances[c] # <<>>
          /\ instance' = [instance EXCEPT ![c].index = W!Stepped(@, n, Len(appearances[c])),
                                          ![c].asked = W!NoLabel]
          /\ UNCHANGED <<cast, registered, appearances, names>>
    BY DEF W!NextCostume
  <1> DEFINE m == W!Stepped(instance[c].index, n, Len(appearances[c]))
  <1>2. /\ c \in W!Class /\ instance \in [W!Class -> InstanceRecord]
        /\ appearances[c] \in Seq(CostumeRecord)
    BY LabelsAre DEF AppearanceInv, Appearing, Types
  <1>3. Len(appearances[c]) \in Nat \ {0} /\ instance[c].index \in Int /\ n \in Int
    <2>1. instance[c] \in InstanceRecord
      BY <1>2
    <2>2. instance[c].index \in Int
      BY <2>1 DEF InstanceRecord
    <2> QED
      BY <1>1, <1>2, <2>2
  <1>4. \A k \in Int, l \in Nat \ {0} : k % l \in 0..(l - 1)
    OBVIOUS
  <1>5. m \in 0..(Len(appearances[c]) - 1) /\ m \in Int
    <2>1. instance[c].index + n \in Int
      BY <1>3
    <2>2. (instance[c].index + n) % Len(appearances[c]) \in 0..(Len(appearances[c]) - 1)
      BY <1>3, <1>4, <2>1
    <2> QED
      BY <1>3, <2>2 DEF W!Stepped
  <1>6. W!NoLabel \in Label
    BY DEF Label
  <1>7. instance' = [instance EXCEPT ![c].index = m, ![c].asked = W!NoLabel]
    BY <1>1, <1>2
  <1> HIDE DEF m
  <1> QED
    BY <1>1, <1>5, <1>6, <1>7, WearsCostume

LEMMA ShowKeeps ==
  ASSUME CostumesAreWritten, AppearanceInv, NEW c \in registered, W!Show(c)
  PROVE  AppearanceInv'
  <1>1. /\ cast[c].costumes # <<>>
        /\ instance' = [instance EXCEPT ![c].shown = TRUE]
        /\ UNCHANGED <<cast, registered, appearances, names>>
    BY DEF W!Show
  <1>2. /\ c \in W!Class /\ instance \in [W!Class -> InstanceRecord] /\ cast \in Casts
        /\ appearances[c] \in Seq(CostumeRecord)
    BY LabelsAre DEF AppearanceInv, Appearing, Types
  <1>3. Len(appearances[c]) = Len(cast[c].costumes)
    BY DEF AppearanceInv, Appearing, Meant
  <1>4. appearances[c] # <<>>
    BY <1>1, <1>2, <1>3, WrittenCostumes
  <1> DEFINE i == [instance[c] EXCEPT !.shown = TRUE]
  <1>5. i \in InstanceRecord /\ i.index = instance[c].index /\ i.asked = instance[c].asked
    <2>1. instance[c] \in InstanceRecord
      BY <1>2
    <2> QED
      BY <2>1 DEF InstanceRecord
  <1>6. instance' = [instance EXCEPT ![c] = i]
    BY <1>1, <1>2
  <1> HIDE DEF i
  <1> QED
    BY <1>1, <1>4, <1>5, <1>6, NothingWornChanges

LEMMA OthersKeep ==
  ASSUME CostumesAreWritten, AppearanceInv, NEW c \in registered,
         W!Hide(c) \/ W!GoToXY(c) \/ W!SetSize(c)
  PROVE  AppearanceInv'
  <1>1. c \in W!Class /\ instance \in [W!Class -> InstanceRecord] /\ instance[c] \in InstanceRecord
    BY DEF AppearanceInv, Appearing, Types
  <1>2. PICK i : /\ i \in InstanceRecord
                 /\ instance' = [instance EXCEPT ![c] = i]
                 /\ i.index = instance[c].index /\ i.asked = instance[c].asked
                 /\ i.shown => instance[c].shown
                 /\ UNCHANGED <<cast, registered, appearances, names>>
    <2>1. CASE W!Hide(c)
      <3> DEFINE i == [instance[c] EXCEPT !.shown = FALSE]
      <3>1. /\ i \in InstanceRecord /\ i.index = instance[c].index /\ i.asked = instance[c].asked
            /\ ~i.shown
        BY <1>1 DEF InstanceRecord
      <3>2. /\ instance' = [instance EXCEPT ![c] = i]
            /\ UNCHANGED <<cast, registered, appearances, names>>
        BY <1>1, <2>1 DEF W!Hide
      <3> HIDE DEF i
      <3> QED
        BY <3>1, <3>2
    <2>2. CASE W!GoToXY(c)
      <3>1. PICK p \in DrawnAt : /\ instance' = [instance EXCEPT ![c].place = p]
                                 /\ UNCHANGED <<cast, registered, appearances, names>>
        BY <2>2 DEF W!GoToXY
      <3>2. p \in Int \X Int
        BY DEF CostumesAreWritten
      <3> DEFINE i == [instance[c] EXCEPT !.place = p]
      <3>3. /\ i \in InstanceRecord /\ i.index = instance[c].index /\ i.asked = instance[c].asked
            /\ i.shown = instance[c].shown
        BY <1>1, <3>2 DEF InstanceRecord
      <3>4. instance' = [instance EXCEPT ![c] = i]
        BY <1>1, <3>1
      <3> HIDE DEF i
      <3> QED
        BY <3>1, <3>3, <3>4
    <2>3. CASE W!SetSize(c)
      <3>1. PICK s \in DrawnSizes : /\ instance' = [instance EXCEPT ![c].size = s]
                                    /\ UNCHANGED <<cast, registered, appearances, names>>
        BY <2>3 DEF W!SetSize
      <3>2. s \in Nat \ {0}
        BY DEF CostumesAreWritten
      <3> DEFINE i == [instance[c] EXCEPT !.size = s]
      <3>3. /\ i \in InstanceRecord /\ i.index = instance[c].index /\ i.asked = instance[c].asked
            /\ i.shown = instance[c].shown
        BY <1>1, <3>2 DEF InstanceRecord
      <3>4. instance' = [instance EXCEPT ![c] = i]
        BY <1>1, <3>1
      <3> HIDE DEF i
      <3> QED
        BY <3>1, <3>3, <3>4
    <2> QED
      BY <2>1, <2>2, <2>3
  <1> QED
    BY <1>2, NothingWornChanges

LEMMA AppearancesNext == CostumesAreWritten /\ AppearanceInv /\ [W!Next]_W!vars => AppearanceInv'
  <1> SUFFICES ASSUME CostumesAreWritten, AppearanceInv, [W!Next]_W!vars PROVE AppearanceInv'
    OBVIOUS
  <1>1. CASE UNCHANGED W!vars
    BY <1>1 DEF W!vars, AppearanceInv
  <1>2. ASSUME NEW c \in W!Class, W!RegisterActor(c) PROVE AppearanceInv'
    BY <1>2, RegisterKeeps
  <1>3. ASSUME NEW c \in registered, W!SwitchByName(c) PROVE AppearanceInv'
    BY <1>3, SwitchByNameKeeps
  <1>4. ASSUME NEW c \in registered, W!SwitchByNumber(c) PROVE AppearanceInv'
    BY <1>4, SwitchByNumberKeeps
  <1>5. ASSUME NEW c \in registered, W!NextCostume(c) PROVE AppearanceInv'
    BY <1>5, NextCostumeKeeps
  <1>6. ASSUME NEW c \in registered, W!CostumeName(c) PROVE AppearanceInv'
    BY <1>6, StaysTheSame DEF W!CostumeName
  <1>7. ASSUME NEW c \in registered, W!Show(c) PROVE AppearanceInv'
    BY <1>7, ShowKeeps
  <1>8. ASSUME NEW c \in registered, W!Hide(c) \/ W!GoToXY(c) \/ W!SetSize(c) PROVE AppearanceInv'
    BY <1>8, OthersKeep
  <1> QED
    BY <1>1, <1>2, <1>3, <1>4, <1>5, <1>6, <1>7, <1>8 DEF W!Next

-----------------------------------------------------------------------------
(* Touching.                                                               *)

InBox(box, x, y) == x >= box.left /\ x < box.right /\ y >= box.bottom /\ y < box.top

(* A box, of whole pixels. *)
BoxRecord == [left : Int, right : Int, top : Int, bottom : Int]

LEMMA DrawnInBox ==
  ASSUME CostumesAreWritten, AppearanceInv, NEW c \in registered, W!Drawable(c)
  PROVE  LET b == W!BoundingBox(c)
         IN /\ b \in BoxRecord /\ b.left < b.right /\ b.bottom < b.top
            /\ \A p : p \in W!Drawn(c) <=> \E x, y \in Int : p = <<x, y>> /\ InBox(b, x, y)
  <1> DEFINE i == instance[c]
             s == i.size
             a == W!Appearance(c)
             mx == a.centre[1]
             my == a.centre[2]
             px == i.place[1]
             py == i.place[2]
             w == W!Image(c)[1]
             h == W!Image(c)[2]
             b == W!BoundingBox(c)
             Column(col, u) == px + s * (col - mx) + u
             Row(row, v) == py + s * (my - row) - 1 - v
  <1>1. c \in W!Class /\ appearances[c] \in Seq(CostumeRecord) /\ i \in InstanceRecord
    BY LabelsAre DEF AppearanceInv, Appearing, Types
  <1>2. s \in Nat \ {0} /\ i.index \in Int /\ i.place \in Int \X Int
    <2> HIDE DEF i
    <2> QED
      BY <1>1 DEF InstanceRecord
  <1>3. px \in Int /\ py \in Int
    BY <1>2
  <1>4. a \in CostumeRecord
    BY <1>1, <1>2 DEF W!Drawable, W!Appearance
  <1>5. mx \in Int /\ my \in Int /\ a.file \in DOMAIN ImageSize
    <2> HIDE DEF a
    <2>1. a.centre \in Int \X Int /\ a.file \in DOMAIN ImageSize
      BY <1>4 DEF CostumeRecord
    <2> QED
      BY <2>1
  <1>6. w \in Nat \ {0} /\ h \in Nat \ {0}
    <2>1. W!Image(c) \in (Nat \ {0}) \X (Nat \ {0})
      BY <1>5 DEF W!Image, CostumesAreWritten
    <2> QED
      BY <2>1
  <1>7. /\ b.left = px - s * mx /\ b.right = b.left + s * w
        /\ b.top = py + s * my /\ b.bottom = b.top - s * h
        /\ b = [left |-> b.left, right |-> b.right, top |-> b.top, bottom |-> b.bottom]
    BY DEF W!BoundingBox
  <1>8. \A p : p \in W!Drawn(c) <=> \E u, v \in 0..(s - 1), col \in 0..(w - 1), row \in 0..(h - 1) :
                                    p = <<Column(col, u), Row(row, v)>>
    <2> DEFINE Square(col, row) == {<<Column(col, u), Row(row, v)>> : u, v \in 0..(s - 1)}
    <2>1. W!Drawn(c) = UNION {Square(col, row) : col \in 0..(w - 1), row \in 0..(h - 1)}
      BY DEF W!Drawn
    <2>2. \A p : p \in W!Drawn(c) <=>
            \E col \in 0..(w - 1), row \in 0..(h - 1) : p \in Square(col, row)
      <3> HIDE DEF Square, w, h
      <3> QED
        BY <2>1
    <2>3. \A col, row, p : p \in Square(col, row) <=>
            \E u, v \in 0..(s - 1) : p = <<Column(col, u), Row(row, v)>>
      <3> HIDE DEF Column, Row, s
      <3> QED
        OBVIOUS
    <2> HIDE DEF Square, Column, Row, s, w, h
    <2> QED
      BY <2>2, <2>3
  <1> HIDE DEF i, s, a, mx, my, px, py, w, h, b
  <1>9. s * w \in Int /\ s * w > 0 /\ s * h \in Int /\ s * h > 0 /\ s * mx \in Int /\ s * my \in Int
    BY <1>2, <1>5, <1>6
  <1>10. b \in BoxRecord /\ b.left < b.right /\ b.bottom < b.top
    <2>1. /\ b.left \in Int /\ b.right \in Int /\ b.top \in Int /\ b.bottom \in Int
          /\ b.left < b.right /\ b.bottom < b.top
      BY <1>3, <1>7, <1>9
    <2> QED
      BY <1>7, <2>1 DEF BoxRecord
  <1>11. ASSUME NEW x \in Int
         PROVE  x >= b.left /\ x < b.right <=>
                  \E col \in 0..(w - 1), u \in 0..(s - 1) : x = Column(col, u)
    <2> DEFINE n == x - b.left
    <2>1. n \in Int /\ (x >= b.left /\ x < b.right <=> n \in 0..(s * w - 1))
      BY <1>7, <1>9, <1>10 DEF BoxRecord
    <2>2. ASSUME NEW col \in 0..(w - 1), NEW u \in 0..(s - 1)
          PROVE  x = Column(col, u) <=> n = s * col + u
      <3>1. s * (col - mx) = s * col - s * mx /\ s * col \in Int
        BY <1>2, <1>5, <1>6
      <3> QED
        BY <1>2, <1>3, <1>7, <1>9, <3>1
    <2> HIDE DEF n, Column
    <2>3. n \in 0..(s * w - 1) <=> \E col \in 0..(w - 1), u \in 0..(s - 1) : n = s * col + u
      BY <1>2, <1>6, <2>1, Tiles
    <2> QED
      BY <2>1, <2>2, <2>3
  <1>12. ASSUME NEW y \in Int
         PROVE  y >= b.bottom /\ y < b.top <=>
                  \E row \in 0..(h - 1), v \in 0..(s - 1) : y = Row(row, v)
    <2> DEFINE n == b.top - 1 - y
    <2>1. n \in Int /\ (y >= b.bottom /\ y < b.top <=> n \in 0..(s * h - 1))
      BY <1>7, <1>9, <1>10 DEF BoxRecord
    <2>2. ASSUME NEW row \in 0..(h - 1), NEW v \in 0..(s - 1)
          PROVE  y = Row(row, v) <=> n = s * row + v
      <3> DEFINE up == s * my
                 down == s * row
      <3>1. s * (my - row) = up - down /\ down \in Int /\ up \in Int /\ b.top = py + up
        BY <1>2, <1>5, <1>6, <1>7
      <3>2. (n = s * row + v <=> n = down + v) /\ Row(row, v) = py + (up - down) - 1 - v
        BY <3>1
      <3> HIDE DEF up, down, Row
      <3>3. n = py + up - 1 - y
        BY <1>3, <3>1
      <3> HIDE DEF n
      <3> QED
        BY <1>3, <3>1, <3>2, <3>3
    <2> HIDE DEF n, Row
    <2>3. n \in 0..(s * h - 1) <=> \E row \in 0..(h - 1), v \in 0..(s - 1) : n = s * row + v
      BY <1>2, <1>6, <2>1, Tiles
    <2> QED
      BY <2>1, <2>2, <2>3
  <1>13. ASSUME NEW col \in 0..(w - 1), NEW u \in 0..(s - 1) PROVE Column(col, u) \in Int
    BY <1>2, <1>3, <1>5, <1>6
  <1>14. ASSUME NEW row \in 0..(h - 1), NEW v \in 0..(s - 1) PROVE Row(row, v) \in Int
    BY <1>2, <1>3, <1>5, <1>6
  <1> HIDE DEF Column, Row
  <1>15. ASSUME NEW p PROVE p \in W!Drawn(c) <=> \E x, y \in Int : p = <<x, y>> /\ InBox(b, x, y)
    <2>1. ASSUME p \in W!Drawn(c) PROVE \E x, y \in Int : p = <<x, y>> /\ InBox(b, x, y)
      <3>1. PICK u \in 0..(s - 1), v \in 0..(s - 1), col \in 0..(w - 1), row \in 0..(h - 1) :
              p = <<Column(col, u), Row(row, v)>>
        BY <1>8, <2>1
      <3>2. Column(col, u) \in Int /\ Row(row, v) \in Int
        BY <1>13, <1>14
      <3>3. InBox(b, Column(col, u), Row(row, v))
        BY <1>11, <1>12, <3>2 DEF InBox
      <3> QED
        BY <3>1, <3>2, <3>3
    <2>2. ASSUME NEW x \in Int, NEW y \in Int, p = <<x, y>>, InBox(b, x, y) PROVE p \in W!Drawn(c)
      <3>1. PICK col \in 0..(w - 1), u \in 0..(s - 1) : x = Column(col, u)
        BY <1>11, <2>2 DEF InBox
      <3>2. PICK row \in 0..(h - 1), v \in 0..(s - 1) : y = Row(row, v)
        BY <1>12, <2>2 DEF InBox
      <3> QED
        BY <1>8, <2>2, <3>1, <3>2
    <2> QED
      BY <2>1, <2>2
  <1> QED
    BY <1>10, <1>15 DEF b

(* Two boxes have a pixel in common if they overlap. *)
LEMMA CommonPixel ==
  ASSUME NEW a \in BoxRecord, NEW b \in BoxRecord, a.left < a.right, a.bottom < a.top,
         b.left < b.right, b.bottom < b.top
  PROVE  W!OverlapsWith(a, b) <=> \E x, y \in Int : InBox(a, x, y) /\ InBox(b, x, y)
  <1>1. /\ a.left \in Int /\ a.right \in Int /\ a.top \in Int /\ a.bottom \in Int
        /\ b.left \in Int /\ b.right \in Int /\ b.top \in Int /\ b.bottom \in Int
    BY DEF BoxRecord
  <1>2. ASSUME W!OverlapsWith(a, b)
        PROVE  \E x, y \in Int : InBox(a, x, y) /\ InBox(b, x, y)
    <2> DEFINE x == IF a.left < b.left THEN b.left ELSE a.left
               y == IF a.bottom < b.bottom THEN b.bottom ELSE a.bottom
    <2>1. x \in Int /\ y \in Int /\ InBox(a, x, y) /\ InBox(b, x, y)
      BY <1>1, <1>2 DEF W!OverlapsWith, InBox
    <2> QED
      BY <2>1
  <1>3. ASSUME NEW x \in Int, NEW y \in Int, InBox(a, x, y), InBox(b, x, y)
        PROVE  W!OverlapsWith(a, b)
    BY <1>1, <1>3 DEF W!OverlapsWith, InBox
  <1> QED
    BY <1>2, <1>3

LEMMA TouchingMeansOverlap ==
  ASSUME CostumesAreWritten, AppearanceInv, NEW c \in registered, NEW e \in registered,
         W!Drawable(c), W!Drawable(e)
  PROVE  W!OverlapsWith(W!BoundingBox(c), W!BoundingBox(e)) <=> W!Drawn(c) \cap W!Drawn(e) # {}
  <1> DEFINE a == W!BoundingBox(c)
             b == W!BoundingBox(e)
  <1>1. /\ a \in BoxRecord /\ a.left < a.right /\ a.bottom < a.top
        /\ \A p : p \in W!Drawn(c) <=> \E x, y \in Int : p = <<x, y>> /\ InBox(a, x, y)
    BY DrawnInBox
  <1>2. /\ b \in BoxRecord /\ b.left < b.right /\ b.bottom < b.top
        /\ \A p : p \in W!Drawn(e) <=> \E x, y \in Int : p = <<x, y>> /\ InBox(b, x, y)
    BY DrawnInBox
  <1> HIDE DEF a, b
  <1>3. W!OverlapsWith(a, b) <=> \E x, y \in Int : InBox(a, x, y) /\ InBox(b, x, y)
    BY <1>1, <1>2, CommonPixel
  <1>4. ASSUME NEW x \in Int, NEW y \in Int, InBox(a, x, y), InBox(b, x, y)
        PROVE  <<x, y>> \in W!Drawn(c) \cap W!Drawn(e)
    BY <1>1, <1>2, <1>4
  <1>5. ASSUME NEW p \in W!Drawn(c) \cap W!Drawn(e)
        PROVE  \E x, y \in Int : InBox(a, x, y) /\ InBox(b, x, y)
    <2>1. PICK x \in Int, y \in Int : p = <<x, y>> /\ InBox(a, x, y)
      BY <1>1
    <2>2. PICK u \in Int, v \in Int : p = <<u, v>> /\ InBox(b, u, v)
      BY <1>2
    <2>3. x = u /\ y = v
      BY <2>1, <2>2
    <2> QED
      BY <2>1, <2>2, <2>3
  <1> QED
    BY <1>3, <1>4, <1>5 DEF a, b

LEMMA AppearancesSuffice == CostumesAreWritten /\ AppearanceInv => W!CostumesAreWorn
  <1> SUFFICES ASSUME CostumesAreWritten, AppearanceInv PROVE W!CostumesAreWorn
    OBVIOUS
  <1>1. W!CostumesAreAsMeant
    <2> SUFFICES ASSUME NEW c \in registered, NEW k \in DOMAIN cast[c].costumes
                 PROVE  IsMeant(cast[c].costumes[k], appearances[c][k])
      BY DEF W!CostumesAreAsMeant, IsMeant
    <2> QED
      BY DEF AppearanceInv, Appearing, Meant
  <1>2. W!ShownCanBeDrawn
    <2> SUFFICES ASSUME NEW c \in registered, ~W!Borrows(c)
                 PROVE  /\ instance[c].shown => W!Drawable(c)
                        /\ instance[c].asked # W!NoLabel =>
                             W!Drawable(c) /\ W!Appearance(c).label = instance[c].asked
      BY DEF W!ShownCanBeDrawn
    <2>1. Wears(appearances[c], instance[c])
      BY DEF AppearanceInv, Appearing, W!Borrows, Borrowed
    <2>2. appearances[c] \in Seq(CostumeRecord)
      BY LabelsAre DEF AppearanceInv, Appearing, Types
    <2> QED
      BY <2>1, <2>2 DEF Wears, W!Drawable, W!Appearance
  <1>3. W!TouchingIsOverlap
    BY TouchingMeansOverlap DEF W!TouchingIsOverlap, W!IsTouching
  <1> QED
    BY <1>1, <1>2, <1>3 DEF W!CostumesAreWorn

(* Costumes are what their descriptors mean, whatever is shown is drawn in *)
(* the costume asked for, and touching is sharing a pixel (project.js,     *)
(* actor.py).                                                              *)
THEOREM CostumesAreAlwaysWorn == W!Spec => []CostumesAreWorn
  <1>0. CostumesAreWritten
    BY ProgramAssumption
  <1>1. W!Init => AppearanceInv
    BY <1>0, NothingAppears
  <1>2. AppearanceInv /\ [W!Next]_W!vars => AppearanceInv'
    BY <1>0, AppearancesNext
  <1>3. AppearanceInv => W!CostumesAreWorn
    BY <1>0, AppearancesSuffice
  <1> QED
    BY <1>1, <1>2, <1>3, PTL DEF W!Spec, CostumesAreWorn

=============================================================================
