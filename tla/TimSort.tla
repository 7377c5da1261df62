------------------------------ MODULE TimSort ------------------------------
(***************************************************************************)
(* list.sort() and sorted(): list$sort in src/lib/list.js and the merge    *)
(* sort it calls, src/timsort.js.                                          *)
(*                                                                         *)
(* A comparison calls the program: it may raise or be inconsistent.  Steps *)
(* are cut so that a raise within a step leaves what the state before it   *)
(* leaves.  Positions are counted from 1; an item is its key and the place *)
(* where it was.  (The threshold of galloping never adapts here: in        *)
(* merge_lo and merge_hi min_gallop is raised by one only to be lowered by *)
(* one at the head of the loop that follows.)                              *)
(***************************************************************************)
EXTENDS Integers, Sequences, SequencesExt

CONSTANTS Keys,       \* keys of the items, integers
          Lengths,    \* lengths of lists
          Less(_, _, _), \* does the first key come before the second, under ...
          Orders,     \* ... each of these comparisons,
          Consistent, \* of which these are weak orders
          MinMerge,   \* 64 in merge_compute_minrun
          MinGallop   \* 7 in timSort.MIN_GALLOP

VARIABLES
  order,    \* the comparison this call of sort() uses
  reverse,  \* its argument reverse
  list,     \* timSort.list
  next,     \* remaining.base, in sort()
  sorted,   \* items in order in the run binary_sort() is at work on
  pending,  \* timSort.pending: the runs still to be merged
  merge,    \* the call of merge_lo() or merge_hi(), NoMerge if there is none
  doing     \* what sort() is doing

vars == <<order, reverse, list, next, sorted, pending, merge, doing>>

NoMerge == [mode |-> "none"]

Size == Len(list)
Remaining == Size - next + 1
Before(x, y) == Less(order, x.key, y.key)
Slice(s, base, len) == SubSeq(s, base, base + len - 1)
Put(s, base, items) ==
  [k \in DOMAIN s |-> IF k - base + 1 \in DOMAIN items THEN items[k - base + 1] ELSE s[k]]

-----------------------------------------------------------------------------
(* Searching a sorted run.  The answer is how many of its items come       *)
(* before the key, items equal to it included when rightmost is TRUE.      *)

(* A bug: items equal to the key come before it for no search. *)
IsLowerOnly(x, key, rightmost) == Before(x, key)

IsLower(x, key, rightmost) == IF rightmost THEN ~Before(key, x) ELSE Before(x, key)

(* The first index from lo to hi whose item is not lower, less 1. *)
BinarySearch(key, s, rightmost, lo, hi) ==
  LET find[l, r \in 1..Len(s) + 1] ==
        LET m == l + (r - l) \div 2
        IN  IF l = r THEN l - 1
            ELSE IF IsLower(s[m], key, rightmost) THEN find[m + 1, r] ELSE find[l, m]
  IN  find[lo, hi]

(* timSort.gallop: strides of 1, 3, 7, ... from the hint, then a binary    *)
(* search in the last of them.                                             *)
Gallop(key, s, hint, rightmost) ==
  LET up == IsLower(s[hint], key, rightmost)
      room == IF up THEN Len(s) - hint + 1 ELSE hint
      At(ofs) == s[IF up THEN hint + ofs ELSE hint - ofs]
      stride[ofs \in Nat] ==
        IF ofs < room /\ IsLower(At(ofs), key, rightmost) = up THEN stride[2 * ofs + 1] ELSE ofs
      reached == stride[1]
      last == (reached - 1) \div 2
      far == IF reached < room THEN reached ELSE room
  IN  IF up THEN BinarySearch(key, s, rightmost, hint + last + 1, hint + far)
            ELSE BinarySearch(key, s, rightmost, hint - far + 1, hint - last)

-----------------------------------------------------------------------------
(* Runs. *)

(* merge_compute_minrun: half, rounded up once if any half was not whole. *)
MinRun(size) ==
  LET halve[n \in Nat] == IF n < MinMerge THEN <<n, 0>>
                          ELSE LET h == halve[n \div 2]
                               IN  <<h[1], IF n % 2 = 1 THEN 1 ELSE h[2]>>
  IN  halve[size][1] + halve[size][2]

(* count_run: from the next item on, as long as each is before the one in  *)
(* front of it, or as long as none is.                                     *)
Descending == Remaining > 1 /\ Before(list[next + 1], list[next])
RunLength ==
  LET count[n \in 1..Remaining] ==
        IF n < Remaining /\ Before(list[next + n], list[next + n - 1]) = Descending
        THEN count[n + 1] ELSE n
  IN  count[1]

(* The choice of the order and the items is the program's. *)
Init == /\ order \in Orders
        /\ reverse \in BOOLEAN
        /\ list = <<>> /\ next = 1 /\ sorted = 0
        /\ pending = <<>>
        /\ merge = NoMerge
        /\ doing = "idle"

(* list$sort, timSort.sort.  A list to be sorted in reverse is reversed    *)
(* first and afterwards, so that equal items keep their places.            *)
Sort(keys) ==
  LET items == [k \in DOMAIN keys |-> [key |-> keys[k], was |-> k]]
  IN  /\ doing = "idle"
      /\ list' = IF reverse THEN Reverse(items) ELSE items
      /\ doing' = IF Len(keys) < 2 THEN "sorted" ELSE "runs"
      /\ UNCHANGED <<order, reverse, next, sorted, pending, merge>>

(* A run is found: it joins the pending ones or, short, is made longer. *)
FindRun ==
  LET run == Slice(list, next, RunLength)
  IN  /\ doing = "runs"
      /\ next <= Size
      /\ list' = IF Descending THEN Put(list, next, Reverse(run)) ELSE list
      /\ sorted' = RunLength
      /\ doing' = "insert"
      /\ UNCHANGED <<order, reverse, next, pending, merge>>

ShortRun == LET m == MinRun(Size) IN IF m < Remaining THEN m ELSE Remaining

(* binary_sort, one round of its loop. *)
Insert ==
  LET run == Slice(list, next, sorted)
      pivot == list[next + sorted]
      l == BinarySearch(pivot, run, TRUE, 1, sorted + 1)
  IN  /\ doing = "insert"
      /\ sorted < ShortRun
      /\ list' = Put(list, next, InsertAt(run, l + 1, pivot))
      /\ sorted' = sorted + 1
      /\ UNCHANGED <<order, reverse, next, pending, merge, doing>>

PushRun ==
  /\ doing = "insert"
  /\ sorted >= ShortRun
  /\ pending' = Append(pending, [base |-> next, len |-> sorted])
  /\ next' = next + sorted
  /\ doing' = "collapse"
  /\ UNCHANGED <<order, reverse, list, sorted, merge>>

-----------------------------------------------------------------------------
(* Merging run a with the run b after it.  merge_lo and merge_hi copy one  *)
(* of them (own: a or b) and fill the list from the other end of the two,  *)
(* out of the copy and the run left in the list (rest).                    *)

Own(m) == IF m.lo THEN Head(m.own) ELSE Last(m.own)
Rest(m) == list[IF m.lo THEN m.base ELSE m.base + m.len - 1]

(* The place of the items filled in next, when there are n of them. *)
Dest(m, n) == IF m.lo THEN m.base - Len(m.own)
              ELSE m.base + m.len + Len(m.own) - n

TakeOwn(n, m) ==
  [m EXCEPT !.own = IF m.lo THEN SubSeq(@, n + 1, Len(@)) ELSE SubSeq(@, 1, Len(@) - n)]
TakeRest(n, m) == [m EXCEPT !.base = IF m.lo THEN @ + n ELSE @, !.len = @ - n]

FromOwn(n, m) == IF m.lo THEN SubSeq(m.own, 1, n) ELSE SubSeq(m.own, Len(m.own) - n + 1, Len(m.own))
FromRest(s, n, m) == IF m.lo THEN Slice(s, m.base, n) ELSE Slice(s, m.base + m.len - n, n)

PutOwn(s, n, m) == Put(s, Dest(m, n), FromOwn(n, m))
PutRest(s, n, m) == Put(s, Dest(m, n), FromRest(s, n, m))

(* The finally blocks put back what is left of both, own at its end. *)
PutBack(s, m) ==
  IF m.lo THEN Put(s, m.base - Len(m.own), Slice(s, m.base, m.len) \o m.own)
          ELSE Put(s, m.base, m.own \o Slice(s, m.base, m.len))

(* A merge is over when nothing of rest is left, or of own only the item   *)
(* that belongs at its end (or none, if comparisons are inconsistent).     *)
OwnIsOver(m) == Len(m.own) <= 1
RestIsOver(m) == m.len = 0

Continue(s, m, over) ==
  /\ list' = IF over THEN PutBack(s, m) ELSE s
  /\ merge' = IF over THEN NoMerge ELSE m

(* One at a time, until own or rest has won MinGallop times in a row. *)
Straight ==
  LET restWins == IF merge.lo THEN Before(Rest(merge), Own(merge))
                              ELSE Before(Own(merge), Rest(merge))
      won == [own  |-> IF restWins THEN 0 ELSE merge.won.own + 1,
              rest |-> IF restWins THEN merge.won.rest + 1 ELSE 0]
      m == [IF restWins THEN TakeRest(1, merge) ELSE TakeOwn(1, merge)
              EXCEPT !.won = won,
                     !.mode = IF MinGallop \in {won.own, won.rest}
                              THEN IF merge.lo THEN "own" ELSE "rest" ELSE "straight"]
  IN  /\ merge.mode = "straight"
      /\ Continue(IF restWins THEN PutRest(list, 1, merge) ELSE PutOwn(list, 1, merge), m,
                  IF restWins THEN RestIsOver(m) ELSE OwnIsOver(m))
      /\ UNCHANGED <<order, reverse, next, sorted, pending, doing>>

(* How many items at the front of s, for merge_hi at its back, go before   *)
(* (after) the key.                                                        *)
Winners(key, s, rightmost, lo) ==
  IF lo THEN Gallop(key, s, 1, rightmost) ELSE Len(s) - Gallop(key, s, Len(s), rightmost)

(* Galloping goes on while own or rest wins often: the half that comes     *)
(* second decides.                                                         *)
Mode(half, m, won) ==
  IF half = (IF m.lo THEN "own" ELSE "rest") THEN IF m.lo THEN "rest" ELSE "own"
  ELSE IF won.own < MinGallop /\ won.rest < MinGallop THEN "straight"
  ELSE IF m.lo THEN "own" ELSE "rest"

AfterHalf(half, m, won) ==
  LET mode == Mode(half, m, won)
  IN  [m EXCEPT !.mode = mode,
                !.won = IF mode = "straight" THEN [own |-> 0, rest |-> 0] ELSE won]

(* Items of own are moved, then one of rest. *)
GallopOwn ==
  LET n == Winners(Rest(merge), merge.own, merge.lo, merge.lo)
      s == PutOwn(list, n, merge)
      m == TakeOwn(n, merge)
      won == [merge.won EXCEPT !.own = n]
  IN  /\ merge.mode = "own"
      /\ IF OwnIsOver(m) THEN Continue(s, m, TRUE)
         ELSE LET m2 == AfterHalf("own", TakeRest(1, m), won)
              IN  Continue(PutRest(s, 1, m), m2, RestIsOver(m2))
      /\ UNCHANGED <<order, reverse, next, sorted, pending, doing>>

(* Items of rest are moved, then one of own. *)
GallopRest ==
  LET n == Winners(Own(merge), Slice(list, merge.base, merge.len), ~merge.lo, merge.lo)
      s == PutRest(list, n, merge)
      m == TakeRest(n, merge)
      won == [merge.won EXCEPT !.rest = n]
  IN  /\ merge.mode = "rest"
      /\ IF RestIsOver(m) THEN Continue(s, m, TRUE)
         ELSE LET m2 == AfterHalf("rest", TakeOwn(1, m), won)
              IN  Continue(PutOwn(s, 1, m), m2, OwnIsOver(m2))
      /\ UNCHANGED <<order, reverse, next, sorted, pending, doing>>

(* merge_at: what is in place already, at the front of the left run a and  *)
(* at the back of the right run b, is left out; the shorter one is copied. *)
MergeAt(i) ==
  LET a == pending[i]
      b == pending[i + 1]
      k == Gallop(list[b.base], Slice(list, a.base, a.len), 1, TRUE)
      base == a.base + k
      alen == a.len - k
      blen == Gallop(list[b.base - 1], Slice(list, b.base, b.len), b.len, FALSE)
      lo == alen <= blen
      m == [lo |-> lo,
            own |-> IF lo THEN Slice(list, base, alen) ELSE Slice(list, b.base, blen),
            base |-> IF lo THEN b.base ELSE base,
            len |-> IF lo THEN blen ELSE alen,
            won |-> [own |-> 0, rest |-> 0],
            mode |-> "straight"]
      rest == TakeRest(1, m)
  IN  /\ merge = NoMerge
      /\ pending' = SubSeq(pending, 1, i - 1) \o <<[base |-> a.base, len |-> a.len + b.len]>>
                       \o SubSeq(pending, i + 2, Len(pending))
      /\ IF alen = 0 \/ blen = 0 THEN UNCHANGED <<list, merge>>
         ELSE Continue(PutRest(list, 1, m), rest, OwnIsOver(rest) \/ RestIsOver(rest))
      /\ UNCHANGED <<order, reverse, next, sorted, doing>>

-----------------------------------------------------------------------------
(* Which runs are merged.                                                  *)

Top == Len(pending)
RunLen(i) == pending[Top - i + 1].len    \* of the last run, the last but one, ...
ThirdIsShort == Top >= 3 /\ RunLen(3) <= RunLen(2) + RunLen(1)
MustMerge == ThirdIsShort \/ (Top >= 2 /\ RunLen(2) <= RunLen(1))

(* merge_collapse: is the last run merged later than the two before it? *)
LastWaits == Top >= 3 /\ RunLen(3) < RunLen(1)

Collapse == doing = "collapse" /\ MustMerge /\ MergeAt(Top - (IF LastWaits /\ ThirdIsShort THEN 2 ELSE 1))

Collapsed ==
  /\ doing = "collapse"
  /\ merge = NoMerge
  /\ ~MustMerge
  /\ doing' = IF next > Size THEN "force" ELSE "runs"
  /\ UNCHANGED <<order, reverse, list, next, sorted, pending, merge>>

(* merge_force_collapse *)
ForceCollapse == doing = "force" /\ Top > 1 /\ MergeAt(Top - (IF LastWaits THEN 2 ELSE 1))

(* The rest of list$sort. *)
Return ==
  /\ \/ doing = "sorted"
     \/ doing = "force" /\ merge = NoMerge /\ Top = 1
  /\ list' = IF reverse THEN Reverse(list) ELSE list
  /\ doing' = "done"
  /\ UNCHANGED <<order, reverse, next, sorted, pending, merge>>

(* A comparison raises: what sort() has in hand goes back into the list.   *)
Raise ==
  /\ \/ merge # NoMerge
     \/ doing = "runs" /\ Remaining > 1
     \/ doing = "insert" /\ sorted < ShortRun
     \/ doing = "collapse" /\ MustMerge
     \/ doing = "force" /\ Top > 1
  /\ list' = IF merge = NoMerge THEN list ELSE PutBack(list, merge)
  /\ merge' = NoMerge
  /\ doing' = "failed"
  /\ UNCHANGED <<order, reverse, next, sorted, pending>>

Next ==
  \/ \E n \in Lengths : \E keys \in [1..n -> Keys] : Sort(keys)
  \/ FindRun \/ Insert \/ PushRun
  \/ Collapse \/ Collapsed \/ ForceCollapse
  \/ Straight \/ GallopOwn \/ GallopRest
  \/ Return \/ Raise

Spec == Init /\ [][Next]_vars

-----------------------------------------------------------------------------
(* What could go wrong.                                                    *)

(* However the comparisons answer, and if one of them raises in the middle *)
(* of a merge, every item is still in timSort's list, once; and when they  *)
(* are consistent sort() sorts, in reverse too, and leaves equal items in  *)
(* the order in which they were.                                           *)
Stays(x, y) == ~Before(x, y) /\ ~Before(y, x) /\ x.was < y.was
SortsStably ==
  /\ doing \in {"done", "failed"} => {list[k].was : k \in 1..Size} = 1..Size
  /\ doing = "done" /\ order \in Consistent =>
       \A j, k \in 1..Size : j < k =>
         \/ Stays(list[j], list[k])
         \/ IF reverse THEN Before(list[k], list[j]) ELSE Before(list[j], list[k])

=============================================================================
