-------------------------------- MODULE Lists --------------------------------
(***************************************************************************)
(* A Python list (src/list.js), its slices (src/slice.js), and an iterator *)
(* over it.  The items are in a JavaScript array v, whose indexes here     *)
(* start at 1 and not at 0; those of Python are kept.                      *)
(***************************************************************************)
EXTENDS Integers, Sequences, FiniteSets, SequencesExt

CONSTANTS Item,
          Bound,     \* starts and stops of slices, None among them
          None,      \* an integer which stands for None
          Steps,
          MaxItems   \* bound: items of the list

NoIterator == [on |-> FALSE, index |-> 0, back |-> FALSE, done |-> FALSE]

VARIABLES
  v,
  iterator,  \* an iterator, forward or back
  (* History.                                                              *)
  items,     \* what the list should be
  met,       \* what the iterator has given
  steady     \* have there been only appends since it began?

vars == <<v, iterator, items, met, steady>>

Init == /\ v = <<>> /\ items = <<>>
        /\ iterator = NoIterator /\ met = <<>> /\ steady = TRUE

-----------------------------------------------------------------------------
(* The indexes of a slice.                                                 *)

AtLeast(n, least) == IF n < least THEN least ELSE n
AtMost(n, most) == IF n > most THEN most ELSE n

Indices(start, stop, step, len) ==
  IF step > 0 THEN
    [start |-> IF start = None THEN 0
               ELSE IF start < 0 THEN AtLeast(start + len, 0) ELSE start,
     stop |-> IF stop = None THEN len
              ELSE IF stop < 0 THEN stop + len ELSE AtMost(stop, len)]
  ELSE
    [start |-> IF start = None THEN len - 1
               ELSE IF start < 0 THEN start + len ELSE AtMost(start, len - 1),
     stop |-> IF stop = None THEN -1
              ELSE IF stop < 0 THEN AtLeast(stop + len, -1) ELSE stop]

(* sssiter$: the indexes one after another. *)
Visited(start, stop, step) ==
  LET span == IF step > 0 THEN stop - start ELSE start - stop
      size == IF step > 0 THEN step ELSE -step
      count == IF span <= 0 THEN 0 ELSE (span - 1) \div size + 1
  IN [k \in 1..count |-> start + (k - 1) * step]

VisitedOf(start, stop, step, len) ==
  LET s == Indices(start, stop, step, len) IN Visited(s.start, s.stop, step)

(* Array.splice: n items from index i on are replaced by others. *)
Spliced(a, i, n, others) ==
  LET from == AtMost(IF i < 0 THEN AtLeast(i + Len(a), 0) ELSE i, Len(a))
      to == AtMost(from + AtLeast(n, 0), Len(a))
  IN SubSeq(a, 1, from) \o others \o SubSeq(a, to + 1, Len(a))

(* A bug: no account is taken of the items that are already gone. *)
DeletedInPlace(a, visited, step) == FoldLeft(LAMBDA b, i : Spliced(b, i, 1, <<>>), a, visited)

DeletedEach(a, visited, step) ==
  LET gone(k) == IF step > 0 THEN k - 1 ELSE 0
  IN FoldLeft(LAMBDA b, k : Spliced(b, visited[k] - gone(k), 1, <<>>), a,
              [k \in DOMAIN visited |-> k])

(* startEnd$wrt, for insert() and index(). *)
FromEnd(n, len) == IF n < 0 THEN AtLeast(n + len, 0) ELSE n

IndexOf(a, x, start, stop) ==
  LET found == {i \in FromEnd(start, Len(a))..(AtMost(FromEnd(stop, Len(a)), Len(a)) - 1) :
                  a[i + 1] = x}
  IN IF found = {} THEN -1 ELSE CHOOSE i \in found : \A j \in found : i <= j

InRange(i, len) == IF i < 0 THEN i + len ELSE i

-----------------------------------------------------------------------------
(* What slices mean: the indexes, of all, that they choose.                *)

(* A bound counts from the end, if it is negative; all beyond the list are *)
(* as good as the first or last place there is.                            *)
Place(n, len) == IF n < 0 THEN n + len ELSE n

Chosen(start, stop, step, len) ==
  IF step > 0 THEN
    LET first == IF start = None THEN 0 ELSE AtLeast(Place(start, len), 0)
    IN {i \in 0..(len - 1) : /\ i >= first /\ (i - first) % step = 0
                             /\ stop = None \/ i < Place(stop, len)}
  ELSE
    LET first == IF start = None THEN len - 1 ELSE AtMost(Place(start, len), len - 1)
    IN {i \in 0..(len - 1) : /\ i <= first /\ (first - i) % (-step) = 0
                             /\ stop = None \/ i > Place(stop, len)}

(* The items at these indexes, upward. *)
ItemsAt(s, indexes) ==
  LET nth[i \in 0..Len(s)] ==
        IF i = 0 THEN <<>>
        ELSE IF i - 1 \in indexes THEN Append(nth[i - 1], s[i]) ELSE nth[i - 1]
  IN nth[Len(s)]
Backward(s, step) == IF step < 0 THEN Reverse(s) ELSE s

(* How many chosen indexes there are up to index i, in the slice's order. *)
Rank(i, chosen, step) == Cardinality({j \in chosen : IF step > 0 THEN j <= i ELSE j >= i})

-----------------------------------------------------------------------------
(* The operations.                                                         *)

Becomes(a, s, keepsSteady) ==
  /\ Len(s) <= MaxItems
  /\ v' = a /\ items' = s
  /\ steady' = (steady /\ (iterator.on => keepsSteady))
  /\ UNCHANGED <<iterator, met>>

AppendItem == \E x \in Item : Becomes(Append(v, x), Append(items, x), TRUE)

Insert == \E x \in Item, i \in Bound \ {None} :
  LET place == AtMost(AtLeast(Place(i, Len(items)), 0), Len(items))
  IN Becomes(Spliced(v, FromEnd(i, Len(v)), 0, <<x>>), InsertAt(items, place + 1, x), FALSE)

(* pop(i), del l[i]. *)
Pop == \E i \in -Len(v)..(Len(v) - 1) :
  Becomes(Spliced(v, InRange(i, Len(v)), 1, <<>>),
          RemoveAt(items, Place(i, Len(items)) + 1), FALSE)

RemoveItem == \E x \in Item :
  LET i == IndexOf(v, x, 0, Len(v))
  IN /\ i # -1
     /\ Becomes(Spliced(v, i, 1, <<>>), RemoveFirst(items, x), FALSE)

SetItem == \E x \in Item, i \in -Len(v)..(Len(v) - 1) :
  Becomes([v EXCEPT ![InRange(i, Len(v)) + 1] = x],
          ReplaceAt(items, Place(i, Len(items)) + 1, x), FALSE)

(* Slices.  The program goes on with the slice it has got.  To bound the   *)
(* behaviours there is no iterator meanwhile.                              *)
Slicing(Op(_, _, _)) ==
  ~iterator.on /\ \E start, stop \in Bound, step \in Steps : Op(start, stop, step)

GetSlice == Slicing(LAMBDA start, stop, step :
  LET visited == VisitedOf(start, stop, step, Len(v))
  IN Becomes([k \in DOMAIN visited |-> v[visited[k] + 1]],
             Backward(ItemsAt(items, Chosen(start, stop, step, Len(items))), step), FALSE))

DelSlice == Slicing(LAMBDA start, stop, step :
  LET s == Indices(start, stop, step, Len(v))
  IN Becomes(IF step = 1 THEN Spliced(v, s.start, s.stop - s.start, <<>>)
             ELSE DeletedEach(v, Visited(s.start, s.stop, step), step),
             ItemsAt(items, (0..(Len(items) - 1)) \ Chosen(start, stop, step, Len(items))), FALSE))

Given == UNION {[1..n -> Item] : n \in 0..2}

AssignSlice == Slicing(LAMBDA start, stop, step : \E values \in Given :
  LET s == Indices(start, stop, step, Len(v))
      visited == Visited(s.start, s.stop, step)
      chosen == Chosen(start, stop, step, Len(items))
      before == AtMost(IF start = None THEN 0 ELSE AtLeast(Place(start, Len(items)), 0), Len(items))
  IN \/ /\ step = 1
        /\ Becomes(Spliced(v, s.start, s.stop - s.start, values),
                   SubSeq(items, 1, before) \o values
                     \o SubSeq(items, before + Cardinality(chosen) + 1, Len(items)),
                   FALSE)
     \/ /\ step # 1 /\ Len(values) = Len(visited)
        /\ Becomes(FoldLeft(LAMBDA a, k : Spliced(a, visited[k], 1, <<values[k]>>), v,
                            [k \in DOMAIN visited |-> k]),
                   [i \in DOMAIN items |->
                      IF i - 1 \in chosen THEN values[Rank(i - 1, chosen, step)] ELSE items[i]],
                   FALSE))

ReverseItems == Becomes(Reverse(v), Reverse(items), FALSE)

(* "l += l", "l *= n". *)
InPlaceConcat == Becomes(v \o v, items \o items, FALSE)
InPlaceRepeat == \E n \in {-1, 0, 3} :
  Becomes(IF n <= 0 THEN <<>> ELSE v \o v \o v,
          IF n <= 0 THEN <<>> ELSE FlattenSeq([k \in 1..n |-> items]), FALSE)

-----------------------------------------------------------------------------
(* Iterators keep the array and an index.                                  *)

Iter == \E back \in BOOLEAN :
  /\ ~iterator.on
  /\ iterator' = [on |-> TRUE, index |-> IF back THEN Len(v) - 1 ELSE 0, back |-> back,
                  done |-> FALSE]
  /\ met' = <<>> /\ steady' = TRUE
  /\ UNCHANGED <<v, items>>

(* A bug: an iterator looks at the list again after it has ended. *)
EndsForNow == FALSE
Ends == TRUE

IterNext ==
  /\ iterator.on /\ ~iterator.done
  /\ IF iterator.index \in 0..(Len(v) - 1)
     THEN /\ met' = Append(met, v[iterator.index + 1])
          /\ iterator' = [iterator EXCEPT !.index = @ + IF iterator.back THEN -1 ELSE 1]
     ELSE /\ iterator' = [iterator EXCEPT !.index = @ + (IF iterator.back THEN -1 ELSE 1),
                                          !.done = Ends]
          /\ UNCHANGED met
  /\ UNCHANGED <<v, items, steady>>

(* The program has no use for the iterator. *)
IterDropped == /\ iterator.on
               /\ iterator' = NoIterator /\ met' = <<>> /\ steady' = TRUE
               /\ UNCHANGED <<v, items>>

Next == \/ AppendItem \/ Insert \/ Pop \/ RemoveItem \/ SetItem
        \/ GetSlice \/ DelSlice \/ AssignSlice
        \/ ReverseItems \/ InPlaceConcat \/ InPlaceRepeat
        \/ Iter \/ IterNext \/ IterDropped

Spec == Init /\ [][Next]_vars

-----------------------------------------------------------------------------
(* A list is what the operations on sequences make of it, whichever ends   *)
(* and steps slices have, and index() finds the first place in its bounds. *)
HasItems ==
  /\ v = items
  /\ \A x \in Item, start, stop \in Bound \ {None} :
       LET places == {i \in 0..(Len(items) - 1) :
                        items[i + 1] = x /\ i >= Place(start, Len(items)) /\ i < Place(stop, Len(items))}
           found == IndexOf(v, x, start, stop)
       IN IF places = {} THEN found = -1
          ELSE found \in places /\ \A i \in places : found <= i

(* An iterator meets the items in order, each once, those appended on the  *)
(* way too; once it has ended it gives nothing more.                       *)
MeetsItems == iterator.on /\ steady =>
  IF iterator.back THEN iterator.done => \E n \in 0..Len(items) : Reverse(met) = SubSeq(items, 1, n)
  ELSE /\ met = SubSeq(items, 1, Len(met))
       /\ iterator.index = Len(met) + IF iterator.done THEN 1 ELSE 0

ListsKeepItems == HasItems /\ MeetsItems

=============================================================================
