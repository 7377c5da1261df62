------------------------------- MODULE Deques -------------------------------
(***************************************************************************)
(* collections.deque (src/lib/collections.js): a circular array that is    *)
(* doubled when it gets full and halved when it gets empty, with items at  *)
(* head, head + 1, ..., tail - 1, round the end of the array if need be.   *)
(* The length of the array is a power of two, so that "& mask" is modulo.  *)
(***************************************************************************)
EXTENDS Integers, Sequences, SequencesExt

CONSTANTS Item,       \* what a deque may hold
          Unbounded,  \* a maximal length of None
          MaxLens,    \* the maximal lengths, perhaps Unbounded
          MaxItems    \* bound: items in a deque without a maximal length

Undefined == "undefined"

VARIABLES
  d,        \* the array v, with its length, head and tail
  maxlen,
  (* History.                                                              *)
  items,    \* the items, if the deque were a sequence
  counted   \* has every "del d[i]" counted right? (see DeleteItem)

vars == <<d, maxlen, items, counted>>

EmptyArray(n) == [k \in 0..(n - 1) |-> Undefined]
Cleared == [v |-> EmptyArray(2), cap |-> 2, head |-> 0, tail |-> 0]

Init == /\ d = Cleared
        /\ maxlen \in MaxLens
        /\ items = <<>>
        /\ counted = TRUE

-----------------------------------------------------------------------------
(* The methods, as functions of a deque e.                                 *)

At(e, k) == k % e.cap
Size(e) == (e.tail - e.head) % e.cap

(* A bug: the array is lengthened in place wherever the items start. *)
ResizeInPlace(e, size, len) ==
  [v |-> [k \in 0..(len - 1) |-> IF k < e.cap THEN e.v[k] ELSE Undefined],
   cap |-> len, head |-> 0, tail |-> size]

(* An array that starts at 0 is cut or lengthened in place. *)
Resize(e, size, len) ==
  [v |-> [k \in 0..(len - 1) |->
            IF e.head = 0 THEN (IF k < e.cap THEN e.v[k] ELSE Undefined)
            ELSE IF k < size THEN e.v[At(e, e.head + k)] ELSE Undefined],
   cap |-> len, head |-> 0, tail |-> size]

Grown(e) == IF e.head = e.tail THEN Resize(e, e.cap, 2 * e.cap) ELSE e

TooFew(e, size) == size < (e.cap - 1) \div 2
Shrunk(e) == IF TooFew(e, Size(e)) THEN Resize(e, Size(e), e.cap \div 2) ELSE e

PopLeft(e) == Shrunk([e EXCEPT !.v[e.head] = Undefined, !.head = At(e, e.head + 1)])
Pop(e) == LET last == At(e, e.tail - 1)
          IN Shrunk([e EXCEPT !.v[last] = Undefined, !.tail = last])

TooLong(e, limit) == limit # Unbounded /\ Size(e) > limit

PushTo(e, x, limit) ==
  LET grown == Grown([e EXCEPT !.v[e.tail] = x, !.tail = At(e, e.tail + 1)])
  IN IF TooLong(grown, limit) THEN PopLeft(grown) ELSE grown

PushLeftTo(e, x, limit) ==
  LET first == At(e, e.head - 1)
      grown == Grown([e EXCEPT !.v[first] = x, !.head = first])
  IN IF TooLong(grown, limit) THEN Pop(grown) ELSE grown

PushAll(e, s, limit) ==
  LET pushed[k \in 0..Len(s)] == IF k = 0 THEN e ELSE PushTo(pushed[k - 1], s[k], limit)
  IN pushed[Len(s)]

Contents(e) == [k \in 1..Size(e) |-> e.v[At(e, e.head + k - 1)]]

(* Room at pos, made by moving everything up to the tail one further. *)
Widened(e, pos, x) ==
  LET moved == (e.tail - pos) % e.cap
  IN [e EXCEPT !.tail = At(e, e.tail + 1),
               !.v = [k \in DOMAIN e.v |->
                        IF k = pos THEN x
                        ELSE IF (k - pos) % e.cap \in 1..moved THEN e.v[At(e, k - 1)]
                        ELSE e.v[k]]]

(* The item at pos overwritten, by moving everything up to the tail. *)
Closed(e, pos) ==
  LET moved == (e.tail - pos) % e.cap
  IN [e EXCEPT !.v = [k \in DOMAIN e.v |->
                        IF (k - pos) % e.cap < moved THEN e.v[At(e, k + 1)] ELSE e.v[k]]]

(* One at a time: the place taken may be one that is given up next. *)
Shifted(e, a, b) == [e EXCEPT !.v = [@ EXCEPT ![At(e, a)] = e.v[At(e, b)],
                                              ![At(e, b)] = Undefined]]

Rotated(e, n) ==
  LET count == IF n > 0 THEN n ELSE -n
      shifted[k \in 0..count] ==
        IF k = 0 THEN e
        ELSE IF n > 0 THEN Shifted(shifted[k - 1], e.head - k, e.tail - k)
        ELSE Shifted(shifted[k - 1], e.tail + k - 1, e.head + k - 1)
  IN [shifted[count] EXCEPT !.head = At(e, e.head - n), !.tail = At(e, e.tail - n)]

Reversed(e) ==
  [e EXCEPT !.v = [k \in DOMAIN e.v |-> IF (k - e.head) % e.cap < Size(e)
                                        THEN e.v[At(e, e.tail - 1 - (k - e.head))]
                                        ELSE e.v[k]]]

-----------------------------------------------------------------------------
(* The operations.  items shows what each should do to a sequence.         *)

LastOf(s, limit) == IF limit = Unbounded \/ Len(s) <= limit THEN s
                    ELSE SubSeq(s, Len(s) - limit + 1, Len(s))
FirstOf(s, limit) == IF limit = Unbounded \/ Len(s) <= limit THEN s
                     ELSE SubSeq(s, 1, limit)
HasRoom(n) == maxlen # Unbounded \/ Len(items) + n <= MaxItems
Becomes(e, s) == d' = e /\ items' = s /\ UNCHANGED <<maxlen, counted>>

AppendItem == \E x \in Item :
  /\ HasRoom(1)
  /\ Becomes(PushTo(d, x, maxlen), LastOf(Append(items, x), maxlen))

AppendLeft == \E x \in Item :
  /\ HasRoom(1)
  /\ Becomes(PushLeftTo(d, x, maxlen), FirstOf(<<x>> \o items, maxlen))

PopItem == d.head # d.tail /\ Becomes(Pop(d), Front(items))
PopLeftItem == d.head # d.tail /\ Becomes(PopLeft(d), Tail(items))

Clear == Becomes(Cleared, <<>>)

(* An index below -size is the first place; -size itself too. *)
Insert == \E x \in Item, i \in -(Size(d) + 1)..Size(d) + 1 :
  LET index == IF i > Size(d) THEN Size(d) ELSE IF i <= -Size(d) THEN 0 ELSE i
      pos == At(d, (IF index >= 0 THEN d.head ELSE d.tail) + index)
      place == IF index >= 0 THEN index + 1 ELSE Len(items) + index + 1
  IN /\ HasRoom(1)
     /\ maxlen = Unbounded \/ Size(d) < maxlen
     /\ Becomes(Grown(Widened(d, pos, x)), InsertAt(items, place, x))

(* remove() of the first item equal to x. *)
RemoveItem == \E x \in Item, i \in 0..(Size(d) - 1) :
  /\ Contents(d)[i + 1] = x
  /\ \A j \in 1..i : Contents(d)[j] # x
  /\ Becomes(Shrunk([Closed(d, At(d, d.head + i)) EXCEPT !.tail = At(d, d.tail - 1)]),
             RemoveAt(items, i + 1))

(* "del d[i]" finds the array too long by the size before the deletion,    *)
(* and then takes that for the size after it.  What a program does with    *)
(* such a deque is not followed.                                           *)
DeleteItem == \E i \in -Size(d)..(Size(d) - 1) :
  LET pos == At(d, (IF i >= 0 THEN d.head ELSE d.tail) + i)
      after == [Closed(d, pos) EXCEPT !.tail = At(d, d.tail - 1)]
  IN /\ d' = IF TooFew(d, Size(d)) THEN Resize(after, Size(d), d.cap \div 2) ELSE after
     /\ counted' = ~TooFew(d, Size(d))
     /\ items' = RemoveAt(items, IF i >= 0 THEN i + 1 ELSE Len(items) + i + 1)
     /\ UNCHANGED maxlen

SetItem == \E x \in Item, i \in -Size(d)..(Size(d) - 1) :
  Becomes([d EXCEPT !.v[At(d, (IF i >= 0 THEN d.head ELSE d.tail) + i)] = x],
          ReplaceAt(items, IF i >= 0 THEN i + 1 ELSE Len(items) + i + 1, x))

Turn(s, n) == [k \in 1..Len(s) |-> s[((k - 1 - n) % Len(s)) + 1]]

Rotate == \E n \in -(Size(d) + 1)..Size(d) + 1 :
  /\ n # 0 /\ d.head # d.tail
  /\ Becomes(Rotated(d, n), Turn(items, n))

ReverseItems == Becomes(Reversed(d), Reverse(items))

(* "d += other" forgets the maximal length. *)
InPlaceAdd == \E x \in Item :
  /\ Len(items) < MaxItems
  /\ d' = PushTo(d, x, Unbounded)
  /\ maxlen' = Unbounded
  /\ items' = Append(items, x)
  /\ UNCHANGED counted

(* "d *= n": what is left of d, and then its items again. *)
InPlaceMultiply == \E n \in {-1, 2} :
  LET start == IF n <= 0 THEN Cleared ELSE d
  IN /\ n = 2 => HasRoom(Len(items))
     /\ Becomes(IF n = 2 THEN PushAll(start, Contents(start), maxlen) ELSE start,
                IF n = 2 THEN LastOf(items \o items, maxlen) ELSE <<>>)

Next == /\ counted
        /\ \/ AppendItem \/ AppendLeft \/ PopItem \/ PopLeftItem \/ Clear
           \/ Insert \/ RemoveItem \/ DeleteItem \/ SetItem
           \/ Rotate \/ ReverseItems \/ InPlaceAdd \/ InPlaceMultiply

Spec == Init /\ [][Next]_vars

-----------------------------------------------------------------------------
(* After any operations the deque holds what a sequence would: nothing is  *)
(* lost or left over where the array wraps, grows or shrinks, and len() is *)
(* right.                                                                  *)
DequesAreSequences == counted => Contents(d) = items

=============================================================================
