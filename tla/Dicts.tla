-------------------------------- MODULE Dicts --------------------------------
(***************************************************************************)
(* A Python dict (src/dict.js).  Its items are the values of a JavaScript  *)
(* object, entries, in the order in which they were inserted; the name of  *)
(* an entry is a string's own, or made of the hash of the key and its      *)
(* place in the bucket of that hash.  A bucket keeps the places of items   *)
(* deleted, for others.                                                    *)
(*                                                                         *)
(* Comparing keys is taken not to change the dict.                         *)
(***************************************************************************)
EXTENDS Integers, Sequences, FiniteSets, SequencesExt

CONSTANTS Key,         \* keys, equal ones included (1 and 1.0)
          Same,        \* of each key, the one that stands for those equal to it
          HashOf,      \* of each key, its hash; keys which are equal have the same
          Strings,     \* keys which are strings, each equal to itself only
          Value,
          MaxVersion,  \* bound: changes of the set of keys
          MaxItems     \* bound: items at one time

Hole == "hole"
NoIterator == [on |-> FALSE, names |-> <<>>, size |-> 0, version |-> 0, index |-> 0]

VARIABLES
  entries,   \* the items, each with its name
  buckets,   \* of each hash, the key in each place
  size,
  version,   \* $version
  iterator,  \* an iterator over the dict
  (* History.                                                              *)
  content,   \* the pairs, if the dict were a list of them
  met        \* keys which the iterator has given, and the keys when it began

vars == <<entries, buckets, size, version, iterator, content, met>>

Init == /\ entries = <<>>
        /\ buckets = [h \in Range(HashOf) |-> <<>>]
        /\ size = 0
        /\ version = 0
        /\ iterator = NoIterator
        /\ content = <<>>
        /\ met = [given |-> <<>>, keys |-> <<>>]

-----------------------------------------------------------------------------
(* Names of entries, and where a key is.                                   *)

InPlace(h, n) == <<h, n>>
NameOfString(k) == <<k, 0>>
Equal(j, k) == Same[j] = Same[k]
Places(k) == {n \in DOMAIN buckets[HashOf[k]] :
                /\ buckets[HashOf[k]][n] # Hole
                /\ Equal(k, buckets[HashOf[k]][n])}
Position(name) == {n \in DOMAIN entries : entries[n].name = name}

(* The name under which key k is found: a string's own, if there is such   *)
(* an entry, or that of the first equal key in the bucket.                 *)
Names(k) ==
  IF k \in Strings THEN {name \in {NameOfString(k)} : Position(name) # {}}
  ELSE {InPlace(HashOf[k], n) : n \in {m \in Places(k) : \A l \in Places(k) : m <= l}}
Has(k) == Names(k) # {}

(* A bug: the place after as many as are taken. *)
PlaceByCount(b) == Cardinality({n \in DOMAIN b : b[n] # Hole}) + 1

FreePlace(b) == IF \E n \in DOMAIN b : b[n] = Hole
                THEN CHOOSE n \in DOMAIN b : b[n] = Hole /\ \A m \in 1..(n - 1) : b[m] # Hole
                ELSE Len(b) + 1

-----------------------------------------------------------------------------
(* The operations.  content shows what each should do.                     *)

PairOf(k) == CHOOSE n \in DOMAIN content : Equal(content[n].key, k)
Known(k) == \E n \in DOMAIN content : Equal(content[n].key, k)

(* A new item, which is the last one. *)
Added(k, v) ==
  LET b == buckets[HashOf[k]]
      place == FreePlace(b)
      name == IF k \in Strings THEN NameOfString(k) ELSE InPlace(HashOf[k], place)
  IN /\ entries' = Append(entries, [name |-> name, key |-> k, value |-> v])
     /\ buckets' = IF k \in Strings THEN buckets
                   ELSE [buckets EXCEPT ![HashOf[k]] =
                           IF place > Len(b) THEN Append(b, k) ELSE [b EXCEPT ![place] = k]]
     /\ size' = size + 1
     /\ version' = version + 1

MayAdd(k) == version < MaxVersion /\ Len(content) < MaxItems

(* d[k] = v: an equal key that is there already stays. *)
SetItem == \E k \in Key, v \in Value :
  /\ \/ /\ Has(k)
        /\ entries' = [n \in DOMAIN entries |->
                        IF entries[n].name \in Names(k) THEN [entries[n] EXCEPT !.value = v]
                        ELSE entries[n]]
        /\ UNCHANGED <<buckets, size, version>>
     \/ /\ ~Has(k) /\ MayAdd(k)
        /\ Added(k, v)
  /\ content' = IF Known(k) THEN [content EXCEPT ![PairOf(k)].value = v]
                ELSE Append(content, [key |-> k, value |-> v])
  /\ UNCHANGED <<iterator, met>>

SetDefault == \E k \in Key, v \in Value :
  /\ ~Has(k) /\ MayAdd(k)
  /\ Added(k, v)
  /\ content' = IF Known(k) THEN content ELSE Append(content, [key |-> k, value |-> v])
  /\ UNCHANGED <<iterator, met>>

(* The item goes from the entries, and leaves a hole in the bucket; the    *)
(* last one takes the bucket with it.                                      *)
Removed(k) ==
  LET h == HashOf[k]
      b == buckets[h]
      holed == [n \in DOMAIN b |-> IF InPlace(h, n) \in Names(k) THEN Hole ELSE b[n]]
  IN /\ entries' = RemoveAt(entries, CHOOSE n \in DOMAIN entries : entries[n].name \in Names(k))
     /\ buckets' = IF k \in Strings THEN buckets
                   ELSE [buckets EXCEPT ![h] = IF Range(holed) = {Hole} THEN <<>> ELSE holed]
     /\ size' = size - 1
     /\ version' = version + 1

(* del d[k], pop(k), popitem(). *)
PopItem == \E k \in Key :
  /\ Has(k)
  /\ version < MaxVersion
  /\ Removed(k)
  /\ content' = RemoveAt(content, PairOf(k))
  /\ UNCHANGED <<iterator, met>>

DictClear ==
  /\ version < MaxVersion
  /\ entries' = <<>>
  /\ buckets' = [h \in DOMAIN buckets |-> <<>>]
  /\ size' = 0
  /\ version' = version + 1
  /\ content' = <<>>
  /\ UNCHANGED <<iterator, met>>

(* The program goes on with a copy, which has the holes too. *)
DictCopy ==
  /\ entries' = entries
  /\ buckets' = [h \in DOMAIN buckets |->
                   [n \in DOMAIN buckets[h] |->
                      IF Position(InPlace(h, n)) = {} THEN Hole
                      ELSE entries[CHOOSE m \in Position(InPlace(h, n)) : TRUE].key]]
  /\ size' = size
  /\ version' = 0
  /\ iterator' = NoIterator
  /\ met' = [given |-> <<>>, keys |-> <<>>]
  /\ UNCHANGED content

-----------------------------------------------------------------------------
(* An iterator takes a list of the items, and the version, when it is      *)
(* first asked, and gives the first one; if the version has changed when   *)
(* it is asked again, it raises an exception.                              *)
Keys(s) == [n \in DOMAIN s |-> s[n].key]

Start ==
  /\ ~iterator.on /\ entries # <<>>
  /\ iterator' = [on |-> TRUE, names |-> Keys(entries), size |-> size,
                  version |-> version, index |-> 2]
  /\ met' = [given |-> <<entries[1].key>>, keys |-> Keys(content)]
  /\ UNCHANGED <<entries, buckets, size, version, content>>

(* A bug: it is the number of items that must not change. *)
SizeChanged == iterator.size # size
Changed == iterator.version # version

IterNext ==
  /\ iterator.on /\ ~Changed /\ iterator.index <= Len(iterator.names)
  /\ met' = [met EXCEPT !.given = Append(@, iterator.names[iterator.index])]
  /\ iterator' = [iterator EXCEPT !.index = @ + 1]
  /\ UNCHANGED <<entries, buckets, size, version, content>>

(* The end of the list, or an exception. *)
IterEnd ==
  /\ iterator.on
  /\ Changed \/ iterator.index > Len(iterator.names)
  /\ iterator' = NoIterator
  /\ met' = [given |-> <<>>, keys |-> <<>>]
  /\ UNCHANGED <<entries, buckets, size, version, content>>

Next == \/ SetItem \/ SetDefault \/ PopItem \/ DictClear \/ DictCopy
        \/ Start \/ IterNext \/ IterEnd

Spec == Init /\ [][Next]_vars

-----------------------------------------------------------------------------
(* The dict has the pairs that were put into it, in that order, and finds  *)
(* each by any key equal to its own, among keys of the same hash.          *)
HasContent ==
  /\ [n \in DOMAIN entries |-> [key |-> entries[n].key, value |-> entries[n].value]] = content
  /\ size = Len(content)
  /\ \A k \in Key : /\ Has(k) <=> Known(k)
                    /\ Has(k) => entries[PairOf(k)].name \in Names(k)

(* An iterator that has not raised meets the keys of the dict, in order,   *)
(* although items come and go, under the very same number of items.        *)
MeetsKeys == iterator.on /\ ~Changed =>
  LET n == Len(met.given)
  IN /\ met.given = SubSeq(Keys(content), 1, n)
     /\ Keys(content) = met.keys

DictsKeepItems == HasContent /\ MeetsKeys

=============================================================================
