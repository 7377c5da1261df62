----------------------------- MODULE DrawOrder -----------------------------
(***************************************************************************)
(* One DrawLayerGroup (src/lib/pytch/project.js): the instances of a layer *)
(* in the order in which they are drawn, the last one in front.  Indexes   *)
(* into the layer count from 0, as the program and its users do.           *)
(***************************************************************************)
EXTENDS Integers, SequencesExt, Arrays

Drawn(s, i) == \E k \in DOMAIN s : s[k] = i

IndexOf(s, i) == (CHOOSE k \in DOMAIN s : s[k] = i) - 1

(* DrawLayerGroup.register, given no parent: in front of everything. *)
RegisterInFront(s, i) == Append(s, i)

(* DrawLayerGroup.register, given a parent which is drawn: just behind it. *)
RegisterBehind(s, i, parent) == InsertAt(s, IndexOf(s, parent) + 1, i)

(* DrawLayerGroup.unregister and unregister_nearly_all. *)
Without(s, gone) == Filtered(s, Range(s) \ gone)

MoveKind == {"absolute", "relative"}

(* The index asked for in DrawLayerGroup.move; a negative absolute index   *)
(* counts from the front, as in Python.                                    *)
WantedIndex(s, i, kind, n) ==
  IF kind = "relative" THEN IndexOf(s, i) + n
  ELSE IF n < 0 THEN Len(s) + n ELSE n

Clamped(s, k) == IF k < 0 THEN 0 ELSE IF k >= Len(s) THEN Len(s) - 1 ELSE k

(* A bug: the instance changes places with the one at index k. *)
MoveBySwapping(s, i, k) == [s EXCEPT ![k + 1] = i, ![IndexOf(s, i) + 1] = s[k + 1]]

(* DrawLayerGroup.move, of an instance which is drawn. *)
MoveTo(s, i, k) == InsertAt(RemoveAt(s, IndexOf(s, i) + 1), k + 1, i)

Move(s, i, kind, n) == MoveTo(s, i, Clamped(s, WantedIndex(s, i, kind, n)))

Behind(s, i, j) == Drawn(s, i) /\ Drawn(s, j) /\ IndexOf(s, i) < IndexOf(s, j)

=============================================================================
