------------------------------- MODULE Classes -------------------------------
(***************************************************************************)
(* The classes of a program, and how attributes are found in them          *)
(* (src/type.js).  A class searches its ancestors in the order of its MRO; *)
(* but each is also a JavaScript prototype, whose prototype is its "best"  *)
(* base.  When that chain is the MRO, JavaScript does the search.          *)
(*                                                                         *)
(* One special method, such as __len__, stands for all.  A class that has  *)
(* it has a slot for it too, from which operators call it.  When the chain *)
(* is not the MRO, a class without one has a getter that searches the MRO. *)
(***************************************************************************)
EXTENDS Integers, Sequences, FiniteSets, SequencesExt

CONSTANTS MaxClasses,  \* bound: classes, with object
          MaxBases,    \* bound: bases of a class
          MaxSlotted,  \* bound: classes whose __slots__ name an attribute
          MaxHolders   \* bound: classes that have the method at one time

(* The classes in the order of their definition; the first is object.      *)
(* has and slot are those of the special method; slotted is whether the    *)
(* class declares a slot of its instances, which have nslots of them.      *)
VARIABLE classes

Nobody == 0
Inconsistent == -1
Object == 1

Init == \E has \in BOOLEAN :
  classes = <<[bases |-> <<>>, mro |-> <<Object>>, chain |-> <<Object>>, prototypical |-> TRUE,
               has |-> has, slot |-> IF has THEN "own" ELSE "none",
               slotted |-> FALSE, nslots |-> 0]>>

Class == DOMAIN classes
Mro(k) == classes[k].mro
Chain(k) == classes[k].chain     \* itself, its prototype, and so on

-----------------------------------------------------------------------------
(* What JavaScript finds along a class's prototypes.                       *)

(* The first of the classes for which Test holds. *)
FirstOf(ks, Test(_)) ==
  LET found == SelectSeq(ks, Test) IN IF found = <<>> THEN Nobody ELSE found[1]

IsSubType(k, other) ==
  \/ other \in Range(Chain(k))
  \/ ~classes[k].prototypical /\ other \in Range(Mro(k))

Has(k) == classes[k].has
TypeLookup(k) == FirstOf(IF classes[k].prototypical THEN Chain(k) ELSE Mro(k), Has)

(* The class whose function operators on an instance of k call. *)
SlotLookup(k) ==
  LET owner == FirstOf(Chain(k), LAMBDA c : classes[c].slot # "none")
      Own(c) == classes[c].slot = "own"
  IN IF owner = Nobody \/ Own(owner) THEN owner ELSE FirstOf(Tail(Mro(owner)), Own)

-----------------------------------------------------------------------------
(* The definition of a class.                                              *)

SolidBase(k) == FirstOf(Chain(k), LAMBDA c : c = Object \/ classes[c].slotted)

(* A bug: it is always the first one. *)
FirstBase(bases) == bases[1]

(* The base whose instances' slots include those of the others. *)
BestBase(bases) ==
  FoldLeft(LAMBDA best, k :
             CASE best = Inconsistent -> Inconsistent
               [] IsSubType(SolidBase(best), SolidBase(k)) -> best
               [] IsSubType(SolidBase(k), SolidBase(best)) -> k
               [] OTHER -> Inconsistent,
           bases[1], Tail(bases))

(* The first class that is behind no other in the sequences, then the      *)
(* merge of what is left.                                                  *)
RECURSIVE MroMerge(_)
MroMerge(seqs) ==
  LET left == SelectSeq(seqs, LAMBDA s : s # <<>>)
      heads == [n \in DOMAIN left |-> left[n][1]]
      next == FirstOf(heads, LAMBDA k : \A s \in Range(left) : k \notin Range(Tail(s)))
  IN CASE left = <<>> -> <<>>
       [] left # <<>> /\ next = Nobody -> <<Inconsistent>>
       [] OTHER -> <<next>> \o MroMerge([n \in DOMAIN left |->
                                          IF left[n][1] = next THEN Tail(left[n]) ELSE left[n]])

Precedences(k, bases) == <<<<k>>>> \o [n \in DOMAIN bases |-> Mro(bases[n])] \o <<bases>>
BuildMRO(k, bases) == MroMerge(Precedences(k, bases))

(* A bug: the base comes first, and so all will be well. *)
FollowsBase(mro, base) == mro[2] = base

(* Whether every class of the MRO is the prototype of the one before. *)
Prototypical(mro, base) ==
  /\ mro[2] = base
  /\ \A n \in 2..(Len(mro) - 1) : mro[n + 1] = Chain(mro[n])[2]

MayHold == Cardinality({k \in Class : Has(k)}) < MaxHolders
Slotted == Cardinality({k \in Class : classes[k].slotted})

AllBases == UNION {[1..n -> Class] : n \in 1..MaxBases}

(* A class for which there is no MRO, or no best base, is not defined. *)
Define == \E bases \in AllBases, has \in BOOLEAN, slotted \in BOOLEAN :
  LET k == Len(classes) + 1
      best == BestBase(bases)
      mro == BuildMRO(k, bases)
      prototypical == Prototypical(mro, best)
  IN /\ k <= MaxClasses
     /\ slotted => Slotted < MaxSlotted
     /\ has => MayHold
     /\ best # Inconsistent
     /\ Inconsistent \notin Range(mro)
     /\ classes' = Append(classes,
          [bases |-> bases, mro |-> mro, chain |-> <<k>> \o Chain(best), prototypical |-> prototypical,
           has |-> has,
           slot |-> IF has THEN "own" ELSE IF prototypical THEN "none" ELSE "getter",
           slotted |-> slotted,
           nslots |-> classes[best].nslots + IF slotted THEN 1 ELSE 0])

-----------------------------------------------------------------------------
(* Assignment and deletion of the method, which object does not allow.     *)

SetAttr == \E k \in Class \ {Object} :
  /\ ~Has(k) => MayHold
  /\ classes' = [classes EXCEPT ![k].has = TRUE, ![k].slot = "own"]

(* A bug: the slot is gone for good. *)
WithoutGetter(c) == [c EXCEPT !.has = FALSE, !.slot = "none"]

WithoutMethod(c) ==
  [c EXCEPT !.has = FALSE, !.slot = IF c.prototypical THEN "none" ELSE "getter"]

DelAttr == \E k \in Class \ {Object} :
  /\ classes[k].has
  /\ classes' = [classes EXCEPT ![k] = WithoutMethod(@)]

Next == Define \/ SetAttr \/ DelAttr

Spec == Init /\ [][Next]_classes

-----------------------------------------------------------------------------
(* An MRO keeps the order of the bases and of each base's MRO; and there   *)
(* is one unless these contradict one another.  (Bases without the last    *)
(* class were looked at in an earlier state.)                              *)
Before(s, j, k) == \E m, n \in DOMAIN s : m < n /\ s[m] = j /\ s[n] = k

MroIsAnOrder ==
  /\ \A k \in Class : \A s \in Range(Precedences(k, classes[k].bases)) :
       \A j, l \in Range(s) : Before(s, j, l) => Before(Mro(k), j, l)
  /\ \A bases \in {b \in AllBases : Len(classes) \in Range(b)} :
       LET seqs == Range(Precedences(Len(classes) + 1, bases))
       IN (Inconsistent \in Range(BuildMRO(Len(classes) + 1, bases))) =
            \E circle \in SUBSET Class \ {{}} :
              \A k \in circle : \E j \in circle : \E s \in seqs : Before(s, j, k)

(* Attributes and operators of every class use the method of the first     *)
(* class in the MRO that has it now, however prototypes are linked.        *)
MethodOfFirst == \A k \in Class :
  /\ TypeLookup(k) = FirstOf(Mro(k), Has)
  /\ SlotLookup(k) = FirstOf(Mro(k), Has)

(* Two ancestors of a class do not use the same slot of its instances. *)
SlotsApart == \A k \in Class : \A c, d \in Range(Mro(k)) :
  classes[c].slotted /\ classes[d].slotted /\ c # d => classes[c].nslots # classes[d].nslots

(* The order does not depend on methods. *)
ClassesInherit == /\ (\A k \in Class : ~Has(k)) => MroIsAnOrder
                  /\ MethodOfFirst
                  /\ SlotsApart

=============================================================================
