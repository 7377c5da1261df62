------------------------------ MODULE Operators ------------------------------
(***************************************************************************)
(* Which methods an operator between two objects of the program calls, and *)
(* in which order: src/abstract.js for "+" and "+=", src/misceval.js for   *)
(* "<" and "==".  The two objects are of one class, or of two: the right   *)
(* one's may inherit from the left one's, as its first or as its second    *)
(* base, or the left one's from the right one's.                           *)
(***************************************************************************)
EXTENDS Integers, Sequences, SequencesExt

Relation == {"same", "unrelated", "right inherits", "right inherits second", "left inherits"}
Operator == {"+", "+=", "<", "=="}

(* The methods of the left object that an operator calls, in order, and    *)
(* that of the right one.                                                  *)
LeftMethods(op) == CASE op = "+"  -> <<"__add__">>
                     [] op = "+=" -> <<"__iadd__", "__add__">>
                     [] op = "<"  -> <<"__lt__">>
                     [] op = "==" -> <<"__eq__">>
Reflected(op) == CASE op \in {"+", "+="} -> "__radd__"
                   [] op = "<" -> "__gt__"
                   [] op = "==" -> "__eq__"
Methods(op) == Range(LeftMethods(op)) \cup {Reflected(op)}

(* A method is not defined in a class, or it answers, or declines with     *)
(* NotImplemented.                                                         *)
Method == {"undefined", "answers", "declines"}

VARIABLES
  operator, relation,
  defined,   \* what the classes define: those of the left object, and the right one
  outcome    \* the methods that were called, in order, and the result

vars == <<operator, relation, defined, outcome>>

NotYet == [called |-> <<>>, result |-> "not yet"]

Init == /\ operator \in Operator /\ relation \in Relation
        /\ defined \in [{"left", "right"} -> [Methods(operator) -> Method]]
        /\ relation = "same" => defined["left"] = defined["right"]
        /\ outcome = NotYet

-----------------------------------------------------------------------------
(* The method, or slot, of a class, with the class in which it is defined. *)

BaseOf(side) == CASE side = "right" /\ relation \in {"right inherits", "right inherits second"} -> "left"
                  [] side = "left" /\ relation = "left inherits" -> "right"
                  [] OTHER -> side

Owner(side, name) == IF defined[side][name] # "undefined" THEN side ELSE BaseOf(side)
Has(side, name) == defined[Owner(side, name)][name] # "undefined"
Answers(side, name) == defined[Owner(side, name)][name] = "answers"

(* Methods are tried until one answers. *)
Tried(calls) ==
  LET found == {k \in DOMAIN calls : Answers(calls[k][1], calls[k][2])}
      first == CHOOSE k \in found : \A j \in found : k <= j
  IN IF found = {} THEN [called |-> calls, result |-> "none"]
     ELSE [called |-> SubSeq(calls, 1, first), result |-> "answered"]

If(condition, calls) == IF condition THEN calls ELSE <<>>

-----------------------------------------------------------------------------
(* w instanceof v_type: JavaScript's prototypes are those of first bases.  *)
IsSubclassByPrototype == relation = "right inherits"

(* A bug: the reflected method of a subclass comes first even if it is     *)
(* that of the left object's class, too.                                   *)
AnyReflected(op) == Has("right", Reflected(op))

(* wop !== boNameToSlotFuncRhs_(v) *)
Overrides(op) == Has("right", Reflected(op)) /\ Owner("right", Reflected(op)) = "right"

BinaryOp(op) ==
  LET reflected == Reflected(op)
      first == IsSubclassByPrototype /\ Overrides(op)
      triedReflected == first \/ (IsSubclassByPrototype /\ ~Has("right", reflected))
  IN If(first, << <<"right", reflected>> >>)
       \o If(Has("left", "__add__"), << <<"left", "__add__">> >>)
       \o If(~triedReflected /\ relation # "same" /\ Has("right", reflected),
             << <<"right", reflected>> >>)

BinaryIop(op) == If(Has("left", "__iadd__"), << <<"left", "__iadd__">> >>) \o BinaryOp(op)

(* $isSubType, which goes by the order of inheritance. *)
IsSubType == relation \in {"right inherits", "right inherits second"}

(* A bug: the reflected method of a subclass is called again at the end. *)
ComparedTwice(op) ==
  If(IsSubType, << <<"right", Reflected(op)>> >>) \o << <<"left", LeftMethods(op)[1]>> >>
    \o << <<"right", Reflected(op)>> >>

RichCompare(op) ==
  If(IsSubType, << <<"right", Reflected(op)>> >>) \o << <<"left", LeftMethods(op)[1]>> >>
    \o If(~IsSubType, << <<"right", Reflected(op)>> >>)

(* Every object has slots to compare it with, which decline if its class   *)
(* has no method.                                                          *)
OfProgram(calls) == SelectSeq(calls, LAMBDA c : Has(c[1], c[2]))

Evaluate ==
  /\ outcome = NotYet
  /\ outcome' = Tried(CASE operator = "+" -> BinaryOp(operator)
                        [] operator = "+=" -> BinaryIop(operator)
                        [] operator \in {"<", "=="} -> OfProgram(RichCompare(operator)))
  /\ UNCHANGED <<operator, relation, defined>>

Next == Evaluate

Spec == Init /\ [][Next]_vars

-----------------------------------------------------------------------------
(* The methods that there are to call. *)
Candidates ==
  {<<"left", m>> : m \in {m \in Range(LeftMethods(operator)) : Has("left", m)}}
    \cup {<<"right", m>> : m \in {m \in {Reflected(operator)} :
            Has("right", m) /\ (relation = "same" => operator \in {"<", "=="})}}

Before(c, e) == \E j, k \in DOMAIN outcome.called :
                  j < k /\ outcome.called[j] = c /\ outcome.called[k] = e

(* An operator calls no method twice, and none after one that answers; it  *)
(* fails only if all have declined.  The left object comes first, but      *)
(* after the right one if that has a class which inherits from the left    *)
(* one's, with a reflected method of its own, or, for comparisons, any;    *)
(* and "+=" tries __iadd__ before all.                                     *)
(* Known to be otherwise: "+", if the left one's class is the second base. *)
RightFirst == /\ relation \in {"right inherits", "right inherits second"}
              /\ operator \in {"+", "+="} =>
                   /\ relation = "right inherits"
                   /\ defined["right"][Reflected(operator)] # "undefined"

OperatorsAskInOrder == outcome # NotYet =>
  LET called == outcome.called
      right == <<"right", Reflected(operator)>>
  IN /\ Range(called) \subseteq Candidates /\ IsInjective(called)
     /\ \A k \in DOMAIN called : Answers(called[k][1], called[k][2]) <=>
                                   k = Len(called) /\ outcome.result = "answered"
     /\ outcome.result = "none" => Range(called) = Candidates
     /\ \A c \in Range(called) : c[2] = "__iadd__" => called[1] = c
     /\ \A c \in Candidates \ {right} : c[2] # "__iadd__" =>
          IF RightFirst THEN c \in Range(called) /\ right \in Candidates => Before(right, c)
          ELSE right \in Range(called) => Before(c, right)

=============================================================================
