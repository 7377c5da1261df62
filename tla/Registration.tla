---------------------------- MODULE Registration ----------------------------
(***************************************************************************)
(* How the event handlers of an actor are found: the decorators of         *)
(* src/lib/pytch/hat_blocks.py and loop_iteration_control.py put           *)
(* _pytch_handler_for, a list of events, on functions; registering a class *)
(* looks for them (register_event_handlers in src/lib/pytch/project.js).   *)
(*                                                                         *)
(* There is a class, and another that inherits from it.  Decorators are    *)
(* applied one at a time, from the bottom up.  Two functions may share one *)
(* list of events: lists are objects, like functions.                      *)
(***************************************************************************)
EXTENDS Naturals, FiniteSets, Sequences, SequencesExt

CONSTANTS Names,      \* names of attributes are 1..Names, in the order of dir()
          Delegated,  \* those which belong to a DelegatingProp of Actor
          Event,      \* types and data of events
          MaxObjects, \* bound: functions
          MaxHats     \* bound: decorators

VARIABLES
  functions, \* every function made: its list of events, and the one it calls
  lists,     \* every list of events
  attr,      \* the attributes of each class, in its own dictionary
  method,    \* the method whose decorators are being applied, or NoMethod
  handlers   \* event_handlers, click_handlers and clone_handlers of each actor

vars == <<functions, lists, attr, method, handlers>>

Class == 1..2
Name == 1..Names
NoList == 0
NoMethod == [class |-> 0]
NotRegistered == [e \in {} |-> <<>>]

(* An attribute: a function, by its number, some other object, or none.    *)
(* hats and loops are history: the decorators in the program's text.       *)
Function(f, hats, loops) == [is |-> "function", f |-> f, hats |-> hats, loops |-> loops]
Other == [is |-> "other"]
Absent == [is |-> "absent"]

Init == /\ functions = <<>>
        /\ lists = <<>>
        /\ attr = [c \in Class |-> [n \in Name |-> Absent]]
        /\ method = NoMethod
        /\ handlers = [c \in Class |-> NotRegistered]

(* getattr of a class, or of the one it inherits from. *)
Attribute(c, n) == IF attr[c][n] = Absent THEN attr[1][n] ELSE attr[c][n]

(* The body of class c is being run: those of the classes it inherits from *)
(* are over, and the program has not yet been registered.                  *)
InBody(c) == /\ method = NoMethod
             /\ handlers = [d \in Class |-> NotRegistered]
             /\ \A d \in Class, n \in Name : d > c => attr[d][n] = Absent
NewFunction(list, calls) == functions' = Append(functions, [list |-> list, calls |-> calls])

Def(c, n) ==
  /\ InBody(c)
  /\ Len(functions) < MaxObjects
  /\ NewFunction(NoList, 0)
  /\ method' = [class |-> c, name |-> n, f |-> Len(functions'), hats |-> <<>>, loops |-> 0]
  /\ UNCHANGED <<lists, attr, handlers>>

Decorators == Len(FlattenSeq(lists)) +
              Cardinality({f \in DOMAIN functions : functions[f].calls # 0})

(* _append_handler *)
Hat(e) ==
  LET list == functions[method.f].list
  IN  /\ method # NoMethod
      /\ Decorators < MaxHats
      /\ IF list = NoList
         THEN /\ lists' = Append(lists, <<e>>)
              /\ functions' = [functions EXCEPT ![method.f].list = Len(lists')]
         ELSE /\ lists' = [lists EXCEPT ![list] = Append(@, e)]
              /\ UNCHANGED functions
      /\ method' = [method EXCEPT !.hats = Append(@, e)]
      /\ UNCHANGED <<attr, handlers>>

(* A bug: the decorated function does not get the list. *)
NonYieldingLoopsWithoutHats ==
  /\ method # NoMethod
  /\ Decorators < MaxHats
  /\ Len(functions) < MaxObjects
  /\ NewFunction(NoList, method.f)
  /\ method' = [method EXCEPT !.f = Len(functions'), !.loops = @ + 1]
  /\ UNCHANGED <<lists, attr, handlers>>

(* multiple_loop_iterations_decorator, non_yielding_loops *)
NonYieldingLoops ==
  /\ method # NoMethod
  /\ Decorators < MaxHats
  /\ Len(functions) < MaxObjects
  /\ NewFunction(functions[method.f].list, method.f)
  /\ method' = [method EXCEPT !.f = Len(functions'), !.loops = @ + 1]
  /\ UNCHANGED <<lists, attr, handlers>>

EndDef ==
  /\ method # NoMethod
  /\ attr' = [attr EXCEPT ![method.class][method.name] =
                Function(method.f, method.hats, method.loops)]
  /\ method' = NoMethod
  /\ UNCHANGED <<functions, lists, handlers>>

(* An attribute which is no function, in the place of a method. *)
AssignOther(c, n) ==
  /\ InBody(c)
  /\ Attribute(c, n).is = "function"
  /\ attr' = [attr EXCEPT ![c][n] = Other]
  /\ UNCHANGED <<functions, lists, method, handlers>>

(* register_event_handlers, register_handlers_of_method, register_handler: *)
(* for each attribute in turn, each event in its list.  Getting a          *)
(* DelegatingProp from the class raises, as there is no instance yet.      *)
HandlersFor(c, e) ==
  LET EventsOf(n) == LET a == Attribute(c, n)
                         list == IF a.is = "function" /\ n \notin Delegated
                                 THEN functions[a.f].list ELSE NoList
                     IN  IF list = NoList THEN <<>> ELSE lists[list]
      Hits(n) == Len(SelectSeq(EventsOf(n), LAMBDA event : event = e))
  IN  FlattenSeq([n \in Name |-> [k \in 1..Hits(n) |-> Attribute(c, n).f]])

RegisterEventHandlers(c) ==
  /\ method = NoMethod
  /\ {d \in Class : handlers[d] = NotRegistered} = c..2
  /\ handlers' = [handlers EXCEPT ![c] = [e \in Event |-> HandlersFor(c, e)]]
  /\ UNCHANGED <<functions, lists, attr, method>>

Next == \/ \E c \in Class, n \in Name : Def(c, n) \/ AssignOther(c, n)
        \/ \E e \in Event : Hat(e)
        \/ NonYieldingLoops
        \/ EndDef
        \/ \E c \in Class : RegisterEventHandlers(c)

Spec == Init /\ [][Next]_vars

-----------------------------------------------------------------------------
(* What could go wrong.                                                    *)

(* The number of non-yielding loop decorators around a function. *)
LoopsAround(f) ==
  LET around[g \in 0..Len(functions)] ==
        IF g = 0 \/ functions[g].calls = 0 THEN 0 ELSE 1 + around[functions[g].calls]
  IN  around[f]

(* How often x occurs in a sequence. *)
Count(seq, x) == Len(SelectSeq(seq, LAMBDA y : y = x))

(* However decorators are stacked, and methods inherited, overridden and   *)
(* replaced: for each event a registered class has each method as a        *)
(* handler once for every time the event is written above the method, with *)
(* all the method's decorators around it, and has no other handler.        *)
EveryHatIsHeard ==
  \A c \in Class : handlers[c] # NotRegistered =>
    LET methods == {Attribute(c, n) : n \in Name \ Delegated} \ {Other, Absent}
    IN  \A e \in Event :
          /\ \A m \in methods : /\ Count(handlers[c][e], m.f) = Count(m.hats, e)
                               /\ LoopsAround(m.f) = m.loops
          /\ \A k \in DOMAIN handlers[c][e] : \E m \in methods : m.f = handlers[c][e][k]

=============================================================================
