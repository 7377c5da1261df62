------------------------------ MODULE Closures ------------------------------
(***************************************************************************)
(* Which variable a name is: the analysis of scopes in src/symtable.js,    *)
(* and the dictionaries in which the code made by src/compile.js keeps     *)
(* variables that nested functions and classes share.                      *)
(*                                                                         *)
(* An activation of a block has dictionaries $loc and $cell; $free is the  *)
(* $cell of the activation in which its function was made, and continues,  *)
(* through its prototype, in the $free of that one.                        *)
(***************************************************************************)
EXTENDS Naturals, Sequences, SequencesExt

CONSTANTS Name,
          Program,        \* programs: parent, kind and use of names of each block
          MaxActivations, \* bound: activations of blocks
          MaxVersion      \* bound: assignments to one variable

VARIABLES
  program,  \* the program that runs, one of Program
  dicts,    \* dictionaries; the first one is $gbl
  acts,     \* every activation of a block; the first one is the module's
  made,     \* the functions made
  stack,    \* the activations that run, the last one called on top
  version   \* how often each variable of each activation was assigned to

vars == <<program, dicts, acts, made, stack, version>>

-----------------------------------------------------------------------------
(* SymbolTable: the flags of names.  A name is bound in a block, declared  *)
(* global in it, only used, or none of these.                              *)

Module == 1
Block == DOMAIN program.kind
IsFunction(b) == program.kind[b] \in {"function", "generator"}
IsClass(b) == program.kind[b] = "class"
Parent(b) == program.parent[b]
Children(b) == {c \in Block \ {Module} : Parent(c) = b}
Names(b, use) == {n \in Name : program.use[b][n] = use}

(* analyzeBlock: newbound of the enclosing block. *)
Bound[b \in Block] ==
  IF b = Module THEN {}
  ELSE IF IsFunction(Parent(b))
  THEN (Bound[Parent(b)] \ Names(Parent(b), "global")) \cup Names(Parent(b), "binds")
  ELSE Bound[Parent(b)]

(* newglobal: the names which a block around it declares global. *)
GlobalAround[b \in Block] ==
  IF b = Module THEN {}
  ELSE IF IsClass(Parent(b)) THEN GlobalAround[Parent(b)]
  ELSE (GlobalAround[Parent(b)] \cup Names(Parent(b), "global")) \ Names(Parent(b), "binds")

(* analyzeName: a name known to be global makes no block hasFree. *)
OwnFree(b) == Names(b, "uses") \cap Bound[b]
UsesGlobal(b) == Names(b, "uses") \ (Bound[b] \cup GlobalAround[b]) # {}

(* newfree, after the children and analyzeCells. *)
NewFree[b \in Block] ==
  LET all == UNION {OwnFree(c) \cup NewFree[c] : c \in Children(b)}
  IN  IF IsFunction(b) THEN all \ Names(b, "binds") ELSE all

Cells(b) ==
  IF IsFunction(b) THEN Names(b, "binds") \cap UNION {OwnFree(c) \cup NewFree[c] : c \in Children(b)}
  ELSE {}

(* A bug: only the names which the block itself uses count. *)
HasOwnFree(b) ==
  \/ OwnFree(b) # {}
  \/ b # Module /\ IsFunction(Parent(b)) /\ UsesGlobal(b)

(* hasFree: a name of an enclosing function is used, or in a nested        *)
(* function an unknown name, or (updateSymbols) a child uses the first.      *)
HasFree(b) ==
  \/ OwnFree(b) # {}
  \/ b # Module /\ IsFunction(Parent(b)) /\ UsesGlobal(b)
  \/ NewFree[b] \cap Bound[b] \cap Names(b, "none") # {}

ChildHasFree[b \in Block] == \E c \in Children(b) : HasFree(c) \/ ChildHasFree[c]

-----------------------------------------------------------------------------
(* Dictionaries and activations.                                           *)

Unset == <<>>
NoDict == 0
EmptyDict == [value |-> [n \in Name |-> Unset], prototype |-> NoDict]

Lookup(d, n) ==
  LET look[k \in 0..Len(dicts)] ==
        IF k = NoDict THEN Unset
        ELSE IF dicts[k].value[n] # Unset THEN dicts[k].value[n]
        ELSE look[dicts[k].prototype]
  IN  look[d]

(* A bug: variables are copied, as they are now. *)
Copied(cell, free) ==
  IF free \in {NoDict, cell} THEN dicts
  ELSE [dicts EXCEPT ![cell].value = [n \in Name |->
          IF Lookup(free, n) # Unset THEN Lookup(free, n) ELSE @[n]]]

(* setPrototypeOf in the constructor of func and in buildClass. *)
Linked(cell, free) ==
  IF free \in {NoDict, cell} THEN dicts ELSE [dicts EXCEPT ![cell].prototype = free]

(* The constructor of generator does just that. *)
CopiedToGenerator(cell, free) ==
  IF free \in {NoDict, cell} THEN dicts
  ELSE [dicts EXCEPT ![cell].value = [n \in Name |->
          IF Lookup(free, n) # Unset THEN Lookup(free, n) ELSE @[n]]]

Unassigned == [n \in Name |-> 0]

Init == /\ program \in Program
        /\ dicts = <<EmptyDict, EmptyDict>>
        /\ acts = <<[block |-> Module, from |-> 0, loc |-> 1, cell |-> 2, free |-> NoDict]>>
        /\ made = {}
        /\ stack = <<1>>
        /\ version = <<Unassigned>>

Current == Last(stack)
Here == acts[Current]

(* What is passed on of the $free of the current activation. *)
FreeHere == IF HasFree(Here.block) THEN Here.free ELSE NoDict

(* A dictionary to read and to write a name in. *)
Place(a, n) ==
  LET b == acts[a].block
  IN  IF n \in Names(b, "global") THEN 1
      ELSE IF n \in Cells(b) THEN acts[a].cell
      ELSE IF n \in Names(b, "binds") THEN acts[a].loc
      ELSE IF n \in OwnFree(b) THEN acts[a].free
      ELSE 1

(* nameop, for a name that is read: in a module or a class what is not in  *)
(* $loc is looked up in $gbl.                                              *)
Load(a, n) ==
  LET v == Lookup(Place(a, n), n)
  IN  IF v = Unset /\ Place(a, n) = acts[a].loc /\ IsClass(acts[a].block)
      THEN dicts[1].value[n] ELSE v

-----------------------------------------------------------------------------
(* Python's rule, for the properties: a name is a variable of the block    *)
(* that binds it, else of the closest function around it that does.        *)

Binder(b, n) ==
  LET around[p \in Block] ==
        IF p = Module \/ (IsFunction(p) /\ n \in Names(p, "global")) THEN Module
        ELSE IF IsFunction(p) /\ n \in Names(p, "binds") THEN p
        ELSE around[Parent(p)]
  IN  IF b = Module \/ n \in Names(b, "global") THEN Module
      ELSE IF n \in Names(b, "binds") THEN b ELSE around[Parent(b)]

Owner(a, n) ==
  LET up[k \in 1..Len(acts)] ==
        IF acts[k].block = Binder(acts[a].block, n) THEN k ELSE up[acts[k].from]
  IN  up[a]

ValueOf(a, n) == IF version[a][n] = 0 THEN Unset ELSE <<a, version[a][n]>>

Value(a, n) ==
  LET v == ValueOf(Owner(a, n), n)
  IN  IF v = Unset /\ IsClass(acts[a].block) /\ Owner(a, n) = a THEN ValueOf(1, n) ELSE v

-----------------------------------------------------------------------------
(* What a program does.                                                    *)

Assign(n) ==
  LET o == Owner(Current, n)
  IN  /\ n \in Names(Here.block, "binds") \cup Names(Here.block, "global")
      /\ version[o][n] < MaxVersion
      /\ version' = [version EXCEPT ![o][n] = @ + 1]
      /\ dicts' = [dicts EXCEPT ![Place(Current, n)].value[n] = <<o, version[o][n] + 1>>]
      /\ UNCHANGED <<program, acts, made, stack>>

(* buildcodeobj: the end of it. *)
MakeFunction(c) ==
  LET f == [from |-> Current, block |-> c,
            closure |-> IF HasFree(c) THEN Here.cell ELSE NoDict,
            closure2 |-> IF HasFree(c) THEN FreeHere ELSE NoDict]
  IN  /\ c \in Children(Here.block) /\ IsFunction(c)
      /\ f \notin made
      /\ made' = made \cup {f}
      /\ dicts' = IF program.kind[c] = "function" /\ HasFree(c) THEN Linked(f.closure, f.closure2)
                  ELSE dicts
      /\ UNCHANGED <<program, acts, stack, version>>

Activate(act) ==
  /\ Len(acts) < MaxActivations
  /\ acts' = Append(acts, act)
  /\ stack' = Append(stack, Len(acts'))
  /\ version' = Append(version, Unassigned)
  /\ UNCHANGED program

(* A call; a generator is made by one, and then runs to its first yield.   *)
Call(f) ==
  LET old == IF program.kind[f.block] = "generator" /\ f.closure # NoDict
             THEN CopiedToGenerator(f.closure, f.closure2) ELSE dicts
      n == Len(dicts)
  IN  /\ Activate([block |-> f.block, from |-> f.from,
                   loc |-> n + 1, cell |-> n + 2, free |-> f.closure])
      /\ dicts' = old \o <<EmptyDict, EmptyDict>>
      /\ UNCHANGED made

(* cclass, buildClass: a class shares the cells of the block around it.    *)
BuildClass(c) ==
  /\ c \in Children(Here.block) /\ IsClass(c)
  /\ Activate([block |-> c, from |-> Current,
               loc |-> Len(dicts) + 1, cell |-> Here.cell, free |-> Here.cell])
  /\ dicts' = Append(Linked(Here.cell, FreeHere), EmptyDict)
  /\ UNCHANGED made

(* A function returns, a generator yields. *)
Return == /\ Len(stack) > 1
          /\ stack' = Front(stack)
          /\ UNCHANGED <<program, dicts, acts, made, version>>

(* When a suspended function or a generator goes on, $cell is the one it   *)
(* had only if it has cells, else a new one (nothing refers to the old).   *)
Again(as) ==
  LET lost == {acts[a].cell : a \in {a \in as : ~ChildHasFree[acts[a].block]}}
  IN  /\ dicts' = [d \in DOMAIN dicts |-> IF d \in lost THEN EmptyDict ELSE dicts[d]]
      /\ UNCHANGED <<program, acts, made, version>>

Resume(a) ==
  /\ a \notin Range(stack)
  /\ program.kind[acts[a].block] = "generator"
  /\ Again({a})
  /\ stack' = Append(stack, a)

(* A call suspends the thread, and it is woken; not in the body of a class. *)
SuspendAndWake ==
  /\ \A a \in Range(stack) : ~IsClass(acts[a].block)
  /\ Again(Range(stack))
  /\ UNCHANGED stack

Next == \/ \E n \in Name : Assign(n)
        \/ \E c \in Block : MakeFunction(c) \/ BuildClass(c)
        \/ \E f \in made : Call(f)
        \/ \E a \in DOMAIN acts : Resume(a)
        \/ Return
        \/ SuspendAndWake

Spec == Init /\ [][Next]_vars

-----------------------------------------------------------------------------
(* What could go wrong.                                                    *)

Copies == \E b \in Block : /\ program.kind[b] = "generator"
                           /\ HasFree(b) /\ HasFree(Parent(b))

(* However functions and classes are nested, and in whatever order they    *)
(* are made, called and suspended and variables assigned, every block sees *)
(* the value which each of its names has under Python's rule, the latest   *)
(* one: variables are shared ("observe later assignments in enclosing      *)
(* scopes", function.js) and not mistaken for others of the same name.     *)
VariablesAreShared ==
  ~Copies => \A a \in Range(stack) : \A n \in Name \ Names(acts[a].block, "none") :
    Value(a, n) # Unset => Load(a, n) = Value(a, n)

=============================================================================
