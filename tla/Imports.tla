------------------------------- MODULE Imports -------------------------------
(***************************************************************************)
(* Importing modules (src/import.js), by threads of a program and by the   *)
(* bodies of the modules.  A body may suspend, and then other threads run; *)
(* it may import modules which are being imported; and it may raise.       *)
(*                                                                         *)
(* Reading and compiling a file is taken not to suspend: the client's      *)
(* Sk.read is synchronous.  A program is any sequence of import statements *)
(* and exceptions, which it may catch.  From a module that is not a        *)
(* package it imports only what is there.                                  *)
(***************************************************************************)
EXTENDS Integers, Sequences

CONSTANTS Module,     \* names of modules, those in packages with their package
          ParentOf,   \* of each, the package it is in, or Top; none is in two
          Thread,
          MaxObjects  \* bound: module objects

Top == "top"
Nothing == 0

VARIABLES
  cached,   \* sys.modules: of each name, its module object
  objects,  \* every module object made
  stack     \* of each thread, the bodies it is running, the innermost first,
            \* and what is left to do of the import statements between them

vars == <<cached, objects, stack>>

Init == /\ cached = [n \in Module |-> Nothing]
        /\ objects = <<>>
        /\ stack = [t \in Thread |-> <<>>]

-----------------------------------------------------------------------------
(* What an import statement has to do.  A task has an object from when it  *)
(* runs the body; quiet says that its package was $initializing then.      *)

Task(kind, n) == [kind |-> kind, name |-> n, obj |-> Nothing, quiet |-> FALSE]
Running(task) == task.obj # Nothing
InPackage(n) == ParentOf[n] # Top
Owner(n) == IF InPackage(n) THEN cached[ParentOf[n]] ELSE Nothing

Loads(n) == (IF InPackage(n) THEN <<Task("import", ParentOf[n])>> ELSE <<>>)
              \o <<Task("import", n)>>

(* A module is not loaded if it is in sys.modules; nor, for a statement    *)
(* "from", if its package has an attribute of that name.                   *)
InSysModules(task) == cached[task.name] # Nothing

(* A bug: a module is there when its body has finished. *)
HasFinished(task) == InSysModules(task) /\ objects[cached[task.name]].status = "done"

IsThere(task) == InSysModules(task)

Needed(task) == /\ ~IsThere(task)
                /\ task.kind = "from" /\ Owner(task.name) # Nothing =>
                     objects[Owner(task.name)].attrs[task.name] = Nothing

(* The tasks from the first one that there is need for. *)
Left(tasks) ==
  LET needed == {n \in DOMAIN tasks : Running(tasks[n]) \/ Needed(tasks[n])}
  IN IF needed = {} THEN <<>>
     ELSE SubSeq(tasks, CHOOSE n \in needed : \A m \in needed : n <= m, Len(tasks))

(* Whether a package is $initializing is changed by the modules imported   *)
(* from it too, unless it was before.                                      *)
SetInitializing(objs, task, v) ==
  LET owner == objs[task.obj].owner
  IN [id \in DOMAIN objs |->
        IF id = task.obj \/ (id = owner /\ task.kind # "import" /\ ~task.quiet)
        THEN [objs[id] EXCEPT !.initializing = v] ELSE objs[id]]

SetAttr(objs, owner, n, value) ==
  IF owner = Nothing THEN objs ELSE [objs EXCEPT ![owner].attrs[n] = value]

(* The module's object is in sys.modules, and an attribute of a package it *)
(* is imported from, before its body runs.                                 *)
Begin(t, tasks, objs) ==
  LET n == tasks[1].name
      id == Len(objs) + 1
      owner == Owner(n)
      quiet == owner # Nothing /\ objs[owner].initializing
      task == [tasks[1] EXCEPT !.obj = id, !.quiet = quiet]
      module == [name |-> n, status |-> "running", owner |-> owner,
                 attrs |-> [m \in Module |-> Nothing], initializing |-> FALSE]
      more == Append(objs, module)
  IN /\ id <= MaxObjects
     /\ cached' = [cached EXCEPT ![n] = id]
     /\ objects' = SetInitializing(
                     IF task.kind = "import" THEN more ELSE SetAttr(more, owner, n, id),
                     task, TRUE)
     /\ stack' = [stack EXCEPT ![t] = <<task>> \o Tail(tasks)]

(* The thread goes on with these tasks, until a body runs. *)
GoOn(t, tasks, objs) ==
  LET left == Left(tasks)
  IN \/ /\ left # <<>> /\ ~Running(left[1])
        /\ Begin(t, left, objs)
     \/ /\ left # <<>> => Running(left[1])
        /\ objects' = objs
        /\ stack' = [stack EXCEPT ![t] = left]
        /\ UNCHANGED cached

-----------------------------------------------------------------------------
(* "import p.m" *)
ImportModule == \E t \in Thread, n \in Module :
  GoOn(t, Loads(n) \o stack[t], objects)

(* "from p import m" *)
ImportFrom == \E t \in Thread, n \in Module :
  /\ InPackage(n)
  /\ GoOn(t, Loads(ParentOf[n]) \o <<Task("from", n)>> \o stack[t], objects)

(* "import m" or "from .m import ..." in the package or one of its modules *)
ImportRelative == \E t \in Thread, n \in Module :
  /\ InPackage(n)
  /\ stack[t] # <<>>
  /\ ParentOf[n] \in {stack[t][1].name, ParentOf[stack[t][1].name]}
  /\ Owner(n) # Nothing
  /\ GoOn(t, <<Task("relative", n)>> \o stack[t], objects)

(* A submodule that was imported by its full name is an attribute now. *)
BodyReturns == \E t \in Thread :
  /\ stack[t] # <<>>
  /\ LET task == stack[t][1]
         ended == [objects EXCEPT ![task.obj].status = "done"]
         quiet == SetInitializing(ended, task, FALSE)
     IN GoOn(t, Tail(stack[t]),
             IF task.kind = "import"
             THEN SetAttr(quiet, objects[task.obj].owner, task.name, task.obj) ELSE quiet)

(* A bug: a module which failed stays. *)
StaysCached(n) == cached

Uncached(n) == [cached EXCEPT ![n] = Nothing]

(* The module goes from sys.modules, and from the package it was imported  *)
(* from.  The rest of the import statement is skipped.                     *)
BodyRaises == \E t \in Thread :
  /\ stack[t] # <<>>
  /\ LET task == stack[t][1]
         failed == [objects EXCEPT ![task.obj].status = "failed"]
         bodies == {n \in 2..Len(stack[t]) : Running(stack[t][n])}
         next == CHOOSE n \in bodies : \A m \in bodies : n <= m
     IN /\ cached' = Uncached(task.name)
        /\ objects' = SetInitializing(
             IF task.kind = "import" THEN failed
             ELSE SetAttr(failed, objects[task.obj].owner, task.name, Nothing), task, FALSE)
        /\ stack' = [stack EXCEPT ![t] =
             IF bodies = {} THEN <<>> ELSE SubSeq(stack[t], next, Len(stack[t]))]

Next == ImportModule \/ ImportFrom \/ ImportRelative \/ BodyReturns \/ BodyRaises

Spec == Init /\ [][Next]_vars

-----------------------------------------------------------------------------
Object == DOMAIN objects

(* What an import statement gives is a module which has run, or is running *)
(* further out or in another thread, and never a part of one that failed.  *)
(* No module runs twice at a time.                                         *)
CachedHaveRun ==
  /\ \A n \in Module : cached[n] # Nothing => objects[cached[n]].status \in {"running", "done"}
  /\ \A id \in Object :
       /\ objects[id].status = "running" => cached[objects[id].name] = id
       /\ objects[id].status = "running" <=>
            \E t \in Thread : \E n \in DOMAIN stack[t] : stack[t][n].obj = id
  /\ \A t, u \in Thread : \A n \in DOMAIN stack[t], m \in DOMAIN stack[u] :
       Running(stack[t][n]) /\ stack[t][n].obj = stack[u][m].obj => t = u /\ n = m

(* A package has its modules as attributes, once they have run, and none   *)
(* that failed.                                                            *)
PackagesHaveModules == \A id \in Object :
  /\ \A n \in Module : objects[id].attrs[n] # Nothing =>
       objects[objects[id].attrs[n]].status # "failed"
  /\ objects[id].status = "done" /\ objects[id].owner # Nothing =>
       objects[objects[id].owner].attrs[objects[id].name] = id

(* "Partially initialized" is said of modules which are running, or which  *)
(* a module is being imported from.                                        *)
InitializingRun == \A id \in Object :
  /\ objects[id].status = "running" => objects[id].initializing
  /\ objects[id].initializing =>
       \/ objects[id].status = "running"
       \/ \E m \in Object : objects[m].status = "running" /\ objects[m].owner = id

ModulesRunOnce == CachedHaveRun /\ PackagesHaveModules /\ InitializingRun

=============================================================================
