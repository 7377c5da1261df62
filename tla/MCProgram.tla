------------------------------ MODULE MCProgram ------------------------------
(***************************************************************************)
(* What the language and its library do for the code of a program, for     *)
(* TLC: iterations of its loops, statements that jump, closures, calls,    *)
(* operators, classes, imports, suspensions, numbers, lists, sorting,      *)
(* dicts, deques, caches, generators, gliding, hat blocks and costumes.    *)
(* These parts need nothing of one another, so that in each behaviour one  *)
(* of them runs, and the others stay as they are.                          *)
(***************************************************************************)
EXTENDS Program

VARIABLES program, dicts, acts, made, stack, version                    \* names
VARIABLES order, reverse, list, next, sorted, pending, merge, doing     \* sorting
VARIABLES functions, lists, attr, method, handlers                      \* hats
VARIABLE classes                                                        \* classes
VARIABLES tree, outcome                                                 \* suspensions
VARIABLES number, exact                                                 \* numbers
VARIABLES v, cursor, wanted, given, steady                            \* slices
VARIABLES signature, call, bound                                        \* calls
VARIABLES operator, relation, defined, asked                            \* operators
VARIABLE part

-----------------------------------------------------------------------------
(* What Program needs. *)

(* Blocks of one to three iterations, in each other. *)
BatchSizes == 1..3

(* A package of two modules. *)
Packages == [n \in Modules |-> IF n = "p" THEN "top" ELSE "p"]

(* A generator, and another one that it yields from. *)
ShortBodies ==
  {<<outer, inner>> :
     outer \in {<<"yield", "from", "yield">>, <<"from", "yield">>,
                <<"try", "from", "end", "yield">>, <<"try", "yield", "raise", "end">>},
     inner \in {<<"yield", "wait", "yield">>, <<"yield", "raise">>,
                <<"try", "wait", "raise", "end", "yield">>}}

(* Glides of one, two, three and four frames; the unit is 144 squared. *)
Ends == {-2, 1}

(* A string and three numbers of the same hash, two of which are equal. *)
EqualKeys == [k \in Key |-> IF k = "1.0" THEN "1" ELSE k]
Hashes == [k \in Key |-> IF k \in Strings THEN "hash of s" ELSE "hash"]

(* Costumes in every form of descriptor, one of them mistaken; a class     *)
(* that inherits from another, with none, as many or fewer of them.        *)
Means(label, file, centre) ==
  [label |-> label, file |-> file, centre |-> centre, bare |-> FALSE, mistaken |-> FALSE]
InClass(costumes, start) == [costumes |-> costumes, start |-> start]
Two == <<Means("no label", "tall.png", <<0, 2>>), Means("up", "tall.png", <<>>)>>
Wide == Means("no label", "wide.png", <<>>)
Players ==
  {<<InClass(Two, "either"), InClass(costumes, "either")>> :
     costumes \in {Two, <<Means("up", "wide.png", <<1, 0>>)>>, <<[Wide EXCEPT !.bare = TRUE]>>, <<>>}}
  \cup {<<InClass(<<>>, "either"), InClass(<<>>, "shown")>>,
        <<InClass(<<[Two[2] EXCEPT !.mistaken = TRUE]>>, "hidden"), InClass(<<>>, "either")>>,
        <<InClass(<<>>, "either"), InClass(<<Wide>>, "hidden")>>}
Files == {"tall.png", "wide.png"}
Stems == [f \in Files |-> IF f = "tall.png" THEN "tall" ELSE "wide"]
Images == [f \in Files |-> IF f = "tall.png" THEN <<2, 4>> ELSE <<4, 2>>]
Corners == {<<0, 0>>, <<2, -3>>}

-----------------------------------------------------------------------------
(* What the others need.                                                   *)

(* A module; in it a function f with a variable of its own; in f a         *)
(* function or class h; in f or in h a block g that uses the variable.  h  *)
(* may bind, use, or declare global a variable of that name, and use       *)
(* another one.                                                            *)
Use(n, m) == [name \in {"n", "m"} |-> IF name = "n" THEN n ELSE m]
Programs ==
  {[parent |-> <<0, 1, 2, p>>,
    kind |-> <<"module", "function", h, g>>,
    use |-> <<Use(IF u = Use("global", "none") THEN "binds" ELSE "none", "none"),
              Use("binds", "none"), u, Use("uses", "none")>>] :
    <<p, h>> \in {<<2, "function">>, <<3, "function">>, <<3, "class">>},
    g \in {"function", "generator", "class"},
    u \in {Use("none", "none"), Use("binds", "uses"), Use("global", "none"), Use("none", "uses")}}

Naming == INSTANCE Closures WITH
  Name <- {"n", "m"}, Program <- Programs, MaxActivations <- 4, MaxVersion <- 1

(* Up to six items with three keys; compared by their keys, or by which    *)
(* key comes next in a circle, which is no order.                          *)
LessUnder(o, j, k) == IF o = "keys" THEN j < k ELSE k = (j + 1) % 3

Sorting == INSTANCE TimSort WITH
  Keys <- 0..2, Lengths <- {1, 5, 6}, Less <- LessUnder, Orders <- {"keys", "circle"},
  Consistent <- {"keys"}, MinMerge <- 3, MinGallop <- 2

Hats == INSTANCE Registration WITH
  Names <- 2, Delegated <- {2}, Event <- {"click", "clone"}, MaxObjects <- 3, MaxHats <- 3

(* object, and four classes: a diamond, or a class and bases of its bases. *)
Inheriting == INSTANCE Classes WITH
  MaxClasses <- 5, MaxBases <- 2, MaxSlotted <- 2, MaxHolders <- 2

(* Functions suspend up to twice. *)
Suspending == INSTANCE Suspensions WITH Suspends <- 0..2, program <- tree

(* Doubles of six bits, words of four. *)
Counting == INSTANCE Ints WITH
  Mantissa <- 6, Word <- 4, Base <- 8, HashMod <- 29, MaxExact <- 300,
  Operand <- {-200, -63, -61, -33, -13, -10, -3, -2, -1, 0,
              1, 2, 3, 5, 10, 13, 31, 32, 33, 61, 63, 64, 100, 200},
  x <- number

Slicing == INSTANCE Lists WITH
  Item <- {"a", "b"}, None <- 99, Bound <- {99, -4, -2, -1, 0, 1, 2, 4}, Steps <- {1, 2, -1, -2},
  MaxItems <- 4, iterator <- cursor, items <- wanted, met <- given

(* Up to two positional arguments with up to two defaults, and one by      *)
(* keyword only.                                                           *)
SignaturesOf(kind, only, varargs, kwargs) ==
  {s \in {[kind |-> kind, positional |-> SubSeq(<<"a", "b">>, 1, p), defaults |-> q,
           keywordOnly |-> k, kwdefaults |-> e, varargs |-> a, kwargs |-> w,
           hasDefaults |-> TRUE] :
             p, q \in 0..2, k \in only, e \in BOOLEAN, a \in varargs, w \in kwargs} :
     s.defaults <= Len(s.positional) /\ (s.kwdefaults => s.keywordOnly # <<>>)}
WithDefaults == SignaturesOf("library", {<<>>}, {FALSE}, {FALSE})
OfLibrary == WithDefaults
  \cup {[s EXCEPT !.hasDefaults = FALSE] : s \in {s \in WithDefaults : s.defaults = 0}}

Calling == INSTANCE Arguments WITH
  Signatures <- SignaturesOf("function", {<<>>, <<"k">>}, BOOLEAN, BOOLEAN)
    \cup SignaturesOf("generator", {<<>>}, {FALSE}, {FALSE})
    \cup OfLibrary \cup {[s EXCEPT !.positional[1] = "?"] : s \in {s \in OfLibrary : s.positional # <<>>}},
  GivenMost <- 3, Keyword <- {"a", "b", "k", "z"}, outcome <- bound

Operating == INSTANCE Operators WITH outcome <- asked

-----------------------------------------------------------------------------

jumpVars == <<where, exc, err, post, saved, status>>
nameVars == <<program, dicts, acts, made, stack, version>>
sortVars == <<order, reverse, list, next, sorted, pending, merge, doing>>
glideVars == <<position, glides, turn, begun>>
hatVars == <<functions, lists, attr, method, handlers>>
dictVars == <<entries, buckets, dictSize, dictVersion, iterator, content, met>>
dequeVars == <<deque, maxlen, items, counted>>
cacheVars == <<cache, keyOf, after, before, calls, recent>>
importVars == <<cached, objects, running>>
suspensionVars == <<tree, outcome>>
generatorVars == <<body, giRunning, giResumeAt, giSentValue, frames, active, requests, trace>>
costumeVars == <<cast, registered, appearances, names, instance>>
numberVars == <<number, exact>>
sliceVars == <<v, cursor, wanted, given, steady>>
callVars == <<signature, call, bound>>
operatorVars == <<operator, relation, defined, asked>>
allVars == <<vars, jumpVars, nameVars, sortVars, glideVars, hatVars,
             dictVars, dequeVars, cacheVars, classes, importVars, suspensionVars,
             costumeVars, numberVars, sliceVars, callVars, operatorVars,
             generatorVars, part>>

Parts == {"loops", "jumps", "names", "sorting", "gliding", "hats",
          "dicts", "deques", "caches", "classes", "imports", "suspensions",
          "costumes", "numbers", "slices", "calls", "operators", "generators"}

ProgramInit ==
  /\ part \in Parts
  /\ Init
  /\ J!Init
  /\ Naming!Init /\ (part # "names" => program = CHOOSE p \in Programs : TRUE)
  /\ Sorting!Init /\ (part # "sorting" => order = "keys" /\ ~reverse)
  /\ G!Init
  /\ Hats!Init
  /\ D!Init
  /\ Q!Init /\ (part # "deques" => maxlen = 0)
  /\ L!Init
  /\ Inheriting!Init /\ (part # "classes" => ~classes[1].has)
  /\ M!Init
  /\ IF part = "suspensions" THEN Suspending!Init ELSE tree = <<>> /\ outcome = <<>>
  /\ W!Init /\ (part # "costumes" => cast = CHOOSE c \in Casts : TRUE)
  /\ Counting!Init /\ (part # "numbers" => exact = 0)
  /\ Slicing!Init
  /\ Y!Init /\ (part # "generators" => body = <<<<"from", "yield">>, <<"yield", "raise">>>>)
  /\ IF part = "calls" THEN Calling!Init ELSE signature = <<>> /\ call = <<>> /\ bound = <<>>
  /\ IF part = "operators" THEN Operating!Init
     ELSE operator = "" /\ relation = "" /\ defined = <<>> /\ asked = <<>>

Only(p) ==
  /\ part = p
  /\ p # "loops" => UNCHANGED vars
  /\ p # "jumps" => UNCHANGED jumpVars
  /\ p # "names" => UNCHANGED nameVars
  /\ p # "sorting" => UNCHANGED sortVars
  /\ p # "gliding" => UNCHANGED glideVars
  /\ p # "hats" => UNCHANGED hatVars
  /\ p # "dicts" => UNCHANGED dictVars
  /\ p # "deques" => UNCHANGED dequeVars
  /\ p # "caches" => UNCHANGED cacheVars
  /\ p # "classes" => UNCHANGED classes
  /\ p # "imports" => UNCHANGED importVars
  /\ p # "suspensions" => UNCHANGED suspensionVars
  /\ p # "costumes" => UNCHANGED costumeVars
  /\ p # "numbers" => UNCHANGED numberVars
  /\ p # "slices" => UNCHANGED sliceVars
  /\ p # "calls" => UNCHANGED callVars
  /\ p # "operators" => UNCHANGED operatorVars
  /\ p # "generators" => UNCHANGED generatorVars
  /\ UNCHANGED part

ProgramNext == \/ Only("loops") /\ Next
               \/ Only("jumps") /\ J!Next
               \/ Only("names") /\ Naming!Next
               \/ Only("sorting") /\ Sorting!Next
               \/ Only("gliding") /\ G!Next
               \/ Only("hats") /\ Hats!Next
               \/ Only("dicts") /\ D!Next
               \/ Only("deques") /\ Q!Next
               \/ Only("caches") /\ L!Next
               \/ Only("classes") /\ Inheriting!Next
               \/ Only("imports") /\ M!Next
               \/ Only("suspensions") /\ Suspending!Next
               \/ Only("costumes") /\ W!Next
               \/ Only("numbers") /\ Counting!Next
               \/ Only("slices") /\ Slicing!Next
               \/ Only("calls") /\ Calling!Next
               \/ Only("operators") /\ Operating!Next
               \/ Only("generators") /\ Y!Next

ProgramSpec == ProgramInit /\ [][ProgramNext]_allVars /\ WF_vars(~paused /\ Next)

-----------------------------------------------------------------------------
(* Sorting keeps every item, sorts, and is stable; lists are what the      *)
(* operations on sequences make of them; integers have their exact values, *)
(* however they are held.                                                  *)
ValuesAreKept == /\ Sorting!SortsStably
                 /\ part = "slices" => Slicing!ListsKeepItems
                 /\ part = "numbers" => Counting!NumbersAreExact

(* Values are kept; suspensions do not show in what functions do, every    *)
(* block sees the latest value of each of its names, and the variables of  *)
(* a function get the arguments of its call as Python says; registering a  *)
(* class finds every hat above its methods, costumes are worn as the class *)
(* describes them, classes have orders of inheritance, methods follow      *)
(* them, and operators ask the methods of both objects in the right order. *)
ProgramsRunAsWritten == /\ ValuesAreKept
                        /\ part = "suspensions" => Suspending!SuspensionsDoNotShow
                        /\ Naming!VariablesAreShared
                        /\ part = "calls" => Calling!ArgumentsAreBound
                        /\ Hats!EveryHatIsHeard
                        /\ part = "costumes" => CostumesAreWorn
                        /\ part = "classes" => Inheriting!ClassesInherit
                        /\ part = "operators" => Operating!OperatorsAskInOrder

=============================================================================
