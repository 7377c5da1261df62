# Pytch VM: TLA+ specifications and proofs

Pytch VM is a fork of Skulpt (a Python interpreter in JavaScript) with a runtime
for Scratch-like programs.  A *project* is a stage and some sprites; each has
event handlers (hat blocks); the VM's client (the Pytch web app) calls
`Project.one_frame()` sixty times a second, and the green-flag, red-stop and
answer-to-question methods when the user does something.  The Pytch runtime is
small, stateful and concurrent (cooperative threads, deferred removals, waits of
four kinds), and it is specified here as a whole.  Of the Python implementation under
it, the parts are specified in which order, control or boundaries are hard: how compiled
code leaves statements and suspends, how nested functions share variables and calls bind
arguments, how classes inherit, operators choose methods and modules are imported, and
how integers, lists, dicts, deques and caches are kept.

All source paths below are relative to the repository root; the runtime is
`src/lib/pytch/project.js` unless another file is named.

## 1. Inventory

| Part | State | Operations | Interacts with |
|---|---|---|---|
| Project, frames (`Project`, 1699-2159) | `actors`, `thread_groups`, `unanswered_questions`, watchers, draw layers | `one_frame`, `on_green_flag_clicked`, `on_red_stop_clicked`, `kill_all_threads_and_extras`, `do_synthetic_broadcast` | everything below |
| Threads and thread groups (972-1408) | thread `state`, `sleeping_on`, suspension; `threads` of a group | `one_frame`, `enact_syscall`, `maybe_wake`, `maybe_cull` | project, instances, questions, sounds |
| Actors and instances (251-930) | `instances`, `py_object_is_registered` | register, unregister, cull, delete all clones | draw layers, threads |
| Draw layers (1471-1542) | ordered instances of each layer | register behind parent, unregister, move | rendering, click detection |
| Questions (1560-1600, 2043-2102) | queue, state and value of each question | enqueue, accept answer, retire, discard | threads that ask, the client |
| Attribute watchers (1607-1692, 2107-2154) | list of watchers | show, hide, cull | instances, rendering |
| Loop iteration batching (943-964, 1276-1300; `loop_iteration_control.py`) | stack of credit counters per thread | push, pop, `should_yield` | compiled loops |
| System calls (`syscalls.js`) | none of its own | checks arguments, makes suspensions | threads |
| Sprite and stage API (`actor.py`, `clone.py`) | position, appearance, speech of an object | move, speech, glide, clone | system calls |
| Costumes (629-760, 795-910; `actor.py` 158-245) | `_appearances` and cached names of a class; index, size and whether shown of an object | describe, register, switch, show, touch | rendering |
| Glide easing (`glide_easing.py`, `actor.py`) | the loop's frame count, the sprite's position | one position per frame | system calls |
| Hat blocks (`hat_blocks.py`, 380-520) | handler descriptors on functions, the handlers of a class | decorate, register a class | actor registration, loop batching |
| Build (`pytchsupport.js`, 1766-1781) | `Sk.pytch.current_live_project`, asset loaders | import module, register actors asynchronously | client |
| Environment (`src/env.js`) | default keyboard, mouse, sound manager | supplied by the client | project |
| Jumps and handlers of compiled code (`src/compile.js`) | block to run, `$exc`, `$err`, postponed jump, state saved by a suspension | enter and leave loops, `try`, `with`; raise, jump, return, suspend | threads, which suspend anywhere |
| Names of compiled code (`src/symtable.js`, `src/compile.js`) | kind of each name in each block; dicts of cells at run time | analyse; make functions, call them, assign, read | |
| Suspensions of the VM's own functions (`src/misceval.js`) | a tree of continuations | `chain`, `tryCatch`, `iterFor`, retry, resume | threads, promises |
| Generators (`src/generator.js`, `src/compile.js`) | block to resume at, value sent, whether running | next, send, yield, yield from, suspend, raise | threads that share one |
| Calls (`src/function.js`, `src/compile.js`, `src/abstract.js`) | the signature of a function | bind positional, keyword, `*` and `**` arguments | |
| Classes (`src/type.js`) | MRO, JavaScript prototypes and slots of a class | make a class, set and delete special methods, look one up | |
| Operators (`src/abstract.js`, `src/misceval.js`) | none of their own | `+`, `+=`, `<`, `==` on objects of the program | classes |
| Imports (`src/import.js`) | `sys.modules`, attributes of packages | `import`, `from ... import`; bodies that import, raise, suspend | threads |
| List sorting (`src/timsort.js`, `src/list.js`) | the list, runs, galloping threshold | `list.sort()` | keys and comparisons of the program |
| Integers (`src/int.js`, `JSBI.js`) | a double or a BigInt | arithmetic, bitwise operators, powers, rounding, hash | |
| Lists and slices (`src/list.js`, `src/slice.js`) | an array; an index into it for each iterator | insert, remove, replace, slice, iterate | |
| Dicts (`src/dict.js`) | entries by name, buckets by hash, size, version | get, set, delete, iterate | hashes and comparisons of the program |
| Deques (`src/lib/collections.js`) | circular array, head, tail, mask, maxlen | append, pop, rotate, insert, remove, iterate | |
| Caches (`src/lib/functools.js`) | dict and linked list of results | call, evict | functions of the program, which may suspend |
| Other data types, library modules, parser | | | |

What makes it hard: threads of one frame run one after the other and see each
other's effects; what a thread waits for (a group, a sound, a question, time)
may vanish because of a red stop, an exception, or a deletion in the same frame;
deletions are deferred to the end of the frame and the culling of their threads
to the start of the next; the user's answers arrive between frames, late or twice.

What each part must get right:

- **Threads and groups**: no thread is lost or runs twice in a frame; every wait
  ends; nobody waits in a circle; waking never meets a thread in a state in which
  `should_wake` throws; a stop is complete.
- **Instances and layers**: an actor keeps its original instance; what is drawn
  is what the actors have, once, in the right layer and in a stable order; a
  deleted clone runs no further and is gone when the frame ends.
- **Questions**: one at a time on the screen, in the order of asking, each with
  its own answer, kept for the thread that asked.
- **Watchers**: what is drawn belongs to instances which the project has.
- **Loop batching**: no loop exceeds its iterations per frame; no nest of loops
  keeps the frame from ending.
- **Speech, glide**: what was said for a time goes, and nothing newer does.
- **Hat blocks**: every decorated method is registered once for its event, whatever
  the order of decorators and however classes override one another.
- **Build**: the live project is that of the last build; asset loaders are restored.
- **Jumps**: leaving a statement, in whatever way, leaves the handlers of the place
  where execution goes on, no more and no fewer; a suspension changes nothing.
- **Names**: blocks that share a variable see one another's assignments.
- **Suspensions**: a function that suspends ends as it would have without, each part once.
- **Generators**: whoever asks, the body goes on where it was left, with what was sent.
- **Calls**: each parameter gets the one argument meant for it, or its default; a call
  that gives one twice, or none, or too many, is refused.
- **Classes, operators**: methods are those the order of inheritance says; the two
  objects of an operator are asked in the right order, each once.
- **Imports**: a module's body runs once, whoever imports it meanwhile; a failed
  import leaves no module behind that looks complete.
- **Integers**: exact, in either form; equal ones have the same hash.
- **Lists, dicts, deques, caches**: what was put in, in order, whatever wraps round,
  collides, is cut out or is evicted; an iterator meets each item once or says that it cannot.
- **Sorting**: nothing lost, sorted, stable, also when comparisons raise.
- **Costumes**: the label and centre that every form of descriptor means; a sprite that
  is shown has a costume to be drawn in; touching is overlap.

The hazards behind these, each at its line, are in `PROJECT.json`.

## 2. Modules

| Module | Models | Composes / used by |
|---|---|---|
| `Questions` | the question queue; refines `AskOneAtATime` | instance `Q` of `Project` |
| `AskOneAtATime` | what the queue promises, with no queue | |
| `Arrays` | JavaScript's `filter`, as a recursive function | `DrawOrder`, `Watchers` |
| `DrawOrder` | one draw layer, as operators on sequences | `Instances` |
| `Instances` | actors, instances, layers | instance `I` of `Project` and `Watchers` |
| `Project` | frames, threads, groups, events, stops | `I`, `Q` |
| `Watchers` | attribute watchers and the instances they show | `I` |
| `LoopBatching` | iterations per frame of one thread's loops | `Program`; justifies `Project`'s fairness |
| `Program` | the parts of the language and library about which something is proved | `LoopBatching`, and instances `J`, `M`, `Y`, `G`, `D`, `Q`, `L`, `W` |
| `Speech` | what sprites say, for a time or not, and ask | |
| `Build` | building programs and listing their assets | |
| `Registration` | hat blocks, from decorators to handlers of a class | `MCProgram` |
| `Glide` | several threads gliding one sprite | instance `G` of `Program` |
| `Unwind` | how compiled code leaves statements | instance `J` of `Program`; `MCUnwind` |
| `Suspensions` | how the VM's own functions suspend and resume | `MCProgram` |
| `Generators` | generators that threads share, and that yield from one another | instance `Y` of `Program` |
| `Closures` | names of nested blocks, and their cells at run time | `MCProgram` |
| `Arguments` | how calls bind arguments | `MCProgram` |
| `Classes` | orders of inheritance, prototypes and slots | `MCProgram` |
| `Operators` | which methods an operator asks | `MCProgram` |
| `Imports` | importing modules and packages | instance `M` of `Program` |
| `TimSort` | `list.sort()` and its merge sort | `MCProgram` |
| `Ints` | integers as doubles and BigInts | `MCProgram` |
| `Lists` | lists, slices and their iterators | `MCProgram` |
| `Dicts` | dicts, their buckets and iterators | instance `D` of `Program` |
| `Deques` | deques on circular arrays | instance `Q` of `Program` |
| `LruCache` | `lru_cache` with overlapping calls | instance `L` of `Program` |
| `Appearances` | costumes, from descriptors to drawing and touching | instance `W` of `Program` |
| `MC...` | values of the constants for TLC | |
| `Language_proofs` | theorems about loops, jumps, imports and generators | `Program` |
| `Library_proofs` | theorems about glides, caches, dicts, deques and costumes | `Program` |
| other `..._proofs` | theorems of the module named | |

**Questions.** `questions` is every `UserQuestion` constructed, its index the id;
`queue` is `unanswered_questions`. One action per method: `EnqueueQuestion`,
`AcceptQuestionAnswer`, `RetireAnsweredQuestion`, `DiscardQuestions`. A call which
throws changes nothing and is no step. An answer records which question the user
was looking at, which the code does not know; that is what makes a late answer
given to the wrong question visible. Prompts are left out.

**Instances.** `objects` is every `PytchActorInstance` constructed;
`instances` the array of each actor, always in order of construction and so a
set, with `instances[0]` its least element; `drawn` the order in each layer.
`UnregisterInstance` only marks a clone, `CullUnregisteredInstances` removes the
marked ones, `DeleteAllClones` removes clones without marking them, as the code
does. `CloneDeleted` says whether the program clones sprites it has deleted (see
the findings). Classes are registered in the initial state.

**Project.** The Python program is not fixed: a thread in its turn may make any
system call in `Syscalls`, return (`Finish`) or raise. The correspondence:

- `threads[g][s]`: the thread of group `g` in slot `s`, a pair of handler and
  instance; `state` and `on` are `Thread.state` and `sleeping_on`.
- A frame is `LaunchKeypressHandlers*`, `LaunchClickHandlers*`, `WakeThreads`
  (cull, then wake, all groups), then per group one `Turn` of each runnable
  thread in order and `FinishGroup`, then one of `EndFrame`,
  `EndFrameAfterException`, `EndFrameAfterStop`. JavaScript runs the frame
  without interruption: `phase`, `todo`, `spawned` and `nextGroups` only say how
  far it is, and client actions need `phase = "idle"`.
- `spawned \o Again(...)` is the order in which `ThreadGroup.one_frame` returns
  groups: those its threads made before the group itself.
- A system call which fails keeps its error for the thread's next turn; that is
  `NextFrame` followed by `Raise`.
- Groups are numbered, `NewGroup` taking the least number above all scheduled or
  awaited ones. Numbers are used again when nothing refers to them, which keeps
  the state space finite without bounding the behaviours.
- Sounds are external: performances are numbers in `playing`, ended by
  `SoundEnds` at any time between frames.
- `RenderingFails` is `rendering_instructions()` finding something it cannot
  draw; which depends on attribute values and is left to choice.

**Watchers.** `watchers` is the list of (object, attribute) pairs; labels and
positions are left out, so that showing a watcher again is no change. A frame is
any steps of any threads between `StartFrame` and an end. Threads are not
modelled: any object the program could hold may be shown.

**LoopBatching.** `batches` is the stack of credit counters of one thread;
`ran` and `mayEnter` are history. The program is any nest of loops and
`LoopIterationsPerFrame` blocks. `mayEnter` says that straight-line code between
two iterations is finite: without it a "program" could enter and leave blocks
for ever without a loop.

**Speech.** Frames of two threads and their sprite's instances, at the detail of
`speech` attributes: `bubble` of an object says what was said and which
saying it was. `say_for_seconds` and `ask_and_wait` are a first half, a wait, and a
second half that removes the bubble only if it is still its own. A clone copies the
bubble and not the thread that attends to it. `latest` is history: the threads whose
call made what their instance last said.

**Build.** One call of `do_async` per number, with a program counter at each `await`;
between two awaits JavaScript is not interrupted, so that is one action. Imports,
asset loading and registration are external and may fail at any await. Calls that
list assets overlap no other call, which is what the client does;
builds may overlap one another.

**Registration.** A behaviour makes function objects, decorates them, puts them into a
class and its base, and registers them. One `Name` may be that of a
`DelegatingProp`, whose attribute is found before the method.

**Glide.** Exact: times are in 120ths of a second, positions multiples of `1/Unit`, which
is divisible by whatever the curves divide by for the glides of the run.

**Unwind.** A program is any nest, up to `MaxDepth`, of the statements that the compiler
gives handlers or jump targets; `where` is the nest execution is in, with
the part of each statement; `exc` is `$exc`, `err` is `$err`, `post` the postponed jump.
`GoesOn` says whether statements follow a jump in its own block; whether they follow
in `finally` blocks when a return is postponed; and whether a `break` or `continue` leaves a
`finally` block that holds an exception back: the compiler emits code for all three, whose
behaviour differs from Python's (see below). `HandlersStay` says of each state what `$exc` has to
be: the handlers that the code around the place `Needs`, in their order, and those `Kept`
by what is suspended.

**Closures.** The symbol table's analysis is a function of the program (`parent`, `kind`,
`use` of each block); its result decides where a call keeps each variable: `dicts` are
the objects `$loc`, `$cell` and `$gbl` at run time, `made` the functions that exist,
each with the dict it closed over. `GlobalAround` are the names that a block around this one
declares global (`newglobal`), which do not make it `hasFree` (symtable.js:1043). A value is the number of the assignment.

**TimSort.** `next` in the code's own order: runs are counted, lengthened by binary
insertion, pushed, and merged while the invariant of the stack asks for it; merges gallop.
A comparison may raise at any time. `MinMerge` and `MinGallop` are constants (64 and 7 in
the code), so that short lists reach every path.

**Suspensions.** A program is a tree of the combinators of `misceval.js`, with leaves that
suspend up to a number of times, and may raise. `Call` and `Resume` run it as the code does, by
building and resuming continuations; the property compares what it did with the same
tree when nothing suspends.

**Generators.** Two threads ask two generators, of which the first may yield from the
second, for values; `frames` are the bodies entered, and a thread in which a call suspends
leaves them so, `gi$running`, while the other one runs. The trace of a body is compared with
the body itself. The code differs from Python in ways that the property leaves open:
asked again after its end, a generator runs what follows its last `yield` once more
(`gi$resumeat` stays); after an exception that leaves it, it is "already executing" for good;
`$exc` starts empty, so that a handler does not outlast a `yield` inside of its `try`; and
a delegate that has already begun is first sent what its delegator was sent. Expressions with
several yields, which all read `gi$sentvalue`, are not modelled.

**Arguments.** A behaviour is one call of one signature: a compiled function, a generator
(which takes only positional arguments) or a function of the library. `ResolveArgs`,
`MakeGenerator` and `CopyKeywordsToNamedArgs` are the three ways to bind; `Meant` is
Python's rule, stated without an order of steps. A function of the library may pass no
defaults (`hasDefaults`), which is not the same as an empty array: `copyKeywordsToNamedArgs`
then refuses arguments that are too many, unknown or given twice, but not those that
are missing. They stay undefined, for the function itself to look at, as `deque` does
(collections.js:509), and `IsAccepted` asks no more of such a function. What a function makes of
an undefined argument is not modelled.

**Classes.** Classes are made one after another, with bases among those that exist, and
special methods are set on and deleted from them. `Mro` is C3; `Prototypical` says whether
JavaScript's prototype chain is the MRO, and if not, which slots are copied; one special
method stands for all, and its slot may be set, found by prototype or copied.

**Operators.** Two objects whose classes are related in one of five ways, each defining
any of the methods an operator may call, which answer or return `NotImplemented`.

**Imports.** `cached` is `sys.modules`, `stack` of each thread the bodies that run. A body
may import, suspend and raise. Reading a file is one step (`Sk.read` does not suspend in
Pytch); packages are in no packages; the program does not change `sys.modules`.

**Ints.** `x` is what a program has computed, `exact` what it should be. `Mantissa` and
`Word` are 53 and 32 bits in JavaScript; `Rounded` and `FlooredQuotient` are what doubles
do, so that an operation near the limit is rounded as it would be. Operands for which an
operator is known to be wrong (below) are guards, each with a comment.

**Lists.** `v` is the JavaScript array. `items` is the same list as Python means it, with
slices as sets of indexes; the invariant says that the two are equal. Slices are taken
while there is no iterator.

**Dicts.** `entries` by name (the name of a key that is no string is made from its hash and its
place in a bucket), `buckets` with their holes. The iterator keeps version and size as the
code does; `content` and `met` are history. Strings equal only themselves, and comparing
keys does not change the dict.

**Deques.** The array with `head`, `tail` and `mask`; places outside the deque hold what the
code leaves there. After the faulty `del` (below) the deque is not followed further.

**LruCache.** `next` and `prev` are the linked list; a call is begun, may overlap others of
the same or other keys, and ends or raises.

**Appearances.** Two classes of sprites, the second inheriting from the first, with their
descriptors as their author meant them. `names` is the cached attribute of each class
itself, found by inheritance as in the code. The property excepts classes that have
borrowed the names of another (see below). Only originals: a clone copies its parent.

**Program, MCProgram.** The modules from `LoopBatching` on, and `Glide`, `Registration` and
`Appearances`, need nothing of one another. `Program` has those about which theorems are
proved, with all their constants and with what the theorems assume of them;
`MCProgram` gives the constants values and adds the other modules. One run explores them all:
the initial state chooses a `part`, only it takes steps, and the properties of a part
are checked where it is the part. `ProgramsRunAsWritten` is the conjunction of what is not
proved, and of `CostumesAreWorn`: that sorting is stable, lists are the sequences they should be
and integers exact (`ValuesAreKept`); that suspensions do not show, nested blocks share their
variables, calls bind their arguments, hats are heard, costumes worn, classes inherit and
operators ask in order.

Definitions whose comment starts "A bug" are plausible mistakes, used in no
specification: each replaces the real definition in a mutation test of one property.

## 3. What TLC checks

Constants are in the `.cfg` files; each run finishes within two minutes.

| Run | Question | Bounds | Distinct states |
|---|---|---|---|
| `questions` | order, one live question, replies, refinement, liveness | 3 questions, 2 answers | 127 |
| `clones` | threads and instances come and go together; each group is scheduled once; a stop is complete; `Project` implements `Instances` | 2 actors, 2 clones, 3 handlers, 3 groups | 76,536 |
| `waits` | no circular wait; each kind of wait ends | 3 groups in a chain of broadcasts, waits of 1-2 frames, 1 sound | 16,126 |
| `asks` | every asker is answered or stopped; `Project` implements `Questions` | 3 questions, 1 clone, 2 groups | 36,168 |
| `watchers` | actors, layers and watchers agree and keep their order | 2 clones, 1 attribute, 2 watchers | 27,136 |
| `speech` | bubbles go in time, and nobody removes another's | 2 threads, 1 clone | 358,346 |
| `build` | the live project is complete and the newest; loaders are restored | 3 calls | 218,714 |
| `program` | what the language and its library do for a program, in 18 parts | see below and `MCProgram` | 482,777 |
| `ghosts` | are instances drawn, cloning a deleted sprite? (**violated**) | | |
| `stop_and_raise` | is a stop complete with exceptions? (**violated**) | | |
| `stale_watchers` | are watched objects instances, keeping clones in variables? (**violated**) | | |
| `unwind` | are handlers only those around the place, with `continue` and `break`? (**violated**) | | |

*Why these bounds.* Three questions are one live, one next and one behind it.
Two clones of a sprite with its original give a front, a middle and a back in the
layer, and a clone of a clone. Three groups are a waiter, the one it waits for and
one behind that, which is the longest chain that behaves differently from two; a
fourth would only repeat the step. A wait of two frames has a count that is looked
at without waking. Depth four nests blocks in blocks with a batch below and above.
The numbers of clones and of questions are bounded over a whole behaviour, which
ends cloning and asking but no other activity.  Deadlock is checked in all runs
but `program`, where a call returns for good, a list, once sorted, stays, and most parts end
when their bounds are reached; `Build` ends in a state that its specification lets stutter on.

In `program`: batches of one to three iterations in blocks of depth four nest blocks in
blocks with a batch below and above. Three nested statements with two handlers have
every pair of statements inside or around a third. A module, a function
in it, a function or class in that, and a block in either that uses the variable is the
shortest chain in which a name passes *through* a block; four activations give one
block twice. Lists of 1, 5 and 6 items with `MinMerge` 3 have no run, several, and a
stack of runs that must be merged out of turn; three keys give equal and different
neighbours; the circular comparison is no order at all, and then only the items are
required to survive. Glides of one to four frames have no middle, an odd and an even
one. Two names, three functions and three decorators let one function be in two
classes, and one class override another.

A dict has a string and three numbers of one hash, two of which are equal: a bucket with
holes, a collision and a key found as another object. Deques go through arrays of two, four and
eight places, with no `maxlen`, and with 0, 2 and 3. Caches of two results see three keys and
three calls at once. Four classes below `object` with up to two bases include the
diamond and the orders C3 refuses. A package of two modules is imported by
two threads, with four module objects, so that a body can fail and be run again.
Trees of four or five leaves that suspend up to twice have each combinator in each other.
Generators of up to five statements, with five values asked for, have every statement before and
after every other, and both threads in each. Doubles of six bits and words of four leave operands on both sides of every limit, up to
300; powers, shifts and roundings go to the third. Slices have bounds before, at and beyond both
ends of lists of up to four, and steps of one and two either way. Signatures have up to two
positional parameters with any defaults (in the library also with none passed), one by
keyword only, `*` and `**`; calls up to three positional arguments and two names. Costumes come in every form of descriptor;
two places and two sizes let sprites overlap, touch along an edge and be apart.

*Which case each run is for.* `clones` includes broadcasts that wait for clones
deleted meanwhile. `waits` has a thread waiting for a group that has finished,
and so left the schedule, before the waiter is looked at. `asks` has
askers deleted, stopped and hit by another thread's exception while the user
answers. `speech` has a clone made while its sprite has a timed bubble, and
a second saying while the first one's time runs. `build` has a build that began
earlier and ends later.

### Fairness

`Project!FairSpec` has weak fairness of `FrameGoesOn` (the client keeps calling
`one_frame()`, which is what its animation loop does; a turn ends, which
`LoopsReachNextFrame` in `program` shows for loops), strong fairness of
`UserAnswers` and of `SoundEnds`. Strong, because frames come between: both
are possible only while no frame runs. The user answering is an assumption about
the user, and without it `AskersResume` is plainly false. No fairness is
given to flags, stops, broadcasts, or any particular thread's choices.
`Questions!FairSpec` says the same of the queue alone.
`LoopBatching!FairSpec`, and `ProgramSpec` with it, says that JavaScript keeps running a
thread until it pauses. `Speech!FairSpec` says, as `Project`'s does, that frames go on.
`Build!FairSpec` says that every promise a call awaits is settled; nothing is said of
which call goes first.

### Findings

1. **A clone of a deleted sprite is a ghost** (`ghosts`). `register_py_instance`
   pushes the clone onto its actor and only then registers it behind its parent
   in the layer, which throws when the parent is no longer drawn. The clone
   stays, gets threads for later events, and is never drawn or clicked.
2. **A stop is lost when another thread raises in its frame** (`stop_and_raise`).
   `one_frame` deals with exceptions first, which empties the groups in which it
   would have found the request to stop: clones and speech bubbles stay.
3. **Watchers of clones deleted by a stop** (`stale_watchers`). `delete_all_clones`
   does not mark clones as unregistered, and `object_is_live` asks only for that.
   A program which kept such a clone in a variable can show its attributes, and
   the watcher stays, against what the user documentation says.
4. **`continue` and `break` leave handlers behind** (`unwind`). They jump to the loop
   and pop nothing from `$exc`; an exception later in the function lands in the
   `except` clause of a `try` statement that is over.

Observed while modelling, with no run of their own:

- The question of a deleted asker stays in the queue and is put to the user.
- `wait_seconds(nan)` never ends.
- A program's own call of `yield_until_next_frame()` does not pause while the thread
  has a loop credit left (a thread starts with one), although
  `doc/source/developer/syscalls.rst:49` says that it pauses.
- The comment on `unregister_instance`, that a thread goes on after
  `delete_this_clone()`, is stale: `enact_syscall` now ends it.
- `threads_info()` has no case for a thread which waits for an answer, and throws while
  one does (project.js:1007).
- `list.sort()` leaves the list empty when a key function or a comparison raises.
- A `break`, `continue` or `return` in a `try` with a `finally` is postponed, and the
  statements that follow it in its block still run; with such statements, or
  exceptions in them, `Unwind!HandlersStay` does not hold, which is why `GoesOn`, there
  called `JumpsAreFollowed`, is `FALSE` in `program`. A bare `raise` raises the last exception
  caught anywhere in the function.
- A `break` or `continue` in a `finally` block that holds an exception back, inside another
  `try` with a `finally` in the same loop, sets `$postfinally`; the inner block then raises its
  exception all the same, and whoever catches it later meets the old jump at the end of
  some other `finally` block, which goes to a place whose handlers are gone (compile.js:1553-1590,
  1681-1692 and 2565-2590). With `GoesOn`, TLC shows it in four steps.
- Reading a name before its first assignment can find the variable of that name of an
  enclosing function, through the prototype of the dict of cells, against what
  `test/unit3/test_unbound_free.py` says ("A cell starts out empty on each call").
- Generators copy the variables they close over (generator.js:40-45 has a "todo" on it);
  later assignments are not seen, hence the exception for them in
  `Closures!VariablesAreShared`.
- A generator whose body raises stays `gi$running`.
- A function called `top` is taken for the module by the symbol table.
- A decorated method named like a `DelegatingProp` (`direction`, say) is never registered
  and nothing says so; a method with two names is registered twice.
- A sprite class that inherits from another uses that one's costume *names* once they have
  been looked up (`actor.py:159` finds the cached attribute by inheritance): switching by
  name then fails, or wears another costume, or an index that cannot be rendered.
- `touching()` of a sprite's own class is true whenever it is shown: it touches itself.
- Of costumes with one label the first is found by name; of sounds with one name, the last.
- `del d[i]` on a deque resizes with the size before the deletion (collections.js:956-971), and
  may leave it with one item too many; `d += x` loses `maxlen`.
- A class with several bases that defines `__eq__` stays hashable (type.js:604); deleting
  one of two special methods that share a slot deletes both (a TODO says so, type.js:345).
- `import x` in a module of a package tries the package first; importing from a plain module
  falls back to the global path; after a package's body has failed, its submodules stay in
  `sys.modules` and the package imported again lacks them as attributes; `Sk.globals` is not
  restored when an import raises.
- `slice.indices()` may return a negative stop (slice.js:137), where Python gives 0.
- Integers: `0 // n` and `0 % n` are wrong for a negative BigInt `n` (int.js:673-684);
  `-9007199254740991 % 3` is rounded (int.js:135); `pow(x, n, m)` has the sign of a
  truncated remainder, and gives 1 for `n = 0`, `m = 1`, when left to BigInts; a BigInt
  that becomes zero in `round` or `**` is true (int.js:112); right shifts never use the
  quick path written for them, which returns nothing (int.js:163-166).
- Keywords given twice, once in a `**` mapping, both for the callee's `**kwargs`, are
  accepted, the last one winning; a generator function takes no keywords at all.
- A function of the library that passes no defaults is called with `undefined` for whatever is
  missing, also where Python requires an argument: `functools._lru_cache_wrapper`
  (functools.js:182) and `IsoCalendarDate` (datetime.js:1288) look no further.
- `x + y` asks `x` first if the class of `y` has that of `x` as its second base, since
  `instanceof` follows first bases only (abstract.js:205-210, against its comment);
  comparisons go by the MRO and ask `y` first.
- `asset_names_of_project` makes its probing project the live one, and two overlapping
  calls would restore the wrong loaders; the client awaits each.
- Builds are not numbered: of two that overlap, the one that ends last becomes the live
  project (pytchsupport.js:153), though it may be the older. `LiveProjectIsReady` covers
  overlapping builds, but `OlderNeverReplacesNewer` is only about a client that awaits
  each build, as Pytch's does, and would not hold of another.

## 4. What TLAPS proves

For all values of the constants that satisfy the modules' `ASSUME`s
(`MaxQuestionsAssumption`, `ProjectAssumption`, `HandlersInActorOrder`, `WatchersAssumption`,
`LoopBatchingAssumption`, `SpeechAssumption`, `BuildAssumption`, `ProgramAssumption`), in particular for any
number of threads, handlers, groups, actors, clones, questions, watchers, programs and
builds. They say what kinds of values the constants are. Two say more:
`HandlersInActorOrder` numbers the handlers as the code's loops meet them, and no
proof needs it; `ProgramAssumption` says that nothing follows a jump (`~JumpsAreFollowed`, see
the observations), that a package is a module, that a cache has room, that the positions on
the way of glides are whole multiples of the unit, that the body of a generator has one `try`
statement at most (`Generators` has one handler for each body), what Python demands of
hashes: equal keys have the same, and that images have pixels, sprites a size, and a costume
which is written as a file alone no label and no centre (`CostumesAreWritten`). TLC evaluates them in the runs. `Instances` alone is the module of no passing
run, so what its proofs assume is an operator, `InstancesAssumption`, which `Project_proofs`
and `Watchers_proofs` show from the assumptions of their modules. Three theorems have a
hypothesis besides, each the negation of what a finding of section 3 needs; and
`GlidesAlwaysArrive` names the `grain` of positions that `ProgramAssumption` says exists.

**Questions_proofs.** `QueueInvariant`: types, the queue is a suffix of the questions
constructed, only its head has been shown, replies match. Neither of the last two
is inductive alone: that the head is the only one shown needs to know that the
queue has no question twice, which it has because it is a suffix.
`AnswersReachTheirQuestions` is its last part. `AnswersStayFinal`: an answered question
never changes.
`QueueImplementsAskOneAtATime`: the refinement; the work is in showing that
"the oldest unsettled question" of the abstract module is the queue's head.
`ShownInTurn`: what the abstract module promises, one live question at a time and
questions settled in the order asked, then holds of the queue, by the refinement alone.

**Instances_proofs.** One inductive invariant, `InstInv`: the objects have the actors they
were made for and originals stay registered (`ObjectsInv`), each actor has its original and
only its own instances, the original the eldest (`InstancesInv`), and a layer holds no
instance twice and only instances that exist and belong to it (`LayersInv`). It holds even if
deleted clones are cloned.
`LayersAgree`: each instance is drawn, provided that no deleted clone is cloned; that is
the ghost of finding 1, and the hypothesis of the theorem. `OrderStays`: what is
registered, culled or stopped changes the order of nothing else.
The lemmas behind them are about JavaScript's arrays. What `filter` returns is a recursive
function and induction is not to be had; but the first place at which the claim
fails is, by well-foundedness of the naturals, and each property is inherited from the place
before it. `Earlier`, a relation of two elements of a sequence, says what an order is without
saying where its elements are, which is what filtering and inserting keep.

**Project_proofs.** All rest on one inductive invariant, `SchedInv`:

- `ScheduleTypes`, `ThreadTypes`, `QuestionTypes`: of the variables the rest mentions.
- `FrameShape`: turns are given only while there is a group, and nothing is left
  in `spawned` or `nextGroups` when the frame ends.
- `ThreadsAreScheduled`: every live group is scheduled (theorem `NoThreadIsLost`).
  Each `FinishGroup` needs `FrameShape`; each new group needs `NewGroup` to be fresh.
- `EndedThreadsGo`: a zombie is in a group yet to have its turn; a thread that
  raised or asked to stop exists only in a running frame. With `ThreadsAreScheduled`,
  which says that `SomeThread` looks everywhere it must, it gives `WakingIsSafe`.
- `FitWaits`: a thread waits for a younger group or for a positive time. It gives
  `SleepersHaveTime` and `WaitsGoToYounger`; from the latter,
  `NobodyWaitsInACircle`: the youngest of any finite set of groups waits for none
  of them, so `broadcast_and_wait` cannot deadlock however many threads there are.

On top of it, each with what it adds to the invariant:

- `OneTurnEach`, from `GroupsApart`: the three parts of the schedule hold no group twice
  and share none. It needs the freshness of `NewGroup` again, here of all three.
- `NoThreadWithoutInstance`, from `OwnersInv`: the instance of any thread is one the project
  has or is marked as deleted, so that culling finds the thread before its next turn. A
  clone deleted by a stop is not marked, which is no harm only because a stop
  takes the threads away in the same step.
- `AskersGetAnswers`: what a thread waits for is queued or answered. The steps that
  empty the queue are those which end all threads. `LiveQuestionsAreOpen` with it.
- `FieldsHaveTypes`: `TypeOK`, all variables.
- `StoppingDeletesClones`: a stop leaves originals only, if no thread can raise an exception
  (`"raise" \notin Syscalls`; failing calls raise in the same way): that is the one cause
  of finding 2.

Composition: `QuestionsAreAskedAsSpecified` and `InstancesAreKeptAsSpecified` show that
`Project` implements `Questions!Spec` and `Instances!Spec`, each of its actions being an
action of the component or a stutter. What was proved of the components alone then holds in
the project: `ProjectAsksOneAtATime`, `ProjectDrawsItsInstances` (if `~CloneDeleted`),
`ProjectKeepsTheOrder`.

**Watchers_proofs.** `LayersAgree` and `OrderStays`, as for `Instances`, whose invariant it
uses: `Watchers` calls `Instances` several times in a frame, and showing that these calls are
steps of it is all that is left. `WatchersGoWithInstances`: between frames only
instances are watched, unless the program keeps deleted clones in variables
(`~KeepsClones`; finding 3). `WatchersStayInOrder`: culling is filtering, which keeps `Earlier`.

**Language_proofs.** `LoopsKeepToTheirBatch`: no loop runs more iterations in a
frame than its block allows. Stated so it is not inductive; `PaidFor` says that
iterations run and credits left together stay within the batch.

`HandlersAlwaysStay`: for programs of any depth, the handlers and `finally` blocks around a
place are on `$exc`, in order, however control got there. `$exc` may hold others too,
which `continue` and `break` have left behind (finding 4), so that it is not a function of the
place, and each step that pops it pops something else than it means to, unless what is meant
is on top. `HandlersInv` therefore says of every block on `$exc`, left behind or not, that
what lies below it is what its own place needs (`Stacked`), for an exception may go there; and the
same of a suspended call. The other half is `Postponed`: a jump in `$postfinally` leads out of a
loop around the present place, or to its next iteration, and no `finally` block on the way
holds an exception back.

`ModulesAlwaysRunOnce`: whatever threads import what modules, with bodies that suspend, import
others or raise, no body runs twice at a time; what is imported has run or is running; a
package has its modules, but none that failed. Its invariant, `ImportsInv`, relates module objects to the bodies that run, on whatever
stack: each module that is said to be running has one body and no other (`BodiesRun`), what
is in `sys.modules` has not failed and what has not failed is there (`Cached`), a package has
the attribute from where the body begins (`Attributes`), and each package that is
marked as initializing, though it has run, is marked by one body only, which takes the
mark away (`Initializing`).

`GeneratorsAlwaysGoOn`: however threads ask generators and are suspended, each generator runs the
statements of its body in order, once each, and goes on with what was sent or raised.
The property is about what a generator has done; `GeneratorsInv` adds where it stands.
A generator on a thread's stack `FrameFits`: its next statement is the one after
the last in its trace, `$exc` has the handler of the `try` statement around it unless a value
given inside has dropped it (`Guarded`), and it stands at a `from` if another is above it and at
a `wait` if it tops the stack of a thread that is suspended. One that is on no stack
is `Idle`: `gi$resumeat` says where it goes on, and that is after a `yield` or at a `from`. No
generator is on two stacks or twice on one, which is what `gi$running` is for.

**Library_proofs.** `CurvesRise`: for any number of frames, both easing curves rise from each
frame to the next, begin above zero and end at one, so a glide's last frame is at its
destination. The quadratic curve's halves are lemmas of their own; the second mirrors the first.
`GlidesAlwaysArrive`, an action property, is about the glides themselves: each frame of one
brings the sprite closer to its destination, unless another glide has moved it meanwhile, and the
last frame brings it there. `GlideInv` is that a glide has left the sprite where its curve was, and
that every position is a multiple of the grain of the glides begun so far, without which
the model's division would round where the code's does not.

`CacheAlwaysKeepsRecent`: the links of `lru_cache` form one ring, through the root, of at
most `maxsize` keys, from the one used longest ago to the latest; `cache` finds the link of each
key and the link knows its key. `LruInv` has two parts: `Held`, that the links of the keys used last are that ring, and
`Known`, that the cache has these keys and no others. A call under way remembers nothing of the
cache, which is why the function may call itself or clear the cache meanwhile.

`DictsAlwaysKeepItems`: a dict has the pairs that were put into it, in that order, and finds
each by any key equal to its own; an iterator that has not raised has met the keys in order.
`DictInv`: `Sound`, equal keys are never two entries, an entry's name tells the place of its key
in the buckets, and what is at a place has an entry of that name; `ItemsAre`, the entries are the
pairs; `Iterates`, the iterator has given its first keys, which are the dict's as long as its
version is. Removing leaves holes in buckets and
adding fills the first: that names stay unique is the lemma most of the rest needs.

`DequesAreAlwaysSequences`: a deque holds what a sequence would after the same operations.
`Holds` says that the array has the items at the places from its head on, round its end, and room
for one more; between two writes it may be full (`Fills`), which is where the code doubles it.
The code computes places with a mask, here a remainder; `Rounds` turns it into a comparison,
for the operations leave the array by one turn at most. Inserting and deleting shift the items
behind, which is a lemma about one item at a time; rotating shifts them round one by one, and
`Shifts` is the history of that, a function whose existence follows from the first number of steps for
which there would be none.

`CostumesAreAlwaysWorn`: costumes are what their descriptors mean, a sprite that is shown has
the costume it was told to wear, and two sprites touch exactly if there is a pixel in which both
are drawn. `Appearing` is the invariant: with the costumes as meant, the cached names of a class
are the labels of its own costumes, from which it follows that a name found at an index is that of the
costume at that index; a class that has borrowed names is excepted, as in the property. That boxes overlap if and only if the
images share a pixel needs `Tiles`: an image of `w` by `h` pixels, drawn at a whole size, covers
its box without a gap.

**Speech_proofs.** `OthersSpeechStays`: the end of a `say_for_seconds()` removes no later
bubble. The invariant, `SpeechInv`, says that a thread whose bubble was replaced remembers
another id than the one it will find. It needs `IdsAreNew`: an id always exists that neither
a bubble nor a waiting call has, by counting the instances and the threads, so that the
`CHOOSE` in `NewSpeechId` is never vacuous. `SayingTakesItsTime`: the frames rendered since a
call and those left to it are together the frames of its duration (`WaitInv`).
`NobodyForgetsABubble`: who was the last to speak for its instance sees its own bubble as long
as the instance exists, and a bubble said for a time, or to ask, has such a thread
(`BubbleInv`); bubbles copied to a clone, or left when an exception took all threads
away, have none.

**Build_proofs.** `ListingAssetsDoesNothingElse` and `NewerProjectsStay`, from `BuildInv`.
Its heart is `LoadersAreOwn`: every call under way finds the loaders it should use. As a
listing's loaders are its own, that leaves no room for any other call beside it. `CallInv` says
which assets a listing has noted by each of its awaits, and `OnlyLastUnderWay` that a client
which waits has one call at a time, so that the one which sets the live project is the newest.
`LiveProjectsAreComplete`: the live project has one actor for each class found, the stage first
and the sprites in order; its invariant, `ReadyInv`, says at each await of a build which of
them are registered (`RegisteredSoFar`).

*Only model-checked.* Liveness and `ENABLED`, which the prover cannot do. Sorting, names, lists
and integers: what they compute is a sequence or a number built by recursion over data of any
size, and the claim for every size would need induction over it. `Classes` and `Suspensions` use
recursive operators, with which the prover loses its arithmetic, and `Registration` folds over the
attributes of a class. `Arguments` could be proved about; its behaviours are one call long, so that
the checked instance already has most of the cases. `Operators` has no constants: the run
explores all that it can do.

## 5. Not modelled

- Parsing, expressions other than calls and operators, assignment targets, attribute lookup
  beyond special methods, metaclasses: threads' programs are arbitrary in `Project`, and
  elsewhere reduced to the statements and names that matter there.
- Floats, strings, sets, tuples and the other library modules inherited from Skulpt
  (`src/lib` except `pytch/`, `collections.deque` and `functools.lru_cache`): sequential code,
  large (`datetime`, `turtle`, `processing`, `re`), on which nothing of Pytch's depends. Most
  of the repository's lines are here, in generated parser tables, and in vendored tools,
  which is why the share of lines modelled is small.
- Directions and plain setters of positions; hit detection of clicks, which in `Project` may
  hit any drawn instance; the stage's backdrops, which are handled as costumes are.
- The keyboard, mouse, sound manager and error reporting of the client: external,
  present as choices. The default `Environment` does nothing of its own.
- Argument checks and error texts of system calls; gains of the mix bus.
- The check that a list was not modified while it was sorted.

## 6. Plan

Done: all components of the Pytch runtime; of the language, compiled code's jumps, names,
calls, classes, operators, imports, suspensions and generators; of the library, integers, lists,
sorting, dicts, deques and caches.

What would come next: the tokenizer's indentation and the parser's tables; sets and
`OrderedDict`; comprehensions and assignment targets.
Next theorems: that the handlers registered are the decorated ones (`Registration`); that calls
bind their arguments (`Arguments`).
