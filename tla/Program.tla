------------------------------- MODULE Program -------------------------------
(***************************************************************************)
(* What the language and its library do for the code of a program, beside  *)
(* LoopBatching: statements that jump, imports, generators, gliding,       *)
(* dicts, deques, caches and costumes.                                     *)
(* These parts need nothing of one another.  Here are those about which    *)
(* something is proved, for any values of their constants; MCProgram gives *)
(* them values, and adds the others.                                       *)
(***************************************************************************)
EXTENDS LoopBatching, Integers

CONSTANTS Exception, MaxNesting, MaxHandlers, Jumps, JumpsAreFollowed   \* see Unwind
CONSTANTS Modules, ParentOf, ThreadId, MaxObjects                       \* see Imports
CONSTANTS GeneratorBodies, Delegate, MaxAsked                           \* see Generators
CONSTANTS Threads, Destinations, Times, Curves, MaxGlides, Unit         \* see Glide
CONSTANTS Key, Same, KeyHash, Strings, DictValue, MaxVersion, MaxItems  \* see Dicts
CONSTANTS DequeItem, NoMaxLen, MaxLens, MaxDequeItems                   \* see Deques
CONSTANTS CachedKey, MaxSize, MaxCalls                                  \* see LruCache
CONSTANTS Casts, StemOf, ImageSize, DrawnAt, DrawnSizes                 \* see Appearances

VARIABLES where, exc, err, post, saved, status                          \* jumps
VARIABLES cached, objects, running                                      \* imports
VARIABLES body, giRunning, giResumeAt, giSentValue                      \* generators
VARIABLES frames, active, requests, trace
VARIABLES position, glides, turn, begun                                 \* gliding
VARIABLES entries, buckets, dictSize, dictVersion, iterator, content, met  \* dicts
VARIABLES deque, maxlen, items, counted                                 \* deques
VARIABLES cache, keyOf, after, before, calls, recent                    \* caches
VARIABLES cast, registered, appearances, names, instance                \* costumes

J == INSTANCE Unwind WITH MaxDepth <- MaxNesting, GoesOn <- JumpsAreFollowed
M == INSTANCE Imports WITH stack <- running, Module <- Modules, Thread <- ThreadId
Y == INSTANCE Generators WITH
  Thread <- ThreadId, Bodies <- GeneratorBodies, asked <- requests
G == INSTANCE Glide WITH x <- position, Places <- Destinations
D == INSTANCE Dicts WITH size <- dictSize, version <- dictVersion,
  HashOf <- KeyHash, Value <- DictValue
Q == INSTANCE Deques WITH
  d <- deque, Item <- DequeItem, Unbounded <- NoMaxLen, MaxItems <- MaxDequeItems
L == INSTANCE LruCache WITH
  Key <- CachedKey, key <- keyOf, next <- after, prev <- before
W == INSTANCE Appearances WITH
  program <- cast, Programs <- Casts, Places <- DrawnAt, Sizes <- DrawnSizes

-----------------------------------------------------------------------------
(* What the theorems about them assume of the constants.                   *)

(* Every module is in a package that is a module, or in none. *)
ParentsAreModules == ParentOf \in [Modules -> Modules \cup {M!Top}]

(* A body has one try statement at most, and which generator is the        *)
(* delegate is known; 0 is no thread.                                      *)
SimpleBody(s) ==
  /\ s \in Seq(STRING)
  /\ \A i, j \in DOMAIN s : s[i] = s[j] /\ s[i] \in {"try", "end"} => i = j
  /\ \A i \in DOMAIN s : s[i] = "try" => \E j \in DOMAIN s : j > i /\ s[j] = "end"

BodiesAreSimple ==
  /\ 0 \notin ThreadId
  /\ \A b \in GeneratorBodies :
       Delegate \in DOMAIN b /\ \A g \in DOMAIN b : g \in Nat /\ SimpleBody(b[g])

(* grain[k] divides what positions are after k glides: a glide divides     *)
(* them by the square of its number of frames.                             *)
UnitIsExact(grain) ==
  /\ Threads \in Nat \ {0} /\ MaxGlides \in Nat
  /\ Destinations \subseteq Int /\ Times \subseteq Nat
  /\ grain \in [0..MaxGlides -> Nat \ {0}]
  /\ grain[0] = Unit
  /\ \A k \in 1..MaxGlides, time \in Times :
       \E q \in 1..Unit : grain[k - 1] = q * (G!NumFrames(time) * G!NumFrames(time) * grain[k])

(* Equal keys have the same hash, and a string is equal to itself only. *)
KeysHaveHashes ==
  /\ DOMAIN KeyHash = Key /\ Strings \subseteq Key /\ D!Hole \notin Key
  /\ \A j, k \in Key : D!Equal(j, k) => KeyHash[j] = KeyHash[k] /\ (j \in Strings => j = k)

LengthsAreNumbers == MaxLens \ {NoMaxLen} \subseteq Nat

SizeIsPositive == MaxSize \in Nat \ {0}

(* What authors write as costumes: a file alone has its own label and      *)
(* centre.  Images have pixels, and sprites a size.                        *)
CostumeMeant ==
  [label : STRING, file : DOMAIN ImageSize, centre : Seq(Int), bare : BOOLEAN, mistaken : BOOLEAN]
CostumesAreWritten ==
  /\ Casts \subseteq
       [W!Class -> [costumes : Seq({w \in CostumeMeant :
                                      w.bare => ~w.mistaken /\ w.label = W!NoLabel
                                                            /\ w.centre = <<>>}),
                    start : STRING]]
  /\ DOMAIN ImageSize \subseteq STRING /\ StemOf \in [DOMAIN ImageSize -> STRING]
  /\ ImageSize \in [DOMAIN ImageSize -> (Nat \ {0}) \X (Nat \ {0})]
  /\ DrawnAt \subseteq Int \X Int /\ DrawnSizes \subseteq Nat \ {0}

ASSUME ProgramAssumption ==
  /\ ~JumpsAreFollowed
  /\ ParentsAreModules
  /\ BodiesAreSimple
  /\ \E n \in 1..Unit : UnitIsExact([k \in 0..MaxGlides |-> Unit \div n^k])
  /\ KeysHaveHashes
  /\ LengthsAreNumbers
  /\ SizeIsPositive
  /\ CostumesAreWritten

-----------------------------------------------------------------------------
(* Jumps and suspensions leave the handlers around a place on $exc. *)
HandlersStay == J!HandlersStay

(* An imported module has run, or is running, once. *)
ModulesRunOnce == M!ModulesRunOnce

(* Generators go on where they were left. *)
GeneratorsGoOn == Y!GeneratorsGoOn

(* Frames of a glide come closer to its destination, the last one arrives. *)
GlidesArrive == G!GlidesArrive

(* Dicts have the pairs that were put into them, in their order, and       *)
(* iterators meet them.                                                    *)
DictsKeepItems == D!DictsKeepItems

(* Deques hold what sequences would, wherever their arrays wrap, grow and  *)
(* shrink, and len() is right.                                             *)
DequesAreSequences == Q!DequesAreSequences

(* Caches have the keys that were used last, in a ring of that order. *)
CacheKeepsRecent == L!CacheKeepsRecent

(* Costumes are what their descriptors mean, a sprite that is shown has    *)
(* the costume it was told to wear, and touching sprites share a pixel.    *)
CostumesAreWorn == W!CostumesAreWorn

=============================================================================
