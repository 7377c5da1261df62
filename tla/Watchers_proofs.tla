--------------------------- MODULE Watchers_proofs ---------------------------
(***************************************************************************)
(* Proofs about attribute watchers, for any number of actors, instances,   *)
(* attributes and watchers: those of instances that are gone are culled,   *)
(* none exchanges its place with another, and what is proved of instances  *)
(* and draw layers holds with watchers around.                             *)
(***************************************************************************)
EXTENDS Watchers, SequenceTheorems, TLAPS

IP == INSTANCE Instances_proofs WITH CloneDeleted <- FALSE

(* Instances, as Watchers composes it, is the Instances of the proofs with *)
(* no clones of deleted sprites: the definitions which the two             *)
(* instantiations use are the same.                                        *)
LEMMA SameNames ==
  /\ I!Actor = IP!Actor /\ I!Layer = IP!Layer /\ I!InstanceId = IP!InstanceId
  /\ I!Sprite = IP!Sprite /\ I!MoveKind = IP!MoveKind
  BY DEF I!Actor, IP!Actor, I!Layer, IP!Layer, I!InstanceId, IP!InstanceId, I!Sprite, IP!Sprite,
         I!Stage, IP!Stage, I!MoveKind, IP!MoveKind

LEMMA SameInstance ==
  ASSUME NEW i
  PROVE  /\ I!IsInstance(i) <=> IP!IsInstance(i)
         /\ I!IsDrawn(i) <=> IP!IsDrawn(i)
  BY DEF I!IsInstance, IP!IsInstance, I!IsDrawn, IP!IsDrawn, I!Drawn, IP!Drawn, I!LayerOf,
     IP!LayerOf, I!Stage, IP!Stage

LEMMA SameInit == I!Init => IP!Init
  BY DEF I!Init, IP!Init, I!Actor, IP!Actor, I!Layer, IP!Layer, I!Stage, IP!Stage

LEMMA SameUnregister ==
  ASSUME NEW i, I!UnregisterInstance(i) PROVE IP!UnregisterInstance(i)
  BY DEF I!UnregisterInstance, IP!UnregisterInstance, I!IsInstance, IP!IsInstance, I!Original,
     IP!Original, I!Min, IP!Min

LEMMA SameDelete ==
  ASSUME I!DeleteAllClones PROVE IP!DeleteAllClones
  BY DEF I!DeleteAllClones, IP!DeleteAllClones, I!Original, IP!Original, I!Min, IP!Min,
     I!Without, IP!Without, I!Filtered, IP!Filtered, I!InstanceId, IP!InstanceId, I!Actor,
     IP!Actor, I!Layer, IP!Layer, I!Range, IP!Range

LEMMA SameCull ==
  ASSUME I!CullUnregisteredInstances PROVE IP!CullUnregisteredInstances
  BY DEF I!CullUnregisteredInstances, IP!CullUnregisteredInstances, I!IsInstance, IP!IsInstance,
     I!Without, IP!Without, I!Filtered, IP!Filtered, I!InstanceId, IP!InstanceId, I!Actor,
     IP!Actor, I!Layer, IP!Layer, I!Range, IP!Range

LEMMA SameRegister ==
  ASSUME NEW i, I!RegisterPyInstance(i) PROVE IP!RegisterPyInstance(i)
  BY DEF I!RegisterPyInstance, IP!RegisterPyInstance, I!IsDrawn, IP!IsDrawn, I!Drawn, IP!Drawn,
     I!LayerOf, IP!LayerOf, I!Stage, IP!Stage, I!RegisterBehind, IP!RegisterBehind, I!InsertAt,
     IP!InsertAt, I!IndexOf, IP!IndexOf

LEMMA SameMove ==
  ASSUME NEW i, NEW kind, NEW n, I!MoveWithinDrawLayerGroup(i, kind, n)
  PROVE  IP!MoveWithinDrawLayerGroup(i, kind, n)
  BY DEF I!MoveWithinDrawLayerGroup, IP!MoveWithinDrawLayerGroup, I!IsDrawn, IP!IsDrawn,
     I!Drawn, IP!Drawn, I!LayerOf, IP!LayerOf, I!Stage, IP!Stage, I!Move, IP!Move, I!MoveTo,
     IP!MoveTo, I!InsertAt, IP!InsertAt, I!RemoveAt, IP!RemoveAt, I!IndexOf, IP!IndexOf,
     I!Clamped, IP!Clamped, I!WantedIndex, IP!WantedIndex

LEMMA SameSource == I!Source = IP!Source
  BY DEF I!Source, IP!Source, I!InstanceId, IP!InstanceId, I!Sprite, IP!Sprite, I!Actor, IP!Actor,
         I!IsDrawn, IP!IsDrawn, I!Drawn, IP!Drawn, I!LayerOf, IP!LayerOf, I!Stage, IP!Stage

(* So what is proved of one holds of the other.                            *)
LEMMA SameAgreement == IP!DrawnAreInstances => I!DrawnAreInstances
  <1>1. IP!OriginalStays => I!OriginalStays
    BY DEF I!OriginalStays, IP!OriginalStays, I!Original, IP!Original, I!Min, IP!Min, I!Actor,
       IP!Actor
  <1>2. IP!InstancesAreDrawn => I!InstancesAreDrawn
    BY SameInstance, SameNames DEF I!InstancesAreDrawn, IP!InstancesAreDrawn
  <1> QED
    BY <1>1, <1>2, SameInstance, SameNames DEF I!DrawnAreInstances, IP!DrawnAreInstances,
       I!IsInjective, IP!IsInjective, I!LayerOf, IP!LayerOf, I!Stage, IP!Stage

LEMMA SameOrder ==
  ASSUME IP!OrderKept
  PROVE  \A l \in I!Layer :
           I!Swapped(l) # {} =>
             /\ UNCHANGED <<objects, instances>>
             /\ \E moved \in I!InstanceId : \A p \in I!Swapped(l) : moved \in {p[1], p[2]}
  <1>1. \A l : I!Swapped(l) = IP!Swapped(l)
    BY DEF I!Swapped, IP!Swapped, I!InstanceId, IP!InstanceId, I!Behind, IP!Behind, I!Drawn,
       IP!Drawn, I!IndexOf, IP!IndexOf
  <1> QED
    BY <1>1, SameNames DEF IP!OrderKept

(* Whatever Watchers does to instances is a step of Instances.             *)
LEMMA InstancesStep == [Next]_vars => [IP!Next]_(IP!instanceVars)
  <1> SUFFICES ASSUME Next PROVE IP!Next \/ UNCHANGED instanceVars
    BY DEF vars, instanceVars, IP!instanceVars
  <1>1. CASE \E o \in Held, a \in Attribute :
               LET w == [object |-> o, attribute |-> a]
               IN  ShowObjectAttribute(w) \/ HideObjectAttribute(w)
    BY <1>1 DEF ShowObjectAttribute, HideObjectAttribute
  <1>2. CASE \E parent \in I!Source : RegisterInstance(parent)
    BY <1>2, SameSource, SameRegister DEF RegisterInstance, IP!Next
  <1>3. CASE \E i \in I!InstanceId : UnregisterInstance(i)
    BY <1>3, SameNames, SameUnregister DEF UnregisterInstance, IP!Next
  <1>4. CASE \E i \in I!InstanceId, kind \in I!MoveKind, n \in Offset : MoveLayer(i, kind, n)
    BY <1>4, SameNames, SameMove DEF MoveLayer, IP!Next
  <1>5. CASE StartFrame \/ RenderingFails
    BY <1>5 DEF StartFrame, RenderingFails
  <1>6. CASE EndFrame \/ EndFrameAfterException
    BY <1>6, SameCull DEF EndFrame, EndFrameAfterException, IP!Next
  <1>7. CASE Stop
    BY <1>7, SameDelete DEF Stop, StopEverything, IP!Next
  <1> QED
    BY <1>1, <1>2, <1>3, <1>4, <1>5, <1>6, <1>7 DEF Next

(* Hence the facts proved of Instances hold here too.                      *)
LEMMA InitInstances == Init => IP!InstInv /\ IP!InstancesAreDrawn
  BY SameInit, IP!InitKeepsInv, WatchersAssumption DEF Init, IP!InstancesAssumption

LEMMA InstancesKept ==
  IP!InstInv /\ IP!InstancesAreDrawn /\ [Next]_vars
    => IP!InstInv' /\ IP!InstancesAreDrawn' /\ IP!OrderKept
  BY InstancesStep, IP!NextKeepsInv, IP!NextKeepsDrawn, IP!NextKeepsOrder

(* While attributes are shown, hidden and culled, what is drawn and what   *)
(* the actors have agree, and the originals stay.                          *)
THEOREM LayersAgree == Spec => []DrawnAreInstances
  BY InitInstances, InstancesKept, IP!DrawnAreAsTheyShould, SameAgreement, PTL
  DEF Spec, DrawnAreInstances

(* While attributes are shown, hidden and culled, only moves change the    *)
(* order of the instances drawn.                                           *)
THEOREM OrderStays == Spec => OrderIsStable
  <1>1. IP!InstInv /\ IP!InstancesAreDrawn /\ [Next]_vars =>
     [\A l \in I!Layer :
           I!Swapped(l) # {} =>
             /\ UNCHANGED <<objects, instances>>
             /\ \E moved \in I!InstanceId : \A p \in I!Swapped(l) : moved \in {p[1], p[2]}]_I!instanceVars
    BY InstancesKept, SameOrder
  <1> QED
    BY <1>1, InitInstances, InstancesKept, PTL DEF Spec, OrderIsStable, I!OrderIsStable

-----------------------------------------------------------------------------
(* Watchers.                                                               *)

WatchersInv ==
  /\ watchers \in Seq([object : Nat, attribute : Attribute])
  /\ IsInjective(watchers)
  /\ inFrame \in BOOLEAN

(* What is watched in a frame is an instance or marked, and between frames *)
(* it is an instance.                                                      *)
Watched(o) ==
  o = Elsewhere \/ (/\ o \in I!InstanceId
                    /\ I!IsInstance(o) \/ (inFrame /\ ~objects[o].registered))

(* What show_object_attribute and the others do to the watchers. *)
Entry == [object : Nat, attribute : Attribute]

(* Showing adds at most one watcher, after all others.                     *)
LEMMA ShowChanges ==
  ASSUME WatchersInv, NEW w \in Entry, ShowObjectAttribute(w)
  PROVE  /\ WatchersInv'
         /\ \A v \in Range(watchers') : v = w \/ v \in Range(watchers)
         /\ \A i, j : IP!Earlier(watchers, i, j) => ~IP!Earlier(watchers', j, i)
  <1>1. /\ watchers \in Seq(Entry) /\ IsInjective(watchers)
        /\ inFrame' = inFrame /\ inFrame \in BOOLEAN
    BY DEF WatchersInv, Entry, ShowObjectAttribute
  <1>2. CASE IsShown(w)
    <2>1. watchers' = watchers
      BY <1>2 DEF ShowObjectAttribute
    <2>2. \A i, j : IP!Earlier(watchers, i, j) => ~IP!Earlier(watchers, j, i)
      BY <1>1, IP!EarlierOneWay DEF IP!IsInjective, IsInjective
    <2> QED
      BY <1>1, <2>1, <2>2 DEF WatchersInv
  <1>3. CASE ~IsShown(w)
    <2>1. PICK u : u = watchers' /\ u = Append(watchers, w)
      BY <1>3 DEF ShowObjectAttribute
    <2>2. /\ u \in Seq(Entry) /\ Len(u) = Len(watchers) + 1 /\ Len(watchers) \in Nat
          /\ \A k \in 1..Len(watchers) : u[k] = watchers[k]
          /\ u[Len(watchers) + 1] = w
          /\ DOMAIN u = 1..(Len(watchers) + 1) /\ DOMAIN watchers = 1..Len(watchers)
      BY <1>1, <2>1, AppendProperties, LenProperties
    <2>3. \A k \in DOMAIN watchers : watchers[k] # w
      BY <1>3 DEF IsShown
    <2>4. \A k \in DOMAIN u : k \in DOMAIN watchers \/ k = Len(watchers) + 1
      BY <2>2
    <2>5. IsInjective(u)
      <3> SUFFICES ASSUME NEW a \in DOMAIN u, NEW b \in DOMAIN u, u[a] = u[b] PROVE a = b
        BY DEF IsInjective
      <3>1. a = Len(watchers) + 1 <=> b = Len(watchers) + 1
        BY <2>2, <2>3, <2>4
      <3> QED
        BY <1>1, <2>2, <2>4, <3>1 DEF IsInjective
    <2>6. \A v \in Range(u) : v = w \/ v \in Range(watchers)
      BY <2>2, <2>4 DEF Range
    <2>7. ASSUME NEW i, NEW j, IP!Earlier(watchers, i, j), IP!Earlier(u, j, i) PROVE FALSE
      <3>1. PICK a, b \in DOMAIN watchers : a < b /\ watchers[a] = i /\ watchers[b] = j
        BY <2>7 DEF IP!Earlier
      <3>2. PICK c, d \in DOMAIN u : c < d /\ u[c] = j /\ u[d] = i
        BY <2>7 DEF IP!Earlier
      <3>3. u[a] = i /\ u[b] = j /\ a \in DOMAIN u /\ b \in DOMAIN u
        BY <2>2, <3>1
      <3>4. c = b /\ d = a
        BY <2>5, <3>2, <3>3 DEF IsInjective
      <3> QED
        BY <2>2, <3>1, <3>2, <3>4
    <2> QED
      BY <1>1, <2>1, <2>2, <2>5, <2>6, <2>7 DEF WatchersInv, Entry
  <1> QED
    BY <1>2, <1>3

(* Hiding takes one away, and leaves the others in order.                  *)
LEMMA HideChanges ==
  ASSUME WatchersInv, NEW w, HideObjectAttribute(w)
  PROVE  /\ WatchersInv'
         /\ \A v \in Range(watchers') : v \in Range(watchers)
         /\ \A i, j : IP!Earlier(watchers', i, j) => IP!Earlier(watchers, i, j)
  <1>1. /\ watchers \in Seq(Entry) /\ IsInjective(watchers)
        /\ inFrame' = inFrame /\ inFrame \in BOOLEAN
    BY DEF WatchersInv, Entry, HideObjectAttribute
  <1>2. Len(watchers) \in Nat /\ DOMAIN watchers = 1..Len(watchers)
    BY <1>1, LenProperties
  <1>3. CASE watchers' = watchers
    BY <1>1, <1>3 DEF WatchersInv
  <1>4. CASE watchers' # watchers
    <2>1. PICK F : F = {i \in 1..Len(watchers) : watchers[i] = w}
      OBVIOUS
    <2>2. F # {} /\ F \subseteq 1..Len(watchers)
      BY <1>4, <2>1 DEF HideObjectAttribute, RemoveFirst
    <2>3. PICK k : k = SelectInSeq(watchers, LAMBDA v : v = w)
      OBVIOUS
    <2>4. k = Min(F)
      BY <2>1, <2>2, <2>3 DEF SelectInSeq
    <2>5. \E x \in F : \A y \in F : x <= y
      BY <1>2, <2>2, IP!LeastFailure
    <2>6. k \in 1..Len(watchers)
      BY <2>2, <2>4, <2>5 DEF Min
    <2>7. PICK u : u = watchers' /\ u = RemoveAt(watchers, k)
      BY <1>4, <2>3 DEF HideObjectAttribute, RemoveFirst
    <2>8. u = IP!RemoveAt(watchers, k)
      BY <2>7 DEF RemoveAt, IP!RemoveAt
    <2>9. /\ u \in Seq(Entry)
          /\ \A j \in DOMAIN u : u[j] # watchers[k] /\ IP!Drawn(watchers, u[j])
          /\ IP!IsInjective(u)
          /\ \A i, j : IP!Earlier(u, i, j) => IP!Earlier(watchers, i, j)
      BY <1>1, <2>6, <2>8, IP!RemoveFacts DEF IP!IsInjective, IsInjective
    <2>10. \A v \in Range(u) : v \in Range(watchers)
      BY <2>9 DEF IP!Drawn, Range
    <2> QED
      BY <1>1, <2>7, <2>9, <2>10 DEF WatchersInv, Entry, IP!IsInjective, IsInjective
  <1> QED
    BY <1>3, <1>4

(* Culling takes away those of instances that are gone, and leaves the     *)
(* others in order.                                                        *)
LEMMA CullChanges ==
  ASSUME WatchersInv, CullWatchersOfDeletedClones
  PROVE  /\ watchers' \in Seq(Entry) /\ IsInjective(watchers')
         /\ \A v \in Range(watchers') : v \in Range(watchers) /\ ObjectIsLive(v)
         /\ \A i, j : IP!Earlier(watchers', i, j) => IP!Earlier(watchers, i, j)
  <1>1. watchers \in Seq(Entry) /\ IsInjective(watchers)
    BY DEF WatchersInv, Entry
  <1>2. PICK u, S : /\ u = watchers' /\ S = {w \in Range(watchers) : ObjectIsLive(w)}
                    /\ u = Filtered(watchers, S)
    BY DEF CullWatchersOfDeletedClones
  <1>3. u = IP!Filtered(watchers, S)
    BY <1>2 DEF Filtered, IP!Filtered
  <1>4. /\ u \in Seq(Entry)
        /\ \A k \in DOMAIN u : u[k] \in S /\ u[k] \in IP!Range(watchers)
        /\ IP!IsInjective(watchers) => IP!IsInjective(u)
        /\ \A i, j : IP!Earlier(u, i, j) => IP!Earlier(watchers, i, j)
    BY <1>1, <1>3, IP!FilteredKeeps
  <1>5. \A v \in Range(u) : v \in S
    BY <1>4 DEF Range
  <1> QED
    BY <1>1, <1>2, <1>4, <1>5 DEF IP!IsInjective, IsInjective

WatchInv == /\ IP!InstInv /\ WatchersInv
            /\ \A v \in Range(watchers) : Watched(v.object)

(* Unless clones are deleted and their watchers kept, every watcher of an  *)
(* instance goes when the instance goes.                                   *)
LEMMA NextKeepsWatched == ~KeepsClones /\ WatchInv /\ [Next]_vars => WatchInv'
  <1> SUFFICES ASSUME ~KeepsClones, WatchInv, [Next]_vars PROVE WatchInv'
    OBVIOUS
  <1> USE DEF WatchInv
  <1>1. IP!InstInv'
    BY InstancesStep, IP!NextKeepsInv
  <1>2. I!InstanceId \subseteq Nat
    BY SameNames, IP!ObjectFacts
  <1>3. CASE \E o \in Held, a \in Attribute :
               LET w == [object |-> o, attribute |-> a]
               IN  ShowObjectAttribute(w) \/ HideObjectAttribute(w)
    <2>1. PICK o, a, w :
            /\ o \in Held /\ a \in Attribute
            /\ w = [object |-> o, attribute |-> a]
            /\ ShowObjectAttribute(w) \/ HideObjectAttribute(w)
      BY <1>3
    <2>2. w \in Entry /\ w.object = o
      BY <1>2, <2>1 DEF Held, Elsewhere, Entry
    <2>3. inFrame /\ UNCHANGED <<objects, instances, inFrame>>
      BY <2>1 DEF ShowObjectAttribute, HideObjectAttribute, instanceVars
    <2>4. Watched(o)
      BY <2>1, <2>3 DEF Held, Watched
    <2>5. WatchersInv' /\ \A v \in Range(watchers') : v = w \/ v \in Range(watchers)
      BY <2>1, <2>2, ShowChanges, HideChanges
    <2>6. \A v \in Range(watchers') : Watched(v.object)
      BY <2>2, <2>4, <2>5
    <2> QED
      BY <1>1, <2>3, <2>5, <2>6 DEF Watched, I!InstanceId, I!IsInstance
  <1>4. CASE \E parent \in I!Source : RegisterInstance(parent)
    <2>1. PICK parent \in IP!InstanceId :
                 IP!RegisterPyInstance(parent) /\ UNCHANGED <<watchers, inFrame>>
      BY <1>4, SameSource, SameRegister DEF RegisterInstance, IP!Source
    <2>2. \A i \in IP!InstanceId : /\ i \in IP!InstanceId' /\ objects'[i] = objects[i]
                                   /\ IP!IsInstance(i) => IP!IsInstance(i)'
      BY <2>1, IP!RegisterKeepsInv
    <2>3. \A o : Watched(o) => Watched(o)'
      BY <2>1, <2>2, SameNames, SameInstance DEF Watched, I!InstanceId, IP!InstanceId,
         I!IsInstance, IP!IsInstance
    <2> QED
      BY <1>1, <2>1, <2>3 DEF WatchersInv
  <1>5. CASE \E i \in I!InstanceId : UnregisterInstance(i)
    <2>1. PICK i \in IP!InstanceId :
                 IP!UnregisterInstance(i) /\ UNCHANGED <<watchers, inFrame>>
      BY <1>5, SameNames, SameUnregister DEF UnregisterInstance
    <2>2. /\ IP!InstanceId' = IP!InstanceId
          /\ \A j \in IP!InstanceId : objects'[j].actor = objects[j].actor
          /\ \A j \in IP!InstanceId : objects[j].registered # objects'[j].registered => j = i
          /\ ~objects[i].registered => ~objects'[i].registered
          /\ UNCHANGED <<instances, drawn>>
      BY <2>1, IP!UnregisterKeepsInv
    <2>3. \A j \in IP!InstanceId : ~objects[j].registered => ~objects'[j].registered
      BY <2>2, <1>1, IP!ObjectFacts
    <2>4. \A o : Watched(o) => Watched(o)'
      BY <2>1, <2>2, <2>3, SameNames DEF Watched, I!InstanceId, IP!InstanceId, I!IsInstance
    <2> QED
      BY <1>1, <2>1, <2>4 DEF WatchersInv
  <1>6. CASE \E i \in I!InstanceId, kind \in I!MoveKind, n \in Offset : MoveLayer(i, kind, n)
    <2>1. UNCHANGED <<objects, instances, watchers, inFrame>>
      BY <1>6 DEF MoveLayer, I!MoveWithinDrawLayerGroup
    <2> QED
      BY <1>1, <2>1 DEF Watched, I!InstanceId, I!IsInstance, WatchersInv
  <1>7. CASE StartFrame
    <2>1. UNCHANGED <<objects, instances, watchers>> /\ ~inFrame /\ inFrame'
      BY <1>7 DEF StartFrame, instanceVars
    <2> QED
      BY <1>1, <2>1 DEF Watched, I!InstanceId, I!IsInstance, WatchersInv
  <1>8. CASE EndFrame
    <2>1. /\ CullWatchersOfDeletedClones /\ ~inFrame' /\ inFrame' \in BOOLEAN
          /\ IP!CullUnregisteredInstances
      BY <1>8, SameCull DEF EndFrame
    <2>2. /\ watchers' \in Seq(Entry) /\ IsInjective(watchers')
          /\ \A v \in Range(watchers') : v \in Range(watchers) /\ ObjectIsLive(v)
      BY <2>1, CullChanges
    <2>3. ASSUME NEW o \in I!InstanceId, I!IsInstance(o), objects[o].registered
          PROVE  o \in I!InstanceId' /\ I!IsInstance(o)'
      <3>1. objects[o].actor \in IP!Actor
        BY <2>3, SameNames, IP!ObjectFacts
      <3> QED
        BY <2>1, <2>3, <3>1 DEF IP!CullUnregisteredInstances, I!InstanceId, I!IsInstance
    <2>4. ASSUME NEW v \in Range(watchers') PROVE Watched(v.object)'
      <3>1. Watched(v.object) /\ ObjectIsLive(v)
        BY <2>2
      <3>2. \/ v.object = Elsewhere
            \/ /\ v.object \in I!InstanceId /\ I!IsInstance(v.object)
               /\ objects[v.object].registered
        BY <3>1 DEF Watched, ObjectIsLive
      <3> QED
        BY <2>3, <3>2 DEF Watched
    <2> QED
      BY <1>1, <2>1, <2>2, <2>4 DEF WatchersInv, Entry
  <1>9. CASE EndFrameAfterException \/ Stop \/ RenderingFails
    <2>1. watchers' = <<>> /\ inFrame' \in BOOLEAN
      BY <1>9 DEF EndFrameAfterException, Stop, StopEverything, RenderingFails, DiscardWatchers,
         WatchersInv
    <2> QED
      BY <1>1, <2>1 DEF WatchersInv, Range, IsInjective
  <1>10. CASE UNCHANGED vars
    BY <1>1, <1>10 DEF vars, Watched, I!InstanceId, I!IsInstance, WatchersInv
  <1> QED
    BY <1>3, <1>4, <1>5, <1>6, <1>7, <1>8, <1>9, <1>10 DEF Next

LEMMA InitWatches == Init => WatchInv
  <1>1. IsInjective(<<>>) /\ Range(<<>>) = {}
    BY DEF IsInjective, Range
  <1>2. Init => inFrame \in BOOLEAN
    BY DEF Init
  <1>3. Init => /\ watchers \in Seq([object : Nat, attribute : Attribute])
                /\ IsInjective(watchers) /\ Range(watchers) = {}
    BY <1>1 DEF Init
  <1>4. Init => WatchersInv /\ Range(watchers) = {}
    BY <1>2, <1>3 DEF WatchersInv
  <1> QED
    BY <1>4, InitInstances DEF WatchInv

(* Between frames each watcher is of an instance that exists, when red     *)
(* stop and green flag cull the watchers of the clones they delete: the    *)
(* cull at the end of a frame misses none.                                 *)
THEOREM WatchersGoWithInstances ==
  ASSUME ~KeepsClones
  PROVE  Spec => []WatchedAreInstances
  <1>1. WatchInv => WatchedAreInstances
    <2> SUFFICES ASSUME WatchInv, ~inFrame, NEW k \in DOMAIN watchers,
                        watchers[k].object # Elsewhere
                 PROVE  I!IsInstance(watchers[k].object)
      BY DEF WatchedAreInstances
    <2>1. Watched(watchers[k].object)
      BY DEF WatchInv, Range
    <2> QED
      BY <2>1 DEF Watched
  <1> QED
    BY <1>1, InitWatches, NextKeepsWatched, PTL DEF Spec

(* No step exchanges two watchers.                                         *)
LEMMA WatchersStep ==
  ASSUME IP!InstInv, WatchersInv, [Next]_vars
  PROVE  /\ WatchersInv'
         /\ \A v, w : IP!Earlier(watchers, v, w) => ~IP!Earlier(watchers', w, v)
  <1>1. watchers \in Seq(Entry) /\ IsInjective(watchers)
    BY DEF WatchersInv, Entry
  <1>2. \A v, w : IP!Earlier(watchers, v, w) => ~IP!Earlier(watchers, w, v)
    BY <1>1, IP!EarlierOneWay DEF IP!IsInjective, IsInjective
  <1>3. I!InstanceId \subseteq Nat
    BY SameNames, IP!ObjectFacts
  <1>4. CASE \E o \in Held, a \in Attribute :
               LET w == [object |-> o, attribute |-> a]
               IN  ShowObjectAttribute(w) \/ HideObjectAttribute(w)
    <2>1. PICK o, a, w :
            /\ o \in Held /\ a \in Attribute
            /\ w = [object |-> o, attribute |-> a]
            /\ ShowObjectAttribute(w) \/ HideObjectAttribute(w)
      BY <1>4
    <2>2. w \in Entry
      BY <1>3, <2>1 DEF Held, Elsewhere, Entry
    <2> QED
      BY <1>2, <2>1, <2>2, ShowChanges, HideChanges
  <1>5. CASE CullWatchersOfDeletedClones /\ inFrame' = FALSE
    BY <1>2, <1>5, CullChanges DEF WatchersInv, Entry
  <1>6. CASE watchers' = <<>> /\ inFrame' \in BOOLEAN
    BY <1>6 DEF WatchersInv, IsInjective, IP!Earlier
  <1>7. CASE watchers' = watchers /\ inFrame' \in BOOLEAN
    BY <1>2, <1>7 DEF WatchersInv
  <1> QED
    BY <1>4, <1>5, <1>6, <1>7 DEF Next, RegisterInstance, UnregisterInstance, MoveLayer,
       StartFrame, EndFrame, EndFrameAfterException, Stop, StopEverything, RenderingFails,
       DiscardWatchers, WatchersInv, vars

(* The list of watchers which the client is given never exchanges two of   *)
(* them: an attribute shown twice keeps its place, and hiding or culling   *)
(* moves none before another.                                              *)
THEOREM WatchersStayInOrder == Spec => WatchersKeepPlaces
  <1>1. Init => WatchersInv
    BY InitWatches DEF WatchInv
  <1>2. IP!InstInv /\ WatchersInv /\ [Next]_vars
          => \A v, w \in Watcher : Precedes(watchers, v, w) => ~Precedes(watchers', w, v)
    BY WatchersStep DEF Precedes, IP!Earlier
  <1>3. IP!InstInv /\ [Next]_vars => IP!InstInv'
    BY InstancesStep, IP!NextKeepsInv
  <1>4. IP!InstInv /\ WatchersInv /\ [Next]_vars => WatchersInv'
    BY WatchersStep
  <1> QED
    BY <1>1, <1>2, <1>3, <1>4, InitInstances, PTL DEF Spec, WatchersKeepPlaces

=============================================================================
