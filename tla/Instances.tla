----------------------------- MODULE Instances -----------------------------
(***************************************************************************)
(* The actors of a project, their instances, and the draw layers: PytchActor, *)
(* PytchActorInstance and DrawLayerGroup in src/lib/pytch/project.js.      *)
(*                                                                         *)
(* objects holds every PytchActorInstance ever constructed; the n-th has   *)
(* number n here (in the code numeric_id, from a counter).  An actor's     *)
(* instances array is always in order of construction, so it is a set, and *)
(* its instances[0] the least element.  A Python program may keep a        *)
(* reference to an object whose instance has been deleted.                 *)
(***************************************************************************)
EXTENDS DrawOrder, FiniteSetsExt

CONSTANTS NumActors,     \* actor 1 is the stage, the others are sprites
          MaxInstances,  \* bound: instances constructed, at least NumActors
          Offset,        \* bound: integers passed to move
          CloneDeleted   \* does the program clone sprites it has deleted?

VARIABLES objects,    \* PytchActorInstances constructed, in order
          instances,  \* PytchActor.instances, of each actor
          drawn       \* DrawLayerGroup.instances, of each layer

instanceVars == <<objects, instances, drawn>>

Actor == 1..NumActors
Stage == 1
Sprite == Actor \ {Stage}

Layer == {"stage", "sprites"}
LayerOf(a) == IF a = Stage THEN "stage" ELSE "sprites"

ActorInstance == [actor : Actor, registered : BOOLEAN]
InstanceId == 1..Len(objects)

(* instances[0] *)
Original(a) == Min(instances[a])

IsInstance(i) == i \in instances[objects[i].actor]

IsDrawn(i) == Drawn(drawn[LayerOf(objects[i].actor)], i)

(* Each actor class has been registered, which makes its first instance. *)
Init == /\ objects = [a \in Actor |-> [actor |-> a, registered |-> TRUE]]
        /\ instances = [a \in Actor |-> {a}]
        /\ drawn = [l \in Layer |-> IF l = "stage" THEN <<Stage>>
                                    ELSE [k \in 1..(NumActors - 1) |-> k + 1]]

-----------------------------------------------------------------------------

(* Objects which a program can pass to create_clone_of. *)
Source == {i \in InstanceId : /\ objects[i].actor \in Sprite
                              /\ IsDrawn(i) \/ CloneDeleted}

(* PytchActor.register_py_instance, for a clone of parent: the instance    *)
(* joins its actor before it joins the draw layer, and when the parent is  *)
(* not drawn the second part throws after the first is done.               *)
RegisterPyInstance(parent) ==
  LET a   == objects[parent].actor
      new == Len(objects) + 1
  IN  /\ Len(objects) < MaxInstances
      /\ objects' = Append(objects, [actor |-> a, registered |-> TRUE])
      /\ instances' = [instances EXCEPT ![a] = @ \cup {new}]
      /\ drawn' = IF IsDrawn(parent)
                  THEN [drawn EXCEPT ![LayerOf(a)] = RegisterBehind(@, new, parent)]
                  ELSE drawn

(* A bug: an original deletes itself too. *)
UnregisterAny(i) ==
  /\ IsInstance(i)
  /\ objects' = [objects EXCEPT ![i].registered = FALSE]
  /\ UNCHANGED <<instances, drawn>>

(* PytchActor.unregister_instance: a clone is only marked. *)
UnregisterInstance(i) ==
  /\ IsInstance(i)
  /\ objects' = IF i = Original(objects[i].actor) THEN objects
                ELSE [objects EXCEPT ![i].registered = FALSE]
  /\ UNCHANGED <<instances, drawn>>

(* A bug: culled instances stay in the draw layer. *)
CullButKeepDrawing ==
  /\ instances' = [a \in Actor |-> {i \in instances[a] : objects[i].registered}]
  /\ UNCHANGED <<objects, drawn>>

(* PytchActor.cull_unregistered_instances, of every actor. *)
CullUnregisteredInstances ==
  LET marked == {i \in InstanceId : IsInstance(i) /\ ~objects[i].registered}
  IN  /\ instances' = [a \in Actor |-> instances[a] \ marked]
      /\ drawn' = [l \in Layer |-> Without(drawn[l], marked)]
      /\ UNCHANGED objects

(* A bug: all but the instance to keep are taken from the layer, also      *)
(* those of other actors.                                                  *)
DeleteAllButOne ==
  /\ instances' = [a \in Actor |-> {Original(a)}]
  /\ drawn' = [l \in Layer |-> Without(drawn[l], InstanceId \ {Original(NumActors)})]
  /\ UNCHANGED objects

(* PytchActor.delete_all_clones, of every actor.  The clones are dropped   *)
(* without being marked as unregistered.                                   *)
DeleteAllClones ==
  /\ instances' = [a \in Actor |-> {Original(a)}]
  /\ drawn' = [l \in Layer |->
                 Without(drawn[l], {i \in InstanceId : i # Original(objects[i].actor)})]
  /\ UNCHANGED objects

(* Project.move_within_draw_layer_group, of an instance which is drawn. *)
MoveWithinDrawLayerGroup(i, kind, n) ==
  /\ IsDrawn(i)
  /\ drawn' = [drawn EXCEPT ![LayerOf(objects[i].actor)] = Move(@, i, kind, n)]
  /\ UNCHANGED <<objects, instances>>

Next ==
  \/ \E parent \in Source : RegisterPyInstance(parent)
  \/ \E i \in InstanceId : UnregisterInstance(i)
  \/ CullUnregisteredInstances
  \/ DeleteAllClones
  \/ \E i \in InstanceId, kind \in MoveKind, n \in Offset :
       objects[i].actor \in Sprite /\ MoveWithinDrawLayerGroup(i, kind, n)

Spec == Init /\ [][Next]_instanceVars

-----------------------------------------------------------------------------
(* What could go wrong.                                                    *)

(* Types, of the fields of the three classes. *)
TypeOK == /\ objects \in Seq(ActorInstance)
          /\ instances \in [Actor -> SUBSET InstanceId]
          /\ DOMAIN drawn = Layer
          /\ \A l \in Layer : \A k \in DOMAIN drawn[l] : drawn[l][k] \in InstanceId

(* The instance an actor started with is never lost, whatever is deleted   *)
(* and culled, and stays first: on_red_stop_clicked clears the speech of   *)
(* instances[0], and the_original() and class-level properties read it.    *)
OriginalStays ==
  \A a \in Actor : /\ a \in instances[a]
                   /\ Original(a) = a
                   /\ objects[a].registered

(* Every instance is drawn, where it can be seen and clicked: the meaning  *)
(* of "registered" in doc/source/developer/actor-registration.rst.         *)
InstancesAreDrawn == \A a \in Actor : \A i \in instances[a] : IsDrawn(i)

(* What is drawn and what the actors have agree: nothing is missing, drawn *)
(* twice, in the wrong layer, or drawn after it was culled; and the        *)
(* originals are there.                                                    *)
DrawnAreInstances ==
  /\ OriginalStays
  /\ InstancesAreDrawn
  /\ \A l \in Layer :
       /\ IsInjective(drawn[l])
       /\ \A k \in DOMAIN drawn[l] : /\ LayerOf(objects[drawn[l][k]].actor) = l
                                     /\ IsInstance(drawn[l][k])

(* Front and back are exchanged only by a move, and only with respect to   *)
(* the instance moved: clones, deletions and culls leave the order of the  *)
(* others alone.                                                           *)
Swapped(l) == {p \in InstanceId \X InstanceId :
                 Behind(drawn[l], p[1], p[2]) /\ Behind(drawn'[l], p[2], p[1])}

OrderIsStable ==
  [][\A l \in Layer :
       Swapped(l) # {} =>
         /\ UNCHANGED <<objects, instances>>
         /\ \E moved \in InstanceId : \A p \in Swapped(l) : moved \in {p[1], p[2]}
    ]_instanceVars

=============================================================================
