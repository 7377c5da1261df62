------------------------------ MODULE Watchers ------------------------------
(***************************************************************************)
(* Attribute watchers: the boxes on the stage which show the value of an   *)
(* attribute of some object (ObjectAttributeWatcher and the watcher        *)
(* methods of Project in src/lib/pytch/project.js), together with the      *)
(* instances whose attributes they may show.  A frame is the steps of any  *)
(* threads between StartFrame and one of the EndFrame actions.  Labels and *)
(* positions are left out: showing what is already shown replaces them.    *)
(***************************************************************************)
EXTENDS Integers, Sequences, SequencesExt, Arrays

CONSTANTS NumActors, MaxInstances, Offset,  \* see Instances
          Attribute,                \* names of attributes
          MaxWatchers,              \* bound: watchers shown at one time
          KeepsClones  \* does the program keep clones in Python variables,
                       \* and show their attributes after a stop?

ASSUME WatchersAssumption ==
  /\ NumActors \in Nat \ {0}
  /\ MaxInstances \in Nat /\ NumActors <= MaxInstances
  /\ Offset \subseteq Int
  /\ MaxWatchers \in Nat
  /\ KeepsClones \in BOOLEAN

VARIABLES objects, instances, drawn,  \* see Instances
          watchers,                   \* Project.object_attribute_watchers
          inFrame                     \* is one_frame running?

instanceVars == <<objects, instances, drawn>>
vars == <<objects, instances, drawn, watchers, inFrame>>

I == INSTANCE Instances WITH CloneDeleted <- FALSE

(* The main module, or an object which is no actor's instance. *)
Elsewhere == 0

(* Objects which the program can pass to show_variable and hide_variable.  *)
Held == {Elsewhere} \cup
        {i \in I!InstanceId : I!IsInstance(i) \/ ~objects[i].registered \/ KeepsClones}

Watcher == [object : {Elsewhere} \cup I!InstanceId, attribute : Attribute]

Init == /\ I!Init
        /\ watchers = <<>>
        /\ inFrame = FALSE

-----------------------------------------------------------------------------

(* ObjectAttributeWatcher.object_is_live *)
ObjectIsLive(w) == w.object = Elsewhere \/ objects[w.object].registered

(* Project.maybe_watcher_index finds one. *)
IsShown(w) == \E k \in DOMAIN watchers : watchers[k] = w

(* A bug: a watcher shown again moves to the end. *)
ShowLast(w) ==
  /\ inFrame
  /\ watchers' = Append(SelectSeq(watchers, LAMBDA v : v # w), w)
  /\ UNCHANGED <<instanceVars, inFrame>>

(* Project.show_object_attribute *)
ShowObjectAttribute(w) ==
  /\ inFrame
  /\ IsShown(w) \/ Len(watchers) < MaxWatchers
  /\ watchers' = IF IsShown(w) THEN watchers ELSE Append(watchers, w)
  /\ UNCHANGED <<instanceVars, inFrame>>

(* Project.hide_object_attribute *)
HideObjectAttribute(w) ==
  /\ inFrame
  /\ watchers' = RemoveFirst(watchers, w)
  /\ UNCHANGED <<instanceVars, inFrame>>

(* Threads clone, delete and move layers; see Instances. *)
RegisterInstance(parent) ==
  /\ inFrame
  /\ I!RegisterPyInstance(parent)
  /\ UNCHANGED <<watchers, inFrame>>

UnregisterInstance(i) ==
  /\ inFrame
  /\ I!UnregisterInstance(i)
  /\ UNCHANGED <<watchers, inFrame>>

MoveLayer(i, kind, n) ==
  /\ inFrame
  /\ objects[i].actor \in I!Sprite
  /\ I!MoveWithinDrawLayerGroup(i, kind, n)
  /\ UNCHANGED <<watchers, inFrame>>

-----------------------------------------------------------------------------
(* Project.cull_watchers_of_deleted_clones *)
CullWatchersOfDeletedClones ==
  watchers' = Filtered(watchers, {w \in Range(watchers) : ObjectIsLive(w)})

StartFrame == /\ ~inFrame
              /\ inFrame' = TRUE
              /\ UNCHANGED <<instanceVars, watchers>>

(* The end of Project.one_frame, when nothing stops the threads. *)
EndFrame == /\ inFrame
            /\ inFrame' = FALSE
            /\ CullWatchersOfDeletedClones
            /\ I!CullUnregisteredInstances

(* Project.kill_all_threads_and_extras, as far as watchers go. *)
DiscardWatchers == watchers' = <<>>

(* One of the threads raised an exception. *)
EndFrameAfterException == /\ inFrame
                          /\ inFrame' = FALSE
                          /\ DiscardWatchers
                          /\ I!CullUnregisteredInstances

(* A bug: watchers are left for the next frame to cull. *)
StopKeepingWatchers == I!DeleteAllClones /\ UNCHANGED watchers

(* Project.on_red_stop_clicked *)
StopEverything == I!DeleteAllClones /\ DiscardWatchers

(* stop_all() in a frame; the red stop or the green flag between frames. *)
Stop == StopEverything /\ inFrame' = FALSE

(* Project.rendering_instructions: an attribute cannot be shown. *)
RenderingFails == /\ ~inFrame
                  /\ DiscardWatchers
                  /\ UNCHANGED <<instanceVars, inFrame>>

Next ==
  \/ \E o \in Held, a \in Attribute :
       LET w == [object |-> o, attribute |-> a]
       IN  ShowObjectAttribute(w) \/ HideObjectAttribute(w)
  \/ \E parent \in I!Source : RegisterInstance(parent)
  \/ \E i \in I!InstanceId : UnregisterInstance(i)
  \/ \E i \in I!InstanceId, kind \in I!MoveKind, n \in Offset : MoveLayer(i, kind, n)
  \/ StartFrame \/ EndFrame \/ EndFrameAfterException
  \/ Stop \/ RenderingFails

Spec == Init /\ [][Next]_vars

-----------------------------------------------------------------------------
(* What could go wrong.                                                    *)

(* "When a clone is deleted, any variable watchers showing variables       *)
(* belonging to that clone are removed"                                    *)
(* (doc/source/user/pytch-module-functions.rst), however it was deleted:   *)
(* what is drawn between frames belongs to instances the project has.      *)
WatchedAreInstances ==
  ~inFrame => \A k \in DOMAIN watchers :
                watchers[k].object # Elsewhere => I!IsInstance(watchers[k].object)

(* The instances whose attributes are shown stay as they were specified    *)
(* alone: each is drawn, once and in its layer, and nothing but a move     *)
(* changes the order.                                                      *)
DrawnAreInstances == I!DrawnAreInstances
OrderIsStable     == I!OrderIsStable

(* Watchers keep their places, and none is there twice: neither showing    *)
(* one again, as the tests have it, nor removing others makes two of them  *)
(* change places, or leaves one before itself.                             *)
Precedes(s, v, w) == \E j, k \in DOMAIN s : j < k /\ s[j] = v /\ s[k] = w

WatchersKeepPlaces ==
  [][\A v, w \in Watcher : Precedes(watchers, v, w) => ~Precedes(watchers', w, v)]_vars

=============================================================================
