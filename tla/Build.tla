-------------------------------- MODULE Build --------------------------------
(***************************************************************************)
(* Building a project from its program: import_with_auto_configure() and   *)
(* asset_names_of_project() in src/pytchsupport.js, with the registration  *)
(* of actors and the loading of their assets in                            *)
(* src/lib/pytch/project.js.                                               *)
(*                                                                         *)
(* All are async: at every await, other calls may go on; what a call does  *)
(* between two awaits is one action.  Calls share the global Sk.pytch: the *)
(* live project, the count of loop iterations, and the loaders, which      *)
(* asset_names_of_project() replaces, for as long as it runs, by loaders   *)
(* which note names.  A program which makes a Project of its own,          *)
(* registers its classes and calls go_live(), takes the same steps from    *)
(* Python while it is imported.                                            *)
(***************************************************************************)
EXTENDS Naturals, Sequences, SequencesExt

CONSTANTS NumCalls,       \* bound: calls which the client makes
          Program,        \* the programs which it may build
          Actors,         \* of each program: the class and kind of each actor found
          MaxImportLoops  \* Sk.pytch.max_n_loop_iterations_during_import

ASSUME BuildAssumption ==
  /\ NumCalls \in Nat
  /\ Actors \in [Program -> Seq([class : STRING, kind : {"Sprite", "Stage"}])]
  /\ MaxImportLoops \in Nat

(* Stands for the loaders of the client, and for its do-nothing project;   *)
(* the loaders and the project which a call makes have the call's number.  *)
Client == 0

VARIABLES
  patient,       \* does the client wait for a build before it starts another?
  calls,         \* the calls made so far
  imageLoader,   \* Sk.pytch.async_load_image
  soundManager,  \* Sk.pytch.sound_manager
  live,          \* Sk.pytch.current_live_project
  loops          \* Sk.pytch.n_loop_iterations_during_import

vars == <<patient, calls, imageLoader, soundManager, live, loops>>

Init == /\ patient \in BOOLEAN
        /\ calls = <<>>
        /\ imageLoader = Client
        /\ soundManager = Client
        /\ live = Client
        /\ loops = 0

-----------------------------------------------------------------------------
(* A call: what it awaits; the actors which its project has, each with the *)
(* loaders which its image and its sound come from; the actor being        *)
(* loaded, with its loaders; the loaders saved by asset_names_of_project   *)
(* and the assets noted by its own.                                        *)
NewCall(kind, program) ==
  [kind |-> kind, program |-> program, step |-> "importing",
   actors |-> <<>>, loading |-> 0, image |-> Client, sound |-> Client,
   saved |-> <<imageLoader, soundManager>>, noted |-> {}]

(* A bug: the configuration of the project is not awaited. *)
ReturnsEarly(c) == calls[c].step # "importing"

(* Has the promise been settled which the client awaits? *)
Returned(c) == calls[c].step \in {"ok", "error"}

(* The client makes one call at a time, except that an impatient one may   *)
(* build again while it is building.                                       *)
ClientMayCall(kind) ==
  /\ Len(calls) < NumCalls
  /\ \A c \in DOMAIN calls :
       Returned(c) \/ (~patient /\ kind = "build" /\ calls[c].kind = "build")

(* import_with_auto_configure, as far as the import of the program. *)
ImportWithAutoConfigure(program) ==
  /\ ClientMayCall("build")
  /\ calls' = Append(calls, NewCall("build", program))
  /\ loops' = 0
  /\ UNCHANGED <<patient, imageLoader, soundManager, live>>

(* asset_names_of_project, likewise. *)
AssetNamesOfProject(program) ==
  /\ ClientMayCall("assets")
  /\ calls' = Append(calls, NewCall("assets", program))
  /\ loops' = 0
  /\ imageLoader' = Len(calls) + 1
  /\ soundManager' = Len(calls) + 1
  /\ UNCHANGED <<patient, live>>

(* A bug: the count starts again with every loop. *)
CountEachLoop(c) ==
  /\ calls[c].step = "importing"
  /\ loops < MaxImportLoops
  /\ loops' \in {0, loops + 1}
  /\ UNCHANGED <<patient, calls, imageLoader, soundManager, live>>

(* yield_until_next_frame, at the top level of the module: too many        *)
(* iterations are an exception.                                            *)
TopLevelLoop(c) ==
  /\ calls[c].step = "importing"
  /\ loops < MaxImportLoops
  /\ loops' = loops + 1
  /\ UNCHANGED <<patient, calls, imageLoader, soundManager, live>>

-----------------------------------------------------------------------------
Classes(c) == Actors[calls[c].program]

Waiting(c, step) == calls' = [calls EXCEPT ![c].step = step]

(* Anything raised while c awaits an import or an asset. *)
Fails(c) ==
  /\ calls[c].step \in {"importing", "images", "sounds"}
  /\ Waiting(c, "failing")
  /\ UNCHANGED <<patient, imageLoader, soundManager, live, loops>>

(* The call, with an asset noted if the loader is its own. *)
Asked(some, loader, asset) ==
  IF loader = Client THEN some ELSE [some EXCEPT ![loader].noted = @ \cup {asset}]

(* A bug: nothing stops a class from being registered twice. *)
NeverRegistered(some, c, class) == FALSE

(* Project.ensure_no_existing_registration throws. *)
AlreadyRegistered(some, c, class) == \E a \in Range(some[c].actors) : a.class = class

(* register_sprite_class and register_stage_class, as far as the loading   *)
(* of images, for the class found as number k; when there are no more, the *)
(* end of maybe_auto_configure_project.  some is calls, so far.            *)
RegisterNext(some, c, k) ==
  IF k > Len(Classes(c))
  THEN /\ calls' = [some EXCEPT ![c].step = "configured"]
       /\ live' = c
  ELSE /\ UNCHANGED live
       /\ calls' = IF AlreadyRegistered(some, c, Classes(c)[k].class)
                   THEN [some EXCEPT ![c].step = "failing"]
                   ELSE Asked([some EXCEPT ![c].step = "images", ![c].loading = k,
                                           ![c].image = imageLoader],
                              imageLoader, <<"image", Classes(c)[k].class>>)

(* The import has ended well, and maybe_auto_configure_project begins. *)
Imported(c) ==
  /\ calls[c].step = "importing"
  /\ RegisterNext(calls, c, 1)
  /\ UNCHANGED <<patient, imageLoader, soundManager, loops>>

(* PytchActor.async_init, between async_load_appearances and               *)
(* async_load_sounds, which looks up the sound manager only now.           *)
ImagesLoaded(c) ==
  /\ calls[c].step = "images"
  /\ calls' = Asked([calls EXCEPT ![c].step = "sounds", ![c].sound = soundManager],
                    soundManager, <<"sound", Classes(c)[calls[c].loading].class>>)
  /\ UNCHANGED <<patient, imageLoader, soundManager, live, loops>>

(* A bug: the stage is drawn over the sprites found before it. *)
InOrderFound(actors, actor) == Append(actors, actor)

(* actors.push or actors.unshift *)
WithActor(actors, actor) ==
  IF actor.kind = "Stage" THEN <<actor>> \o actors ELSE Append(actors, actor)

(* The end of register_..._class, and on to the next. *)
SoundsLoaded(c) ==
  /\ calls[c].step = "sounds"
  /\ LET k == calls[c].loading
         actor == [class |-> Classes(c)[k].class, kind |-> Classes(c)[k].kind,
                   image |-> calls[c].image, sound |-> calls[c].sound]
     IN  RegisterNext([calls EXCEPT ![c].actors = WithActor(@, actor)], c, k + 1)
  /\ UNCHANGED <<patient, imageLoader, soundManager, loops>>

(* A bug: the loaders are restored only if nothing went wrong. *)
FinishForgetsLoaders(c) ==
  \/ /\ calls[c].step = "failing"
     /\ Waiting(c, "error")
     /\ UNCHANGED <<patient, imageLoader, soundManager, live, loops>>
  \/ /\ calls[c].step = "configured"
     /\ Waiting(c, "ok")
     /\ IF calls[c].kind = "assets"
        THEN imageLoader' = calls[c].saved[1] /\ soundManager' = calls[c].saved[2]
        ELSE UNCHANGED <<imageLoader, soundManager>>
     /\ UNCHANGED <<patient, live, loops>>

(* The rest of import_with_auto_configure, and the finally clause of       *)
(* asset_names_of_project.                                                 *)
Finish(c) ==
  /\ \/ calls[c].step = "failing"    /\ Waiting(c, "error")
     \/ calls[c].step = "configured" /\ Waiting(c, "ok")
  /\ IF calls[c].kind = "assets"
     THEN imageLoader' = calls[c].saved[1] /\ soundManager' = calls[c].saved[2]
     ELSE UNCHANGED <<imageLoader, soundManager>>
  /\ UNCHANGED <<patient, live, loops>>

CallGoesOn(c) == /\ c \in DOMAIN calls
                 /\ \/ TopLevelLoop(c) \/ Imported(c)
                    \/ ImagesLoaded(c) \/ SoundsLoaded(c)
                    \/ Fails(c) \/ Finish(c)

Next == \/ \E program \in Program :
             ImportWithAutoConfigure(program) \/ AssetNamesOfProject(program)
        \/ \E c \in 1..NumCalls : CallGoesOn(c)

Spec == Init /\ [][Next]_vars

(* JavaScript runs what it can, and every load ends, well or not. *)
FairSpec == Spec /\ \A c \in 1..NumCalls : WF_vars(CallGoesOn(c))

-----------------------------------------------------------------------------
(* What could go wrong.                                                    *)

(* Once no asset_names_of_project() is under way, whether it went well or  *)
(* not, assets are loaded by the client's loaders.                         *)
LoadersRestored ==
  (\A c \in DOMAIN calls : calls[c].kind = "assets" => Returned(c))
    => imageLoader = Client /\ soundManager = Client

(* "an 'image and sound loader' which simply records the names of the      *)
(* requested assets" (src/pytchsupport.js): it records all of them and     *)
(* none of another program; and what is built has real assets.             *)
AssetsOf(program) ==
  {"image", "sound"} \X {Actors[program][k].class : k \in DOMAIN Actors[program]}

NotedAreAllAndOwn ==
  \A c \in DOMAIN calls :
    /\ calls[c].step = "ok" /\ calls[c].kind = "assets" =>
         calls[c].noted = AssetsOf(calls[c].program)
    /\ calls[c].kind = "build" =>
         \A a \in Range(calls[c].actors) : a.image = Client /\ a.sound = Client

(* Listing the assets of programs has no effect but the list. *)
AssetsAreOnlyNoted == LoadersRestored /\ NotedAreAllAndOwn

(* The live project is complete, whatever failed or is under way: it has   *)
(* an actor for each class found, once; with the "Stage [...] first in     *)
(* 'actors' array, so that it renders first", and sprites in the order     *)
(* found.                                                                  *)
IsSprite(a) == a.kind = "Sprite"
IsFor(actor, class) == actor.class = class.class /\ actor.kind = class.kind

LiveProjectIsReady ==
  live # Client =>
    LET actors == calls[live].actors
        found == Classes(live)
    IN  /\ \A k \in DOMAIN found : \E p \in DOMAIN actors : IsFor(actors[p], found[k])
        /\ \A p \in DOMAIN actors : \E k \in DOMAIN found : IsFor(actors[p], found[k])
        /\ \A p, q \in DOMAIN actors : actors[p].class = actors[q].class => p = q
        /\ \A p, q \in DOMAIN actors : p < q /\ IsSprite(actors[p]) => IsSprite(actors[q])
        /\ \A j, k \in DOMAIN found : \A p, q \in DOMAIN actors :
             /\ IsFor(actors[p], found[j]) /\ IsFor(actors[q], found[k])
             /\ IsSprite(found[j]) /\ IsSprite(found[k]) /\ j < k
             => p < q

(* A client which waits for each call never sees an older project take the *)
(* place of a newer one.                                                   *)
OlderNeverReplacesNewer == [][patient => live' >= live]_vars

(* Every call returns, even when the program loops for ever at its top     *)
(* level.                                                                  *)
CallsReturn == \A c \in 1..NumCalls : c \in DOMAIN calls ~> c \in DOMAIN calls /\ Returned(c)

=============================================================================
