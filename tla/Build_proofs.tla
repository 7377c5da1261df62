---------------------------- MODULE Build_proofs ----------------------------
(***************************************************************************)
(* Proofs about building: that the loaders are always those of the call    *)
(* which may use them, that listing the assets of a program does nothing   *)
(* else, that no older project replaces a newer one, and that the live     *)
(* project is complete, for any programs, any number of calls and any of   *)
(* them failing anywhere.                                                  *)
(***************************************************************************)
EXTENDS Build, SequenceTheorems, TLAPS

AssetKind == {"image", "sound"}
Step == {"importing", "images", "sounds", "failing", "configured", "ok", "error"}
Actor(loaders) == [class : STRING, kind : {"Sprite", "Stage"},
                   image : loaders, sound : loaders]

CallRecord == [kind : {"build", "assets"}, program : Program, step : Step,
               actors : Seq(Actor(Nat)), loading : Nat, image : Nat, sound : Nat,
               saved : Nat \X Nat, noted : SUBSET (AssetKind \X STRING)]

(* The assets of the first i actors' images and the first s actors' sounds. *)
FirstClasses(program, n) == {Actors[program][k].class : k \in 1..n}
AssetsUpTo(program, i, s) == ({"image"} \X FirstClasses(program, i)) \cup
                             ({"sound"} \X FirstClasses(program, s))

(* What a call knows by itself: how far it is with the actors, ...         *)
Progress(r) ==
  r.step \in {"images", "sounds"} => r.loading \in 1..Len(Actors[r.program])

(* ... with the assets, if it lists them, ...                              *)
Listing(r) ==
  r.kind = "assets" =>
    /\ r.saved = <<Client, Client>>
    /\ r.step = "importing" => r.noted = {}
    /\ r.step = "images" => r.noted = AssetsUpTo(r.program, r.loading, r.loading - 1)
    /\ r.step = "sounds" => r.noted = AssetsUpTo(r.program, r.loading, r.loading)
    /\ r.step \in {"configured", "ok"} => r.noted = AssetsOf(r.program)

(* ... and, if it builds, with the client's assets.                        *)
Building(r) ==
  r.kind = "build" =>
    /\ r.actors \in Seq(Actor({Client}))
    /\ r.step \in {"images", "sounds"} => r.image = Client
    /\ r.step = "sounds" => r.sound = Client

CallInv(r) == r \in CallRecord /\ Progress(r) /\ Listing(r) /\ Building(r)

(* While a call is under way, the loaders are those that it should use.    *)
(* This leaves no room for any other call while assets are listed.         *)
Own(c) == IF calls[c].kind = "assets" THEN c ELSE Client
LoadersAreOwn ==
  \A c \in 1..Len(calls) : ~Returned(c) => imageLoader = Own(c) /\ soundManager = Own(c)

(* A client that waits has at most its last call under way. *)
OnlyLastUnderWay == patient => \A c \in 1..Len(calls) : Returned(c) \/ c = Len(calls)

BuildInv ==
  /\ calls \in Seq(CallRecord)
  /\ imageLoader \in Nat /\ soundManager \in Nat
  /\ live \in 0..Len(calls)
  /\ \A c \in 1..Len(calls) : CallInv(calls[c])
  /\ LoadersAreOwn
  /\ LoadersRestored
  /\ OnlyLastUnderWay

LEMMA InitInv == Init => BuildInv
  BY DEF Init, BuildInv, LoadersAreOwn, LoadersRestored, OnlyLastUnderWay, Client

-----------------------------------------------------------------------------
(* The client makes a call. *)

LEMMA NewCallInv ==
  ASSUME BuildInv, NEW kind \in {"build", "assets"}, NEW program \in Program,
         imageLoader = Client, soundManager = Client
  PROVE  CallInv(NewCall(kind, program)) /\ NewCall(kind, program).step = "importing"
         /\ NewCall(kind, program).kind = kind
  <1>1. NewCall(kind, program) \in CallRecord
    BY DEF NewCall, CallRecord, Step, Client, AssetKind
  <1> QED
    BY <1>1 DEF NewCall, CallInv, Progress, Listing, Building

(* Who may call finds the client's own loaders. *)
LEMMA CallersFindLoaders ==
  ASSUME BuildInv, NEW kind \in {"build", "assets"}, ClientMayCall(kind)
  PROVE  /\ imageLoader = Client /\ soundManager = Client
         /\ kind = "assets" \/ patient => \A c \in 1..Len(calls) : Returned(c)
  <1>1. \A c \in DOMAIN calls : calls[c].kind = "assets" => Returned(c)
    BY DEF ClientMayCall
  <1> QED
    BY <1>1 DEF ClientMayCall, BuildInv, LoadersRestored

LEMMA CallMadeInv ==
  ASSUME BuildInv, NEW kind \in {"build", "assets"}, NEW program \in Program,
         ClientMayCall(kind),
         calls' = Append(calls, NewCall(kind, program)),
         imageLoader' = IF kind = "assets" THEN Len(calls) + 1 ELSE imageLoader,
         soundManager' = IF kind = "assets" THEN Len(calls) + 1 ELSE soundManager,
         UNCHANGED <<patient, live>>
  PROVE  BuildInv'
  <1> DEFINE new == NewCall(kind, program)
  <1>1. imageLoader = Client /\ soundManager = Client
    BY CallersFindLoaders
  <1>2. CallInv(new) /\ new.step = "importing" /\ new.kind = kind
    BY <1>1, NewCallInv
  <1> HIDE DEF new
  <1>3. /\ calls \in Seq(CallRecord) /\ Len(calls) \in Nat /\ new \in CallRecord
        /\ calls' = Append(calls, new)
    BY <1>2 DEF BuildInv, CallInv, new
  <1>4. /\ calls' \in Seq(CallRecord) /\ Len(calls') = Len(calls) + 1
        /\ \A c \in 1..Len(calls) : calls'[c] = calls[c]
        /\ calls'[Len(calls) + 1] = new
        /\ DOMAIN calls = 1..Len(calls) /\ DOMAIN calls' = 1..(Len(calls) + 1)
    BY <1>3
  <1>5. \A c \in 1..Len(calls) : Returned(c)' <=> Returned(c)
    BY <1>4 DEF Returned
  <1>6. calls'[Len(calls) + 1].step \notin {"ok", "error"}
    BY <1>2, <1>3, <1>4
  <1>7. \A c \in 1..Len(calls') : CallInv(calls'[c])
    BY <1>2, <1>3, <1>4 DEF BuildInv
  <1>8. LoadersAreOwn' /\ LoadersRestored'
    <2>1. CASE kind = "assets"
      <3>1. \A c \in 1..Len(calls) : Returned(c)
        BY <2>1, CallersFindLoaders
      <3> QED
        BY <2>1, <3>1, <1>2, <1>3, <1>4, <1>5, <1>6
        DEF LoadersAreOwn, LoadersRestored, Own, Returned
    <2>2. CASE kind = "build"
      BY <2>2, <1>1, <1>2, <1>3, <1>4, <1>5
      DEF LoadersAreOwn, LoadersRestored, Own, BuildInv
    <2> QED
      BY <2>1, <2>2
  <1>9. OnlyLastUnderWay'
    BY <1>3, <1>4, <1>5, CallersFindLoaders DEF OnlyLastUnderWay
  <1>10. imageLoader' \in Nat /\ soundManager' \in Nat /\ live' \in 0..Len(calls')
    BY <1>3, <1>4 DEF BuildInv
  <1> QED
    BY <1>4, <1>7, <1>8, <1>9, <1>10 DEF BuildInv

-----------------------------------------------------------------------------
(* A call goes on. *)

(* The sequence of calls with one of them changed. *)
LEMMA OneCallChanged ==
  ASSUME BuildInv, NEW c \in 1..Len(calls), NEW r \in CallRecord,
         calls' = [calls EXCEPT ![c] = r]
  PROVE  /\ calls' \in Seq(CallRecord) /\ Len(calls') = Len(calls)
         /\ Len(calls) \in Nat
         /\ DOMAIN calls = 1..Len(calls) /\ DOMAIN calls' = 1..Len(calls)
         /\ calls'[c] = r
         /\ \A d \in 1..Len(calls) : d # c => calls'[d] = calls[d]
  <1>1. calls \in Seq(CallRecord) /\ Len(calls) \in Nat
    BY DEF BuildInv
  <1> QED
    BY <1>1, ExceptSeq

LEMMA GoesOnInv ==
  ASSUME BuildInv, NEW c \in 1..Len(calls), ~Returned(c),
         NEW r, CallInv(r), r.kind = calls[c].kind, r.step \notin {"ok", "error"},
         calls' = [calls EXCEPT ![c] = r],
         UNCHANGED <<patient, imageLoader, soundManager>>,
         live' = live \/ live' = c
  PROVE  BuildInv'
  <1>1. r \in CallRecord
    BY DEF CallInv
  <1>2. /\ calls' \in Seq(CallRecord) /\ Len(calls') = Len(calls) /\ Len(calls) \in Nat
        /\ DOMAIN calls = 1..Len(calls) /\ DOMAIN calls' = 1..Len(calls)
        /\ calls'[c] = r
        /\ \A d \in 1..Len(calls) : d # c => calls'[d] = calls[d]
    BY <1>1, OneCallChanged
  <1>3. \A d \in 1..Len(calls) : /\ Returned(d)' <=> Returned(d)
                                 /\ calls'[d].kind = calls[d].kind
    BY <1>2 DEF Returned
  <1>4. \A d \in 1..Len(calls') : CallInv(calls'[d])
    BY <1>2 DEF BuildInv
  <1>5. LoadersAreOwn'
    BY <1>2, <1>3 DEF BuildInv, LoadersAreOwn, Own
  <1>6. LoadersRestored'
    BY <1>2, <1>3 DEF BuildInv, LoadersRestored
  <1>7. OnlyLastUnderWay'
    BY <1>2, <1>3 DEF BuildInv, OnlyLastUnderWay
  <1> QED
    BY <1>2, <1>4, <1>5, <1>6, <1>7 DEF BuildInv

(* The loaders that a call finds. *)
LEMMA LoadersFound ==
  ASSUME BuildInv, NEW c \in 1..Len(calls), ~Returned(c)
  PROVE  imageLoader = Own(c) /\ soundManager = Own(c)
  BY DEF BuildInv, LoadersAreOwn

LEMMA RecordOf ==
  ASSUME BuildInv, NEW c \in 1..Len(calls)
  PROVE  /\ CallInv(calls[c]) /\ calls[c] \in CallRecord
         /\ Len(calls) \in Nat /\ DOMAIN calls = 1..Len(calls)
         /\ Classes(c) \in Seq([class : STRING, kind : {"Sprite", "Stage"}])
         /\ Len(Classes(c)) \in Nat
  <1>1. CallInv(calls[c]) /\ calls[c] \in CallRecord /\ calls \in Seq(CallRecord)
    BY DEF BuildInv, CallInv
  <1>2. calls[c].program \in Program
    BY <1>1 DEF CallRecord
  <1> QED
    BY <1>1, <1>2, BuildAssumption DEF Classes

(* A call that fails has nothing to show. *)
LEMMA FailingInv ==
  ASSUME NEW r \in CallRecord, CallInv(r), NEW s \in {"failing", "error"}
  PROVE  CallInv([r EXCEPT !.step = s])
  <1> DEFINE n == [r EXCEPT !.step = s]
  <1>1. /\ n \in CallRecord /\ n.step = s /\ n.kind = r.kind /\ n.saved = r.saved
        /\ n.actors = r.actors
    BY DEF CallRecord, Step
  <1> HIDE DEF n
  <1> QED
    BY <1>1 DEF CallInv, Progress, Listing, Building, n

(* What is noted, when an image or a sound is asked for. *)
LEMMA FirstClassesGrow ==
  ASSUME NEW p \in Program, NEW k \in 1..Len(Actors[p])
  PROVE  /\ FirstClasses(p, k) = FirstClasses(p, k - 1) \cup {Actors[p][k].class}
         /\ Actors[p][k].class \in STRING
  <1>1. /\ Actors[p] \in Seq([class : STRING, kind : {"Sprite", "Stage"}])
        /\ k \in Nat /\ 1..k = 1..(k - 1) \cup {k} /\ Len(Actors[p]) \in Nat
    BY BuildAssumption
  <1>2. Actors[p][k].class \in STRING
    <2> DEFINE Found == [class : STRING, kind : {"Sprite", "Stage"}]
    <2>1. Actors[p][k] \in Found
      <3>1. Actors[p] \in Seq(Found)
        BY <1>1
      <3> HIDE DEF Found
      <3> QED
        BY <3>1, ElementOfSeq
    <2> QED
      BY <2>1
  <1> QED
    BY <1>1, <1>2 DEF FirstClasses

LEMMA AssetsGrow ==
  ASSUME NEW p \in Program
  PROVE  /\ AssetsUpTo(p, 0, 0) = {}
         /\ AssetsUpTo(p, Len(Actors[p]), Len(Actors[p])) = AssetsOf(p)
         /\ \A k \in 1..Len(Actors[p]) :
              /\ AssetsUpTo(p, k - 1, k - 1) \cup {<<"image", Actors[p][k].class>>}
                   = AssetsUpTo(p, k, k - 1)
              /\ AssetsUpTo(p, k, k - 1) \cup {<<"sound", Actors[p][k].class>>}
                   = AssetsUpTo(p, k, k)
              /\ Actors[p][k].class \in STRING
  <1>1. Actors[p] \in Seq([class : STRING, kind : {"Sprite", "Stage"}])
    BY BuildAssumption
  <1>2. AssetsUpTo(p, 0, 0) = {}
    <2>1. 1..0 = {}
      OBVIOUS
    <2>2. FirstClasses(p, 0) = {}
      BY <2>1 DEF FirstClasses
    <2> QED
      BY <2>2 DEF AssetsUpTo
  <1>3. AssetsUpTo(p, Len(Actors[p]), Len(Actors[p])) = AssetsOf(p)
    BY <1>1 DEF AssetsUpTo, AssetsOf, FirstClasses
  <1>4. ASSUME NEW k \in 1..Len(Actors[p])
        PROVE  /\ AssetsUpTo(p, k - 1, k - 1) \cup {<<"image", Actors[p][k].class>>}
                    = AssetsUpTo(p, k, k - 1)
               /\ AssetsUpTo(p, k, k - 1) \cup {<<"sound", Actors[p][k].class>>}
                    = AssetsUpTo(p, k, k)
    BY FirstClassesGrow DEF AssetsUpTo
  <1> QED
    BY <1>2, <1>3, <1>4, FirstClassesGrow

-----------------------------------------------------------------------------
(* Registering the next actor, with what has been noted for those before.  *)

LoadingImages(r, k) == [r EXCEPT !.step = "images", !.loading = k, !.image = imageLoader]
Noting(q, asset) ==
  [q EXCEPT !.noted = IF q.kind = "assets" THEN @ \cup {asset} ELSE @]

LEMMA NextImageInv ==
  ASSUME BuildInv, NEW c \in 1..Len(calls), ~Returned(c),
         NEW r, CallInv(r), r.kind = calls[c].kind, r.program = calls[c].program,
         NEW k \in 1..Len(Classes(c)),
         r.kind = "assets" => r.noted = AssetsUpTo(r.program, k - 1, k - 1),
         NEW q, q = LoadingImages(r, k),
         NEW n, n = Noting(q, <<"image", Classes(c)[k].class>>)
  PROVE  CallInv(n) /\ n.kind = calls[c].kind /\ n.step = "images"
  <1>1. /\ r \in CallRecord /\ r.program \in Program /\ Classes(c) = Actors[r.program]
        /\ k \in Nat
    BY RecordOf DEF CallInv, CallRecord, Classes
  <1>2. imageLoader = IF r.kind = "assets" THEN c ELSE Client
    BY LoadersFound DEF Own
  <1>3. imageLoader \in Nat
    BY DEF BuildInv
  <1>4. Classes(c)[k].class \in STRING
    BY <1>1, AssetsGrow
  <1>5. /\ n \in CallRecord
        /\ n.step = "images" /\ n.loading = k /\ n.image = imageLoader
        /\ n.kind = r.kind /\ n.program = r.program /\ n.saved = r.saved
        /\ n.actors = r.actors
        /\ n.noted = IF r.kind = "assets" THEN r.noted \cup {<<"image", Classes(c)[k].class>>}
                                          ELSE r.noted
    <2> DEFINE noted == IF r.kind = "assets"
                        THEN r.noted \cup {<<"image", Classes(c)[k].class>>} ELSE r.noted
    <2>1. /\ q \in CallRecord /\ q.kind = r.kind /\ q.noted = r.noted
          /\ q.step = "images" /\ q.loading = k /\ q.image = imageLoader
          /\ q.program = r.program /\ q.saved = r.saved /\ q.actors = r.actors
      BY <1>1, <1>3 DEF CallRecord, Step, LoadingImages
    <2>2. n = [q EXCEPT !.noted = noted]
      BY <2>1 DEF Noting
    <2>3. noted \in SUBSET (AssetKind \X STRING)
      BY <1>1, <1>4 DEF CallRecord, AssetKind
    <2> HIDE DEF noted
    <2>4. n \in CallRecord
      BY <2>1, <2>2, <2>3 DEF CallRecord
    <2>5. /\ n.step = q.step /\ n.loading = q.loading /\ n.image = q.image
          /\ n.kind = q.kind /\ n.program = q.program /\ n.saved = q.saved
          /\ n.actors = q.actors /\ n.noted = noted
      BY <2>1, <2>2 DEF CallRecord
    <2> QED
      BY <2>1, <2>4, <2>5 DEF noted
  <1>6. Progress(n)
    BY <1>1, <1>5 DEF Progress
  <1>7. Listing(n)
    <2>1. CASE r.kind = "assets"
      <3>1. /\ r.noted = AssetsUpTo(r.program, k - 1, k - 1)
            /\ r.saved = <<Client, Client>>
        BY <2>1 DEF CallInv, Listing
      <3>2. n.noted = AssetsUpTo(r.program, k, k - 1)
        BY <1>1, <1>5, <2>1, <3>1, AssetsGrow
      <3> QED
        BY <1>5, <3>1, <3>2 DEF Listing
    <2> QED
      BY <1>5, <2>1 DEF Listing
  <1>8. Building(n)
    BY <1>2, <1>5 DEF CallInv, Building
  <1> QED
    BY <1>5, <1>6, <1>7, <1>8 DEF CallInv

LEMMA ConfiguredInv ==
  ASSUME BuildInv, NEW c \in 1..Len(calls),
         NEW r, CallInv(r), r.program = calls[c].program,
         r.kind = "assets" => r.noted = AssetsOf(r.program),
         NEW n, n = [r EXCEPT !.step = "configured"]
  PROVE  CallInv(n) /\ n.kind = r.kind /\ n.step = "configured"
  <1>1. /\ n \in CallRecord /\ n.step = "configured" /\ n.kind = r.kind
        /\ n.program = r.program /\ n.saved = r.saved
        /\ n.actors = r.actors /\ n.noted = r.noted
    BY DEF CallInv, CallRecord, Step
  <1> QED
    BY <1>1 DEF CallInv, Progress, Listing, Building

(* An asset is noted by the call that asks for it, if it lists them. *)
With(c, r) == [calls EXCEPT ![c] = r]

LEMMA AskedOwn ==
  ASSUME calls \in Seq(CallRecord), NEW c \in 1..Len(calls), NEW q \in CallRecord,
         NEW asset, NEW loader,
         IF q.kind = "assets" THEN loader = c ELSE loader = Client
  PROVE  Asked(With(c, q), loader, asset) = With(c, Noting(q, asset))
  <1> DEFINE s == With(c, q)
             n == Noting(q, asset)
  <1>1. CASE q.kind = "assets"
    <2>1. c \in DOMAIN calls /\ c \in Nat \ {0} /\ loader = c
      BY <1>1
    <2>2. s[c] = q
      BY <2>1 DEF With
    <2>3. Asked(s, loader, asset) = [s EXCEPT ![c].noted = @ \cup {asset}]
      BY <2>1 DEF Asked, Client
    <2>4. Asked(s, loader, asset) = [s EXCEPT ![c] = n]
      BY <1>1, <2>2, <2>3 DEF Noting
    <2>5. [s EXCEPT ![c] = n] = With(c, n)
      <3> HIDE DEF n
      <3> QED
        BY <2>1 DEF With
    <2> QED
      BY <2>4, <2>5
  <1>2. CASE q.kind # "assets"
    <2>1. n = q
      BY <1>2 DEF Noting, CallRecord
    <2> QED
      BY <1>2, <2>1 DEF Asked
  <1> QED
    BY <1>1, <1>2

LEMMA RegisterNextInv ==
  ASSUME BuildInv, NEW c \in 1..Len(calls), ~Returned(c),
         NEW r, CallInv(r), r.kind = calls[c].kind, r.program = calls[c].program,
         NEW k \in 1..(Len(Classes(c)) + 1),
         r.kind = "assets" => r.noted = AssetsUpTo(r.program, k - 1, k - 1),
         NEW some, some = [calls EXCEPT ![c] = r],
         RegisterNext(some, c, k),
         UNCHANGED <<patient, imageLoader, soundManager>>
  PROVE  BuildInv' /\ (live' = live \/ live' = c)
  <1>1. /\ calls \in Seq(CallRecord) /\ DOMAIN calls = 1..Len(calls) /\ Len(calls) \in Nat
        /\ r \in CallRecord /\ r.program \in Program /\ Classes(c) = Actors[r.program]
        /\ k \in Nat /\ Len(Classes(c)) \in Nat
    <2>1. calls \in Seq(CallRecord) /\ DOMAIN calls = 1..Len(calls) /\ Len(calls) \in Nat
          /\ r \in CallRecord /\ Classes(c) = Actors[r.program]
          /\ Len(Classes(c)) \in Nat
      BY RecordOf DEF BuildInv, CallInv, Classes
    <2>2. r.program \in Program
      BY <2>1 DEF CallRecord
    <2> QED
      BY <2>1, <2>2
  <1>2. CASE k > Len(Classes(c))
    <2> DEFINE n == [r EXCEPT !.step = "configured"]
    <2>1. k - 1 = Len(Actors[r.program])
      BY <1>1, <1>2
    <2>2. r.kind = "assets" => r.noted = AssetsOf(r.program)
      BY <1>1, <2>1, AssetsGrow
    <2>3. CallInv(n) /\ n.kind = r.kind /\ n.step = "configured"
      BY <2>2, ConfiguredInv
    <2>4. calls' = [calls EXCEPT ![c] = n] /\ live' = c
      BY <1>1, <1>2 DEF RegisterNext
    <2> HIDE DEF n
    <2> QED
      BY <2>3, <2>4, GoesOnInv
  <1>3. CASE ~(k > Len(Classes(c))) /\ AlreadyRegistered(some, c, Classes(c)[k].class)
    <2> DEFINE n == [r EXCEPT !.step = "failing"]
    <2>1. CallInv(n) /\ n.kind = r.kind /\ n.step = "failing"
      BY <1>1, FailingInv DEF CallRecord
    <2>2. calls' = [calls EXCEPT ![c] = n] /\ live' = live
      BY <1>1, <1>3 DEF RegisterNext
    <2> HIDE DEF n
    <2> QED
      BY <2>1, <2>2, GoesOnInv
  <1>4. CASE ~(k > Len(Classes(c))) /\ ~AlreadyRegistered(some, c, Classes(c)[k].class)
    <2> DEFINE asset == <<"image", Classes(c)[k].class>>
               q == LoadingImages(r, k)
               n == Noting(q, asset)
    <2>1. k \in 1..Len(Classes(c))
      BY <1>1, <1>4
    <2>2. CallInv(n) /\ n.kind = calls[c].kind /\ n.step = "images"
      BY <2>1, NextImageInv
    <2>3. imageLoader = IF r.kind = "assets" THEN c ELSE Client
      BY LoadersFound DEF Own
    <2>4. q \in CallRecord /\ q.kind = r.kind
      BY <1>1 DEF CallRecord, Step, BuildInv, LoadingImages
    <2> DEFINE s == [some EXCEPT ![c].step = "images", ![c].loading = k,
                                 ![c].image = imageLoader]
    <2>5. calls' = Asked(s, imageLoader, asset) /\ live' = live
      BY <1>4 DEF RegisterNext
    <2>6. s = With(c, q)
      BY <1>1 DEF LoadingImages, With
    <2> HIDE DEF s
    <2>7. IF q.kind = "assets" THEN imageLoader = c ELSE imageLoader = Client
      BY <2>3, <2>4
    <2> HIDE DEF q, asset
    <2>8. calls' = With(c, n)
      BY <1>1, <2>4, <2>5, <2>6, <2>7, AskedOwn
    <2> HIDE DEF n
    <2>9. calls' = [calls EXCEPT ![c] = n]
      BY <2>8 DEF With
    <2> QED
      BY <2>2, <2>5, <2>9, GoesOnInv
  <1> QED
    BY <1>2, <1>3, <1>4

-----------------------------------------------------------------------------
(* The actions of a call. *)

LEMMA ImportedInv ==
  ASSUME BuildInv, NEW c \in 1..Len(calls), Imported(c)
  PROVE  BuildInv' /\ ~Returned(c) /\ (live' = live \/ live' = c)
  <1>1. /\ calls[c].step = "importing" /\ ~Returned(c)
        /\ RegisterNext(calls, c, 1)
        /\ UNCHANGED <<patient, imageLoader, soundManager>>
    BY DEF Imported, Returned
  <1>2. /\ CallInv(calls[c]) /\ calls[c] \in CallRecord /\ calls \in Seq(CallRecord)
        /\ 1 \in 1..(Len(Classes(c)) + 1)
    BY RecordOf DEF BuildInv
  <1>3. calls = [calls EXCEPT ![c] = calls[c]]
    BY <1>2
  <1>4. calls[c].kind = "assets" =>
          calls[c].noted = AssetsUpTo(calls[c].program, 1 - 1, 1 - 1)
    <2>1. calls[c].program \in Program
      BY <1>2 DEF CallRecord
    <2>2. AssetsUpTo(calls[c].program, 0, 0) = {}
      BY <2>1, AssetsGrow
    <2>3. calls[c].kind = "assets" => calls[c].noted = {}
      BY <1>1, <1>2 DEF CallInv, Listing
    <2>4. 1 - 1 = 0
      OBVIOUS
    <2> QED
      BY <2>2, <2>3, <2>4
  <1> QED
    BY <1>1, <1>2, <1>3, <1>4, RegisterNextInv

LEMMA ImagesLoadedInv ==
  ASSUME BuildInv, NEW c \in 1..Len(calls), ImagesLoaded(c)
  PROVE  BuildInv' /\ live' = live
  <1> DEFINE r == calls[c]
             q == [r EXCEPT !.step = "sounds", !.sound = soundManager]
             asset == <<"sound", Classes(c)[r.loading].class>>
             noted == IF q.kind = "assets" THEN q.noted \cup {asset} ELSE q.noted
             n == Noting(q, asset)
             s == [calls EXCEPT ![c].step = "sounds", ![c].sound = soundManager]
  <1>1. /\ r.step = "images" /\ ~Returned(c)
        /\ calls' = Asked(s, soundManager, asset)
        /\ UNCHANGED <<patient, imageLoader, soundManager, live>>
    BY DEF ImagesLoaded, Returned
  <1>2. /\ CallInv(r) /\ r \in CallRecord /\ calls \in Seq(CallRecord)
        /\ Classes(c) = Actors[r.program] /\ soundManager \in Nat
    BY RecordOf DEF BuildInv, Classes
  <1>3. r.program \in Program /\ r.loading \in 1..Len(Actors[r.program])
    BY <1>1, <1>2 DEF CallRecord, CallInv, Progress
  <1>4. IF r.kind = "assets" THEN soundManager = c ELSE soundManager = Client
    BY <1>1, LoadersFound DEF Own
  <1>5. /\ q \in CallRecord /\ q.kind = r.kind /\ q.step = "sounds"
        /\ q.sound = soundManager /\ q.image = r.image /\ q.loading = r.loading
        /\ q.program = r.program /\ q.saved = r.saved /\ q.actors = r.actors
        /\ q.noted = r.noted
    <2> HIDE DEF r
    <2> QED
      BY <1>2 DEF CallRecord, Step
  <1>6. s = With(c, q)
    BY <1>2 DEF With
  <1> HIDE DEF s, r
  <1>7. asset \in AssetKind \X STRING
    BY <1>2, <1>3, AssetsGrow DEF AssetKind
  <1> HIDE DEF q
  <1>8. noted \in SUBSET (AssetKind \X STRING)
    BY <1>5, <1>7 DEF CallRecord
  <1>9. n = [q EXCEPT !.noted = noted]
    BY DEF Noting
  <1>10. calls' = With(c, n)
    <2> HIDE DEF asset, noted
    <2> QED
      BY <1>1, <1>2, <1>4, <1>5, <1>6, AskedOwn
  <1> HIDE DEF n, noted
  <1>11. /\ n \in CallRecord /\ n.kind = r.kind /\ n.step = "sounds"
         /\ n.sound = soundManager /\ n.image = r.image /\ n.loading = r.loading
         /\ n.program = r.program /\ n.saved = r.saved /\ n.actors = r.actors
         /\ n.noted = noted
    BY <1>5, <1>8, <1>9 DEF CallRecord
  <1>12. Progress(n)
    BY <1>3, <1>11 DEF Progress
  <1>13. Listing(n)
    <2>1. CASE r.kind = "assets"
      <3>1. /\ r.noted = AssetsUpTo(r.program, r.loading, r.loading - 1)
            /\ r.saved = <<Client, Client>>
        BY <1>1, <1>2, <2>1 DEF CallInv, Listing
      <3>2. n.noted = AssetsUpTo(r.program, r.loading, r.loading)
        BY <1>2, <1>3, <1>5, <1>11, <2>1, <3>1, AssetsGrow DEF noted
      <3> QED
        BY <1>11, <3>1, <3>2 DEF Listing
    <2> QED
      BY <1>11, <2>1 DEF Listing
  <1>14. Building(n)
    BY <1>1, <1>2, <1>4, <1>11 DEF CallInv, Building
  <1>15. calls' = [calls EXCEPT ![c] = n] /\ r.kind = calls[c].kind
    BY <1>10 DEF With, r
  <1> QED
    BY <1>1, <1>11, <1>12, <1>13, <1>14, <1>15, GoesOnInv DEF CallInv

LEMMA WithActorIsSeq ==
  ASSUME NEW loaders, NEW actors \in Seq(Actor(loaders)), NEW actor \in Actor(loaders)
  PROVE  WithActor(actors, actor) \in Seq(Actor(loaders))
  BY DEF WithActor

LEMMA SoundsLoadedInv ==
  ASSUME BuildInv, NEW c \in 1..Len(calls), SoundsLoaded(c)
  PROVE  BuildInv' /\ ~Returned(c) /\ (live' = live \/ live' = c)
  <1> DEFINE r == calls[c]
             k == r.loading
             actor == [class |-> Classes(c)[k].class, kind |-> Classes(c)[k].kind,
                       image |-> r.image, sound |-> r.sound]
             actors == WithActor(r.actors, actor)
             n == [r EXCEPT !.actors = actors]
             some == [calls EXCEPT ![c].actors = WithActor(@, actor)]
  <1>1. /\ r.step = "sounds" /\ ~Returned(c)
        /\ RegisterNext(some, c, k + 1)
        /\ UNCHANGED <<patient, imageLoader, soundManager>>
    BY DEF SoundsLoaded, Returned
  <1>2. /\ CallInv(r) /\ r \in CallRecord /\ calls \in Seq(CallRecord)
        /\ Classes(c) = Actors[r.program]
        /\ Classes(c) \in Seq([class : STRING, kind : {"Sprite", "Stage"}])
    BY RecordOf DEF BuildInv, Classes
  <1>3. /\ k \in 1..Len(Classes(c)) /\ r.program = calls[c].program
        /\ r.kind = calls[c].kind
    BY <1>1, <1>2 DEF CallInv, Progress
  <1>4. some = [calls EXCEPT ![c] = n]
    BY <1>2
  <1>5. Classes(c)[k] \in [class : STRING, kind : {"Sprite", "Stage"}]
    BY <1>2, <1>3, ElementOfSeq
  <1>6. actor \in Actor(Nat) /\ (r.kind = "build" => actor \in Actor({Client}))
    <2>1. r.image \in Nat /\ r.sound \in Nat
      BY <1>2 DEF CallRecord
    <2>2. r.kind = "build" => r.image = Client /\ r.sound = Client
      BY <1>1, <1>2 DEF CallInv, Building
    <2> HIDE DEF r, k
    <2> QED
      BY <1>5, <2>1, <2>2 DEF Actor
  <1> HIDE DEF some, r, k, actor
  <1>7. actors \in Seq(Actor(Nat)) /\ (r.kind = "build" => actors \in Seq(Actor({Client})))
    <2>1. r.actors \in Seq(Actor(Nat))
      BY <1>2 DEF CallRecord
    <2>2. r.kind = "build" => r.actors \in Seq(Actor({Client}))
      BY <1>2 DEF CallInv, Building
    <2> QED
      BY <1>6, <2>1, <2>2, WithActorIsSeq
  <1> HIDE DEF actors
  <1>8. /\ n \in CallRecord /\ n.kind = r.kind /\ n.step = r.step
        /\ n.sound = r.sound /\ n.image = r.image /\ n.loading = r.loading
        /\ n.program = r.program /\ n.saved = r.saved /\ n.actors = actors
        /\ n.noted = r.noted
    BY <1>2, <1>7 DEF CallRecord
  <1> HIDE DEF n
  <1>9. CallInv(n)
    <2>1. Progress(n)
      BY <1>2, <1>8 DEF CallInv, Progress
    <2>2. Listing(n)
      BY <1>2, <1>8 DEF CallInv, Listing
    <2>3. Building(n)
      BY <1>2, <1>7, <1>8 DEF CallInv, Building
    <2> QED
      BY <1>8, <2>1, <2>2, <2>3 DEF CallInv
  <1>10. k + 1 \in 1..(Len(Classes(c)) + 1) /\ (k + 1) - 1 = k
    BY <1>2, <1>3
  <1>11. n.kind = "assets" => n.noted = AssetsUpTo(n.program, (k + 1) - 1, (k + 1) - 1)
    <2>1. r.kind = "assets" => r.noted = AssetsUpTo(r.program, k, k)
      BY <1>1, <1>2 DEF CallInv, Listing, k
    <2> QED
      BY <1>8, <1>10, <2>1
  <1> QED
    BY <1>1, <1>3, <1>4, <1>8, <1>9, <1>10, <1>11, RegisterNextInv

LEMMA FailsInv ==
  ASSUME BuildInv, NEW c \in 1..Len(calls), Fails(c)
  PROVE  BuildInv' /\ live' = live
  <1> DEFINE n == [calls[c] EXCEPT !.step = "failing"]
  <1>1. ~Returned(c) /\ UNCHANGED <<patient, imageLoader, soundManager, live>>
    BY DEF Fails, Returned
  <1>2. CallInv(calls[c]) /\ calls[c] \in CallRecord
    BY RecordOf
  <1>3. CallInv(n) /\ n.kind = calls[c].kind /\ n.step = "failing"
    BY <1>2, FailingInv DEF CallRecord
  <1>4. calls' = [calls EXCEPT ![c] = n]
    BY DEF Fails, Waiting
  <1> HIDE DEF n
  <1> QED
    BY <1>1, <1>3, <1>4, GoesOnInv

(* When a call returns, so does the client's use of its own loaders. *)
LEMMA FinishInv ==
  ASSUME BuildInv, NEW c \in 1..Len(calls), Finish(c)
  PROVE  BuildInv' /\ live' = live
  <1>1. ~Returned(c) /\ UNCHANGED <<patient, live>>
    BY DEF Finish, Returned
  <1>2. CallInv(calls[c]) /\ calls[c] \in CallRecord
    BY RecordOf
  <1>3. PICK s \in {"ok", "error"} : /\ calls' = [calls EXCEPT ![c].step = s]
                                     /\ s = "ok" => calls[c].step = "configured"
    BY DEF Finish, Waiting
  <1> DEFINE n == [calls[c] EXCEPT !.step = s]
  <1>4. /\ n \in CallRecord /\ n.kind = calls[c].kind /\ n.step = s
        /\ n.program = calls[c].program /\ n.saved = calls[c].saved
        /\ n.actors = calls[c].actors /\ n.noted = calls[c].noted
    BY <1>2 DEF CallRecord, Step
  <1>5. calls' = [calls EXCEPT ![c] = n]
    BY <1>3
  <1> HIDE DEF n
  <1>6. CallInv(n)
    BY <1>2, <1>3, <1>4 DEF CallInv, Progress, Listing, Building
  <1>7. /\ calls' \in Seq(CallRecord) /\ Len(calls') = Len(calls) /\ Len(calls) \in Nat
        /\ DOMAIN calls = 1..Len(calls) /\ DOMAIN calls' = 1..Len(calls)
        /\ calls'[c] = n
        /\ \A d \in 1..Len(calls) : d # c => calls'[d] = calls[d]
    BY <1>4, <1>5, OneCallChanged
  <1>8. \A d \in 1..Len(calls) : /\ Returned(d)' <=> Returned(d) \/ d = c
                                 /\ calls'[d].kind = calls[d].kind
    BY <1>4, <1>7 DEF Returned
  <1>9. \A d \in 1..Len(calls') : CallInv(calls'[d])
    BY <1>6, <1>7 DEF BuildInv
  <1>10. OnlyLastUnderWay'
    BY <1>1, <1>7, <1>8 DEF BuildInv, OnlyLastUnderWay
  <1>11. /\ LoadersAreOwn' /\ LoadersRestored'
         /\ imageLoader' \in Nat /\ soundManager' \in Nat
    <2>1. CASE calls[c].kind = "assets"
      <3>1. imageLoader' = Client /\ soundManager' = Client
        BY <1>2, <2>1 DEF Finish, CallInv, Listing
      <3>2. \A d \in 1..Len(calls) : ~Returned(d) => d = c
        BY <1>1, <2>1, <1>7 DEF BuildInv, LoadersAreOwn, Own, Client
      <3> QED
        BY <3>1, <3>2, <1>7, <1>8 DEF LoadersAreOwn, LoadersRestored, Client
    <2>2. CASE calls[c].kind # "assets"
      <3>1. UNCHANGED <<imageLoader, soundManager>>
        BY <2>2 DEF Finish
      <3> QED
        BY <2>2, <3>1, <1>7, <1>8 DEF BuildInv, LoadersAreOwn, LoadersRestored, Own
    <2> QED
      BY <2>1, <2>2
  <1> QED
    BY <1>1, <1>7, <1>9, <1>10, <1>11 DEF BuildInv

(* An iteration of a loop. *)
LEMMA LoopInv ==
  ASSUME BuildInv, UNCHANGED <<patient, calls, imageLoader, soundManager, live>>
  PROVE  BuildInv'
  BY DEF BuildInv, CallInv, LoadersAreOwn, LoadersRestored, OnlyLastUnderWay, Own,
         Returned

-----------------------------------------------------------------------------
(* All steps, and what follows. *)

LEMMA NextInv ==
  ASSUME BuildInv, [Next]_vars
  PROVE  BuildInv' /\ (patient => live' >= live)
  <1>0. /\ live \in 0..Len(calls) /\ Len(calls) \in Nat /\ DOMAIN calls = 1..Len(calls)
    BY DEF BuildInv
  <1>1. ASSUME NEW program \in Program, ImportWithAutoConfigure(program)
        PROVE  BuildInv' /\ live' = live
    BY <1>1, CallMadeInv DEF ImportWithAutoConfigure
  <1>2. ASSUME NEW program \in Program, AssetNamesOfProject(program)
        PROVE  BuildInv' /\ live' = live
    BY <1>2, CallMadeInv DEF AssetNamesOfProject
  <1>3. ASSUME NEW c \in 1..Len(calls), CallGoesOn(c)
        PROVE  /\ BuildInv'
               /\ live' = live \/ (live' = c /\ ~Returned(c))
    <2>1. CASE TopLevelLoop(c)
      BY <2>1, LoopInv DEF TopLevelLoop
    <2> QED
      BY <1>3, <2>1, ImportedInv, ImagesLoadedInv, SoundsLoadedInv, FailsInv, FinishInv
      DEF CallGoesOn
  <1>4. ASSUME NEW c \in 1..NumCalls, CallGoesOn(c)
        PROVE  BuildInv' /\ (patient => live' >= live)
    <2>1. c \in 1..Len(calls)
      BY <1>0, <1>4 DEF CallGoesOn
    <2>2. patient /\ ~Returned(c) => c = Len(calls)
      BY <2>1 DEF BuildInv, OnlyLastUnderWay
    <2>3. BuildInv' /\ (live' = live \/ (live' = c /\ ~Returned(c)))
      BY <1>3, <1>4, <2>1
    <2>4. live >= live /\ Len(calls) >= live
      BY <1>0
    <2> QED
      BY <2>2, <2>3, <2>4
  <1>5. CASE UNCHANGED vars
    <2>1. UNCHANGED <<patient, calls, imageLoader, soundManager, live>>
      BY <1>5 DEF vars
    <2> QED
      BY <1>0, <2>1, LoopInv
  <1> QED
    BY <1>0, <1>1, <1>2, <1>4, <1>5 DEF Next

(* Whatever programs are built or listed, and whatever fails: a listing    *)
(* notes all assets of its program and no other's, what is built has the   *)
(* client's assets, and the loaders of asset_names_of_project() are gone   *)
(* when it returns.                                                        *)
LEMMA InvListsOnly == BuildInv => AssetsAreOnlyNoted
  <1> SUFFICES ASSUME BuildInv PROVE NotedAreAllAndOwn
    BY DEF BuildInv, AssetsAreOnlyNoted
  <1> SUFFICES ASSUME NEW c \in 1..Len(calls)
               PROVE  /\ calls[c].step = "ok" /\ calls[c].kind = "assets" =>
                           calls[c].noted = AssetsOf(calls[c].program)
                      /\ calls[c].kind = "build" =>
                           \A a \in Range(calls[c].actors) :
                             a.image = Client /\ a.sound = Client
    BY DEF NotedAreAllAndOwn, BuildInv
  <1>1. CallInv(calls[c])
    BY RecordOf
  <1>2. ASSUME calls[c].kind = "build", NEW a \in Range(calls[c].actors)
        PROVE  a.image = Client /\ a.sound = Client
    <2>1. calls[c].actors \in Seq(Actor({Client}))
      BY <1>1, <1>2 DEF CallInv, Building
    <2>2. a \in Actor({Client})
      BY <1>2, <2>1, ElementOfSeq DEF Range
    <2> QED
      BY <2>2 DEF Actor
  <1> QED
    BY <1>1, <1>2 DEF CallInv, Listing

THEOREM ListingAssetsDoesNothingElse == Spec => []AssetsAreOnlyNoted
  <1>1. Spec => []BuildInv
    BY InitInv, NextInv, PTL DEF Spec
  <1> QED
    BY <1>1, InvListsOnly, PTL

(* With a client that waits for each call, the live project is always that *)
(* of the latest call to have had one.                                     *)
THEOREM NewerProjectsStay == Spec => OlderNeverReplacesNewer
  <1>1. Spec => []BuildInv
    BY InitInv, NextInv, PTL DEF Spec
  <1>2. BuildInv /\ [Next]_vars => [patient => live' >= live]_vars
    BY NextInv
  <1> QED
    BY <1>1, <1>2, PTL DEF Spec, OlderNeverReplacesNewer

-----------------------------------------------------------------------------
(* The actors of the live project.                                         *)

(* The first m classes found are those of the actors, each once, the stage *)
(* first, the sprites in order.                                            *)
Registered(actors, found, m) ==
  /\ Len(actors) = m
  /\ \A k \in 1..m : \E p \in DOMAIN actors : IsFor(actors[p], found[k])
  /\ \A p \in DOMAIN actors : \E k \in 1..m : IsFor(actors[p], found[k])
  /\ \A p, q \in DOMAIN actors : actors[p].class = actors[q].class => p = q
  /\ \A p, q \in DOMAIN actors : p < q /\ IsSprite(actors[p]) => IsSprite(actors[q])
  /\ \A j, k \in 1..m : \A p, q \in DOMAIN actors :
       /\ IsFor(actors[p], found[j]) /\ IsFor(actors[q], found[k])
       /\ IsSprite(found[j]) /\ IsSprite(found[k]) /\ j < k
       => p < q

IsNew(actors, class) == \A p \in DOMAIN actors : actors[p].class # class.class

RegisteredSoFar(r) ==
  /\ r.step = "importing" => r.actors = <<>>
  /\ r.step \in {"images", "sounds"} =>
       /\ r.loading \in DOMAIN Actors[r.program]
       /\ Registered(r.actors, Actors[r.program], r.loading - 1)
       /\ IsNew(r.actors, Actors[r.program][r.loading])
  /\ r.step \in {"configured", "ok"} =>
       Registered(r.actors, Actors[r.program], Len(Actors[r.program]))

IsReady(c) == calls[c].step \in {"configured", "ok"}

ReadyInv ==
  /\ \A c \in 1..Len(calls) : RegisteredSoFar(calls[c])
  /\ live # Client => live \in 1..Len(calls) /\ IsReady(live)

FoundSeq == Seq([class : STRING, kind : {"Sprite", "Stage"}])

(* An actor whose class was not there joins in its place. *)
LEMMA ActorJoins ==
  ASSUME NEW L, NEW actors \in Seq(Actor(L)), NEW found \in FoundSeq,
         NEW m \in Nat, m < Len(found), Registered(actors, found, m),
         IsNew(actors, found[m + 1]), NEW actor \in Actor(L), IsFor(actor, found[m + 1]),
         NEW more, more = WithActor(actors, actor)
  PROVE  Registered(more, found, m + 1)
  <1>1. /\ Len(actors) = m /\ DOMAIN actors = 1..m
        /\ m + 1 \in 1..Len(found) /\ 1..(m + 1) = 1..m \cup {m + 1}
        /\ DOMAIN found = 1..Len(found) /\ Len(found) \in Nat
    BY DEF Registered, FoundSeq
  <1>2. \A k \in 1..(m + 1) : found[k].kind \in {"Sprite", "Stage"}
    <2>1. ASSUME NEW k \in 1..(m + 1) PROVE found[k] \in [class : STRING, kind : {"Sprite", "Stage"}]
      <3>1. k \in 1..Len(found)
        BY <1>1
      <3> QED
        BY <3>1, ElementOfSeq DEF FoundSeq
    <2> QED
      BY <2>1
  <1>3. PICK at, by : /\ at \in {1, m + 1} /\ by \in {0, 1} /\ at = (IF by = 1 THEN 1 ELSE m + 1)
                      /\ (by = 1 <=> actor.kind = "Stage")
    <2>1. CASE actor.kind = "Stage"
      BY <2>1
    <2>2. CASE actor.kind # "Stage"
      BY <2>2
    <2> QED
      BY <2>1, <2>2
  <1>4. /\ more \in Seq(Actor(L)) /\ Len(more) = m + 1 /\ DOMAIN more = 1..(m + 1)
        /\ more[at] = actor
        /\ \A p \in 1..m : more[p + by] = actors[p]
    <2>1. CASE actor.kind = "Stage"
      <3>1. more = <<actor>> \o actors
        BY <2>1 DEF WithActor
      <3> QED
        BY <1>1, <1>3, <2>1, <3>1
    <2>2. CASE actor.kind # "Stage"
      <3>1. more = Append(actors, actor)
        BY <2>2 DEF WithActor
      <3> QED
        BY <1>1, <1>3, <2>2, <3>1
    <2> QED
      BY <2>1, <2>2
  <1>5. \A p \in 1..(m + 1) : p = at \/ (p - by \in 1..m /\ more[p] = actors[p - by])
    <2> SUFFICES ASSUME NEW p \in 1..(m + 1), p # at
                 PROVE  p - by \in 1..m /\ more[p] = actors[p - by]
      OBVIOUS
    <2>1. p - by \in 1..m /\ (p - by) + by = p
      BY <1>3
    <2> QED
      BY <1>4, <2>1
  <1>6. ASSUME NEW k \in 1..(m + 1) PROVE \E p \in 1..(m + 1) : IsFor(more[p], found[k])
    <2>1. CASE k = m + 1
      BY <1>3, <1>4, <2>1
    <2>2. CASE k \in 1..m
      <3>1. PICK p \in 1..m : IsFor(actors[p], found[k])
        BY <1>1, <2>2 DEF Registered
      <3>2. p + by \in 1..(m + 1)
        BY <1>3
      <3> QED
        BY <1>4, <3>1, <3>2
    <2> QED
      BY <1>1, <2>1, <2>2
  <1>7. ASSUME NEW p \in 1..(m + 1) PROVE \E k \in 1..(m + 1) : IsFor(more[p], found[k])
    <2>1. CASE p = at
      BY <1>1, <1>4, <2>1
    <2>2. CASE p # at
      <3>1. p - by \in DOMAIN actors /\ more[p] = actors[p - by]
        BY <1>1, <1>5, <2>2
      <3>2. PICK k \in 1..m : IsFor(actors[p - by], found[k])
        BY <3>1 DEF Registered
      <3> QED
        BY <1>1, <3>1, <3>2
    <2> QED
      BY <2>1, <2>2
  <1>8. actor.class = found[m + 1].class /\ actor.kind = found[m + 1].kind
    BY DEF IsFor
  <1>9. ASSUME NEW p \in 1..(m + 1), NEW q \in 1..(m + 1), more[p].class = more[q].class
        PROVE  p = q
    <2>1. CASE p = at \/ q = at
      BY <1>1, <1>4, <1>5, <1>8, <1>9, <2>1 DEF IsNew
    <2>2. CASE p # at /\ q # at
      <3>1. /\ p - by \in DOMAIN actors /\ more[p] = actors[p - by]
            /\ q - by \in DOMAIN actors /\ more[q] = actors[q - by]
        BY <1>1, <1>5, <2>2
      <3>2. p - by = q - by
        <4>1. \A x, y \in DOMAIN actors : actors[x].class = actors[y].class => x = y
          BY DEF Registered
        <4>2. PICK x, y : x = p - by /\ y = q - by
          OBVIOUS
        <4> QED
          BY <1>9, <3>1, <4>1, <4>2
      <3>3. by \in Int /\ p \in Int /\ q \in Int
        BY <1>3
      <3> QED
        BY <3>2, <3>3
    <2> QED
      BY <2>1, <2>2
  <1>10. ASSUME NEW p \in 1..(m + 1), NEW q \in 1..(m + 1), p < q, IsSprite(more[p])
         PROVE  IsSprite(more[q])
    <2>1. CASE p = at
      BY <1>3, <1>4, <1>10, <2>1 DEF IsSprite
    <2>2. CASE q = at
      <3>1. by = 0
        BY <1>3, <1>10, <2>2
      <3> QED
        BY <1>2, <1>3, <1>4, <1>8, <2>2, <3>1, <1>1 DEF IsSprite
    <2>3. CASE p # at /\ q # at
      <3>1. /\ p - by \in DOMAIN actors /\ more[p] = actors[p - by]
            /\ q - by \in DOMAIN actors /\ more[q] = actors[q - by]
        BY <1>1, <1>5, <2>3
      <3>2. by \in Int /\ p \in Int /\ q \in Int /\ p < q
        BY <1>3, <1>10
      <3>3. p - by < q - by
        BY <3>2
      <3> QED
        BY <1>10, <3>1, <3>3 DEF Registered
    <2> QED
      BY <2>1, <2>2, <2>3
  <1>11. ASSUME NEW j \in 1..(m + 1), NEW k \in 1..(m + 1),
                NEW p \in 1..(m + 1), NEW q \in 1..(m + 1),
                IsFor(more[p], found[j]), IsFor(more[q], found[k]),
                IsSprite(found[j]), IsSprite(found[k]), j < k
         PROVE  p < q
    <2>1. j \in 1..m
      BY <1>11
    <2>2. p # at
      <3>1. SUFFICES ASSUME p = at PROVE FALSE
        OBVIOUS
      <3>2. found[j].class = found[m + 1].class
        BY <1>4, <1>8, <1>11, <3>1 DEF IsFor
      <3>3. PICK o \in 1..m : IsFor(actors[o], found[j])
        BY <1>1, <2>1 DEF Registered
      <3> QED
        BY <1>1, <3>2, <3>3 DEF IsFor, IsNew
    <2>3. CASE q = at
      <3>1. by = 0
        BY <1>3, <1>4, <1>11, <2>3 DEF IsFor, IsSprite
      <3> QED
        BY <1>3, <2>2, <2>3, <3>1
    <2>4. CASE q # at
      <3>1. p - by \in 1..m /\ q - by \in 1..m
            /\ more[p] = actors[p - by] /\ more[q] = actors[q - by]
        BY <1>5, <2>2, <2>4
      <3>2. k # m + 1
        BY <1>1, <1>11, <3>1 DEF IsFor, IsNew
      <3>3. k \in 1..m
        BY <3>2
      <3>4. p - by < q - by
        BY <1>1, <1>11, <2>1, <3>1, <3>3 DEF Registered
      <3> QED
        BY <1>3, <3>4
    <2> QED
      BY <2>3, <2>4
  <1> QED
    BY <1>4, <1>6, <1>7, <1>9, <1>10, <1>11 DEF Registered

LEMMA NoneRegistered == \A found : Registered(<<>>, found, 0)
  BY DEF Registered

-----------------------------------------------------------------------------
(* What an asset's being noted leaves as it was. *)
SameSoFar(r, n) ==
  r.step = n.step /\ r.actors = n.actors /\ r.loading = n.loading /\ r.program = n.program

LEMMA SameIsRegistered ==
  ASSUME NEW r, NEW n, SameSoFar(r, n), RegisteredSoFar(r)
  PROVE  RegisteredSoFar(n)
  BY DEF SameSoFar, RegisteredSoFar

LEMMA AskedKeeps ==
  ASSUME NEW s \in Seq(CallRecord), NEW loader, NEW asset
  PROVE  /\ Len(Asked(s, loader, asset)) = Len(s)
         /\ \A d \in 1..Len(s) : SameSoFar(s[d], Asked(s, loader, asset)[d])
  <1> DEFINE t == Asked(s, loader, asset)
             n == [s[loader] EXCEPT !.noted = @ \cup {asset}]
  <1>1. CASE loader = Client
    BY <1>1 DEF Asked, SameSoFar
  <1>2. CASE loader # Client
    <2>1. t = [s EXCEPT ![loader] = n]
      BY <1>2 DEF Asked
    <2>2. Len(t) = Len(s) /\ \A d \in 1..Len(s) : t[d] = IF d = loader THEN n ELSE s[d]
      <3> HIDE DEF n
      <3>1. DOMAIN t = DOMAIN s /\ DOMAIN s = 1..Len(s) /\ Len(s) \in Nat
        BY <2>1
      <3> QED
        BY <2>1, <3>1
    <2>3. loader \in 1..Len(s) => SameSoFar(s[loader], n)
      <3> SUFFICES ASSUME loader \in 1..Len(s) PROVE SameSoFar(s[loader], n)
        OBVIOUS
      <3>1. PICK r : r = s[loader]
        OBVIOUS
      <3>2. r \in CallRecord
        BY <3>1, ElementOfSeq
      <3>3. SameSoFar(r, [r EXCEPT !.noted = r.noted \cup {asset}])
        BY <3>2 DEF CallRecord, SameSoFar
      <3> QED
        BY <3>1, <3>3
    <2> HIDE DEF t, n
    <2>4. \A d \in 1..Len(s) : SameSoFar(s[d], t[d])
      BY <2>2, <2>3 DEF SameSoFar
    <2> QED
      BY <2>2, <2>4 DEF t
  <1> QED
    BY <1>1, <1>2

(* One call goes on, and becomes ready only if it is registered. *)
LEMMA OneGoesOn ==
  ASSUME BuildInv, ReadyInv, NEW c \in 1..Len(calls), Len(calls') = Len(calls),
         \A d \in 1..Len(calls) : d # c => SameSoFar(calls[d], calls'[d]),
         RegisteredSoFar(calls'[c]),
         live' = live \/ live' = c,
         live' = c => calls'[c].step \in {"configured", "ok"}
  PROVE  ReadyInv'
  <1>1. ASSUME NEW d \in 1..Len(calls) PROVE RegisteredSoFar(calls'[d])
    BY <1>1, SameIsRegistered DEF ReadyInv
  <1>2. live' # Client => live' \in 1..Len(calls) /\ calls'[live'].step \in {"configured", "ok"}
    BY DEF ReadyInv, IsReady, SameSoFar
  <1> QED
    BY <1>1, <1>2 DEF ReadyInv, IsReady

(* Registering one actor and turning to the next class. *)
LEMMA RegisterNextReady ==
  ASSUME BuildInv, ReadyInv, NEW c \in 1..Len(calls), ~IsReady(c),
         NEW r \in CallRecord, r.program = calls[c].program,
         NEW k \in 1..(Len(Classes(c)) + 1),
         Registered(r.actors, Classes(c), k - 1),
         NEW some, some = [calls EXCEPT ![c] = r],
         RegisterNext(some, c, k)
  PROVE  ReadyInv'
  <1>1. /\ some \in Seq(CallRecord) /\ Len(some) = Len(calls) /\ Len(calls) \in Nat
        /\ c \in DOMAIN some /\ some[c] = r
        /\ \A d \in 1..Len(calls) : d # c => some[d] = calls[d]
        /\ Classes(c) \in FoundSeq /\ Len(Classes(c)) \in Nat
        /\ DOMAIN Classes(c) = 1..Len(Classes(c)) /\ k \in Nat
    <2>1. /\ some \in Seq(CallRecord) /\ Len(some) = Len(calls) /\ Len(calls) \in Nat
          /\ DOMAIN some = 1..Len(some) /\ some[c] = r
          /\ \A d \in 1..Len(calls) : d # c => some[d] = calls[d]
      <3>1. calls \in Seq(CallRecord) /\ Len(calls) \in Nat
        BY DEF BuildInv
      <3> QED
        BY <3>1, ExceptSeq
    <2>2. Classes(c) \in FoundSeq
      BY RecordOf DEF FoundSeq
    <2> QED
      BY <2>1, <2>2 DEF FoundSeq
  <1>2. live # c
    <2>1. c # Client
      BY DEF Client
    <2> QED
      BY <2>1 DEF ReadyInv
  <1>3. Classes(c) = Actors[r.program]
    BY DEF Classes
  <1>4. ASSUME NEW q \in CallRecord, RegisteredSoFar(q), calls' = [some EXCEPT ![c] = q],
               live' = live \/ (live' = c /\ q.step = "configured")
        PROVE  ReadyInv'
    <2>1. /\ Len(calls') = Len(calls) /\ calls'[c] = q
          /\ \A d \in 1..Len(calls) : d # c => calls'[d] = calls[d]
      BY <1>1, <1>4, ExceptSeq
    <2> QED
      BY <1>2, <1>4, <2>1, OneGoesOn DEF SameSoFar
  <1>5. CASE k > Len(Classes(c))
    <2>1. PICK q : q = [r EXCEPT !.step = "configured"]
      OBVIOUS
    <2>2. q \in CallRecord /\ q.step = "configured" /\ q.actors = r.actors /\ q.program = r.program
      BY <2>1 DEF CallRecord, Step
    <2>3. k - 1 = Len(Classes(c))
      BY <1>1, <1>5
    <2>4. RegisteredSoFar(q)
      BY <1>3, <2>2, <2>3 DEF RegisteredSoFar
    <2>5. calls' = [some EXCEPT ![c] = q] /\ live' = c
      BY <1>1, <1>5, <2>1 DEF RegisterNext
    <2> QED
      BY <1>4, <2>2, <2>4, <2>5
  <1>6. CASE ~(k > Len(Classes(c))) /\ AlreadyRegistered(some, c, Classes(c)[k].class)
    <2>1. PICK q : q = [r EXCEPT !.step = "failing"]
      OBVIOUS
    <2>2. q \in CallRecord /\ q.step = "failing"
      BY <2>1 DEF CallRecord, Step
    <2>3. calls' = [some EXCEPT ![c] = q] /\ live' = live
      BY <1>1, <1>6, <2>1 DEF RegisterNext
    <2> QED
      BY <1>4, <2>2, <2>3 DEF RegisteredSoFar
  <1>7. CASE ~(k > Len(Classes(c))) /\ ~AlreadyRegistered(some, c, Classes(c)[k].class)
    <2>1. k \in DOMAIN Classes(c)
      BY <1>1, <1>7
    <2>2. PICK q : q = LoadingImages(r, k)
      OBVIOUS
    <2>3. /\ q \in CallRecord /\ q.step = "images" /\ q.actors = r.actors
          /\ q.program = r.program /\ q.loading = k
      <3>1. imageLoader \in Nat
        BY DEF BuildInv
      <3> QED
        BY <1>1, <2>2, <3>1 DEF LoadingImages, CallRecord, Step
    <2>4. IsNew(r.actors, Classes(c)[k])
      BY <1>1, <1>7 DEF AlreadyRegistered, IsNew, Range
    <2>5. RegisteredSoFar(q)
      BY <1>3, <2>1, <2>3, <2>4 DEF RegisteredSoFar
    <2>6. PICK t : t = [some EXCEPT ![c] = q]
      OBVIOUS
    <2>7. calls' = Asked(t, imageLoader, <<"image", Classes(c)[k].class>>) /\ live' = live
      <3>1. t = [some EXCEPT ![c].step = "images", ![c].loading = k, ![c].image = imageLoader]
        BY <1>1, <2>2, <2>6 DEF LoadingImages
      <3> QED
        BY <1>7, <3>1 DEF RegisterNext
    <2>8. /\ t \in Seq(CallRecord) /\ Len(t) = Len(calls) /\ t[c] = q
          /\ \A d \in 1..Len(calls) : d # c => t[d] = calls[d]
      BY <1>1, <2>3, <2>6, ExceptSeq
    <2>9. /\ Len(calls') = Len(calls)
          /\ \A d \in 1..Len(calls) : SameSoFar(t[d], calls'[d])
      BY <2>7, <2>8, AskedKeeps
    <2>10. RegisteredSoFar(calls'[c])
      BY <2>5, <2>8, <2>9, SameIsRegistered
    <2>11. \A d \in 1..Len(calls) : d # c => SameSoFar(calls[d], calls'[d])
      BY <2>8, <2>9
    <2> QED
      BY <1>2, <2>7, <2>9, <2>10, <2>11, OneGoesOn
  <1> QED
    BY <1>5, <1>6, <1>7

LEMMA ImportedReady ==
  ASSUME BuildInv, ReadyInv, NEW c \in 1..Len(calls), Imported(c)
  PROVE  ReadyInv'
  <1>1. /\ calls[c].step = "importing" /\ RegisterNext(calls, c, 1)
        /\ calls[c] \in CallRecord /\ calls \in Seq(CallRecord)
        /\ Len(Classes(c)) \in Nat
    BY RecordOf DEF Imported, BuildInv
  <1>2. calls = [calls EXCEPT ![c] = calls[c]]
    BY <1>1
  <1>3. Registered(calls[c].actors, Classes(c), 1 - 1)
    <2>1. calls[c].actors = <<>> /\ 1 - 1 = 0
      BY <1>1 DEF ReadyInv, RegisteredSoFar
    <2> QED
      BY <2>1, NoneRegistered
  <1>4. 1 \in 1..(Len(Classes(c)) + 1) /\ ~IsReady(c)
    BY <1>1 DEF IsReady
  <1> QED
    BY <1>1, <1>2, <1>3, <1>4, RegisterNextReady

LEMMA ImagesLoadedReady ==
  ASSUME BuildInv, ReadyInv, NEW c \in 1..Len(calls), ImagesLoaded(c)
  PROVE  ReadyInv'
  <1>1. PICK r : r = calls[c]
    OBVIOUS
  <1>2. /\ r.step = "images" /\ r \in CallRecord /\ calls \in Seq(CallRecord)
        /\ Len(calls) \in Nat /\ soundManager \in Nat /\ RegisteredSoFar(r)
    BY <1>1, RecordOf DEF ImagesLoaded, BuildInv, ReadyInv
  <1>3. PICK q : q = [r EXCEPT !.step = "sounds", !.sound = soundManager]
    OBVIOUS
  <1>4. /\ q \in CallRecord /\ q.step = "sounds" /\ q.actors = r.actors
        /\ q.loading = r.loading /\ q.program = r.program
    BY <1>2, <1>3 DEF CallRecord, Step
  <1>5. RegisteredSoFar(q)
    BY <1>2, <1>4 DEF RegisteredSoFar
  <1>6. PICK t : t = [calls EXCEPT ![c] = q]
    OBVIOUS
  <1>7. PICK asset : calls' = Asked(t, soundManager, asset) /\ live' = live
    <2>1. t = [calls EXCEPT ![c].step = "sounds", ![c].sound = soundManager]
      BY <1>1, <1>2, <1>3, <1>6
    <2> QED
      BY <2>1 DEF ImagesLoaded
  <1>8. /\ t \in Seq(CallRecord) /\ Len(t) = Len(calls) /\ t[c] = q
        /\ \A d \in 1..Len(calls) : d # c => t[d] = calls[d]
    BY <1>2, <1>4, <1>6, ExceptSeq
  <1>9. /\ Len(calls') = Len(calls)
        /\ \A d \in 1..Len(calls) : SameSoFar(t[d], calls'[d])
    BY <1>7, <1>8, AskedKeeps
  <1>10. RegisteredSoFar(calls'[c])
    BY <1>5, <1>8, <1>9, SameIsRegistered
  <1>11. \A d \in 1..Len(calls) : d # c => SameSoFar(calls[d], calls'[d])
    BY <1>8, <1>9
  <1>12. live # c
    BY <1>1, <1>2 DEF ReadyInv, IsReady, Client
  <1> QED
    BY <1>7, <1>9, <1>10, <1>11, <1>12, OneGoesOn

LEMMA SoundsLoadedReady ==
  ASSUME BuildInv, ReadyInv, NEW c \in 1..Len(calls), SoundsLoaded(c)
  PROVE  ReadyInv'
  <1>1. PICK r, k, found : r = calls[c] /\ k = r.loading /\ found = Classes(c)
    OBVIOUS
  <1>2. /\ r.step = "sounds" /\ r \in CallRecord /\ calls \in Seq(CallRecord)
        /\ RegisteredSoFar(r) /\ found = Actors[r.program] /\ found \in FoundSeq
        /\ DOMAIN found = 1..Len(found) /\ Len(found) \in Nat
    <2>1. /\ r.step = "sounds" /\ r \in CallRecord /\ calls \in Seq(CallRecord)
          /\ RegisteredSoFar(r) /\ found = Actors[r.program] /\ found \in FoundSeq
      BY <1>1, RecordOf DEF SoundsLoaded, BuildInv, ReadyInv, Classes, FoundSeq
    <2> QED
      BY <2>1 DEF FoundSeq
  <1>3. /\ k \in 1..Len(found) /\ Registered(r.actors, found, k - 1)
        /\ IsNew(r.actors, found[k])
    BY <1>1, <1>2 DEF RegisteredSoFar
  <1>4. PICK actor : actor = [class |-> found[k].class, kind |-> found[k].kind,
                              image |-> r.image, sound |-> r.sound]
    OBVIOUS
  <1>5. actor \in Actor(Nat) /\ IsFor(actor, found[k])
    <2>1. found[k] \in [class : STRING, kind : {"Sprite", "Stage"}]
      BY <1>2, <1>3, ElementOfSeq DEF FoundSeq
    <2>2. r.image \in Nat /\ r.sound \in Nat
      BY <1>2 DEF CallRecord
    <2> QED
      BY <1>4, <2>1, <2>2 DEF Actor, IsFor
  <1>6. PICK actors : actors = WithActor(r.actors, actor)
    OBVIOUS
  <1>7. r.actors \in Seq(Actor(Nat)) /\ actors \in Seq(Actor(Nat))
    <2>1. r.actors \in Seq(Actor(Nat))
      BY <1>2 DEF CallRecord
    <2> QED
      BY <1>5, <1>6, <2>1, WithActorIsSeq
  <1>8. Registered(actors, found, (k + 1) - 1)
    <2>1. PICK m : m = k - 1
      OBVIOUS
    <2>2. m \in Nat /\ m < Len(found) /\ m + 1 = k /\ (k + 1) - 1 = m + 1
      BY <1>2, <1>3, <2>1
    <2>3. Registered(r.actors, found, m) /\ IsNew(r.actors, found[m + 1])
          /\ IsFor(actor, found[m + 1])
      BY <1>3, <1>5, <2>1, <2>2
    <2>4. Registered(actors, found, m + 1)
      BY <1>2, <1>5, <1>6, <1>7, <2>2, <2>3, ActorJoins
    <2> QED
      BY <2>2, <2>4
  <1>9. PICK q : q = [r EXCEPT !.actors = actors]
    OBVIOUS
  <1>10. q \in CallRecord /\ q.actors = actors /\ q.program = r.program
    BY <1>2, <1>7, <1>9 DEF CallRecord
  <1>11. PICK some : some = [calls EXCEPT ![c] = q]
    OBVIOUS
  <1>12. RegisterNext(some, c, k + 1)
    <2>1. some = [calls EXCEPT ![c].actors = WithActor(@, actor)]
      BY <1>1, <1>2, <1>6, <1>9, <1>11
    <2> QED
      BY <1>1, <1>4, <2>1 DEF SoundsLoaded
  <1>13. k + 1 \in 1..(Len(Classes(c)) + 1) /\ ~IsReady(c)
    BY <1>1, <1>2, <1>3 DEF IsReady
  <1> QED
    BY <1>1, <1>8, <1>10, <1>11, <1>12, <1>13, RegisterNextReady

(* A call that ends, well or not, keeps its actors. *)
LEMMA EndsReady ==
  ASSUME BuildInv, ReadyInv, NEW c \in 1..Len(calls), Fails(c) \/ Finish(c)
  PROVE  ReadyInv'
  <1>1. PICK s \in {"failing", "error", "ok"} :
          /\ calls' = [calls EXCEPT ![c].step = s] /\ live' = live
          /\ s = "ok" <=> calls[c].step = "configured"
          /\ calls[c].step # "ok"
    BY DEF Fails, Finish, Waiting
  <1>2. PICK r : r = calls[c]
    OBVIOUS
  <1>3. r \in CallRecord /\ calls \in Seq(CallRecord) /\ RegisteredSoFar(r)
    BY <1>2, RecordOf DEF BuildInv, ReadyInv
  <1>4. PICK q : q = [r EXCEPT !.step = s]
    OBVIOUS
  <1>5. /\ q \in CallRecord /\ q.step = s /\ q.actors = r.actors /\ q.program = r.program
    BY <1>3, <1>4 DEF CallRecord, Step
  <1>6. /\ Len(calls') = Len(calls) /\ calls'[c] = q
        /\ \A d \in 1..Len(calls) : d # c => calls'[d] = calls[d]
    <2>1. calls' = [calls EXCEPT ![c] = q]
      BY <1>1, <1>2, <1>4
    <2> QED
      BY <1>3, <1>5, <2>1, ExceptSeq
  <1>7. RegisteredSoFar(q)
    BY <1>1, <1>2, <1>3, <1>5 DEF RegisteredSoFar
  <1>8. live = c => s = "ok"
    BY <1>1 DEF ReadyInv, IsReady, Client
  <1> QED
    BY <1>1, <1>5, <1>6, <1>7, <1>8, OneGoesOn DEF SameSoFar

LEMMA CallMadeReady ==
  ASSUME BuildInv, ReadyInv, NEW new, new.step = "importing", new.actors = <<>>,
         calls' = Append(calls, new), live' = live
  PROVE  ReadyInv'
  <1>1. calls \in Seq(CallRecord) /\ Len(calls) \in Nat
    BY DEF BuildInv
  <1>2. /\ Len(calls') = Len(calls) + 1 /\ calls'[Len(calls) + 1] = new
        /\ \A c \in 1..Len(calls) : calls'[c] = calls[c]
    BY <1>1
  <1>3. RegisteredSoFar(new)
    BY DEF RegisteredSoFar
  <1>4. \A c \in 1..Len(calls') : RegisteredSoFar(calls'[c])
    BY <1>1, <1>2, <1>3 DEF ReadyInv
  <1>5. live' # Client => live' \in 1..Len(calls') /\ calls'[live'].step \in {"configured", "ok"}
    BY <1>1, <1>2 DEF ReadyInv, IsReady
  <1> QED
    BY <1>4, <1>5 DEF ReadyInv, IsReady

LEMMA NextReady == BuildInv /\ ReadyInv /\ [Next]_vars => ReadyInv'
  <1> SUFFICES ASSUME BuildInv, ReadyInv, [Next]_vars PROVE ReadyInv'
    OBVIOUS
  <1>1. ASSUME NEW program \in Program,
               ImportWithAutoConfigure(program) \/ AssetNamesOfProject(program)
        PROVE  ReadyInv'
    <2>1. PICK kind, new : /\ new = NewCall(kind, program)
                           /\ calls' = Append(calls, new) /\ live' = live
      BY <1>1 DEF ImportWithAutoConfigure, AssetNamesOfProject
    <2>2. new.step = "importing" /\ new.actors = <<>>
      BY <2>1 DEF NewCall
    <2> QED
      BY <2>1, <2>2, CallMadeReady
  <1>2. ASSUME NEW c \in 1..NumCalls, CallGoesOn(c)
        PROVE  ReadyInv'
    <2>1. c \in 1..Len(calls)
      BY <1>2 DEF CallGoesOn, BuildInv
    <2>2. CASE TopLevelLoop(c)
      BY <2>2 DEF TopLevelLoop, ReadyInv, RegisteredSoFar, IsReady
    <2> QED
      BY <1>2, <2>1, <2>2, ImportedReady, ImagesLoadedReady, SoundsLoadedReady, EndsReady
      DEF CallGoesOn
  <1>3. CASE UNCHANGED vars
    BY <1>3 DEF vars, ReadyInv, RegisteredSoFar, IsReady
  <1> QED
    BY <1>1, <1>2, <1>3 DEF Next

(* The live project is complete, whatever program it is, however many      *)
(* calls overlap and wherever they fail: go_live() comes after the last    *)
(* registration, each class found has the one actor, the stage first and   *)
(* the sprites in order.                                                   *)
THEOREM LiveProjectsAreComplete == Spec => []LiveProjectIsReady
  <1>1. Init => ReadyInv
    BY DEF Init, ReadyInv, Client
  <1>2. BuildInv /\ ReadyInv => LiveProjectIsReady
    <2> SUFFICES ASSUME BuildInv, ReadyInv, live # Client PROVE LiveProjectIsReady
      BY DEF LiveProjectIsReady
    <2>1. live \in 1..Len(calls) /\ RegisteredSoFar(calls[live]) /\ IsReady(live)
      BY DEF ReadyInv
    <2>2. /\ Registered(calls[live].actors, Classes(live), Len(Classes(live)))
          /\ DOMAIN Classes(live) = 1..Len(Classes(live))
      BY <2>1, RecordOf DEF RegisteredSoFar, IsReady, Classes
    <2> QED
      BY <2>2 DEF LiveProjectIsReady, Registered
  <1>3. Spec => [](BuildInv /\ ReadyInv)
    BY <1>1, InitInv, NextInv, NextReady, PTL DEF Spec
  <1> QED
    BY <1>2, <1>3, PTL

=============================================================================
