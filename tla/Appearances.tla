---------------------------- MODULE Appearances ----------------------------
(***************************************************************************)
(* Costumes of sprites: from their descriptors in a class to what is drawn *)
(* (src/lib/pytch/project.js), changing them (src/lib/pytch/actor.py), and *)
(* finding which sprites touch.  There are two classes of sprites; class 2 *)
(* inherits from class 1.  Each has its original instance only: a clone    *)
(* has copies of the attributes of its parent, and goes on from there.     *)
(***************************************************************************)
EXTENDS Integers, Sequences, SequencesExt

CONSTANTS Programs,   \* of each class, its Costumes and start_shown
          StemOf,     \* the name of each file, without its extension
          ImageSize,  \* the width and height of each file's image, both even
          Places,     \* where sprites go, as pairs of numbers
          Sizes       \* _size

Class == 1..2
NoLabel == "no label"
NoIndex == -1

VARIABLES
  program,      \* the classes, with their Costumes as the author means them
  registered,   \* classes which are registered
  appearances,  \* _appearances of each class
  names,        \* _appearance_names, as an attribute of each class itself
  instance      \* the original instance of each class

vars == <<program, registered, appearances, names, instance>>

-----------------------------------------------------------------------------
(* Descriptors.  A costume is meant to have a label and a centre, or else  *)
(* those which its file gives it; a mistaken one starts with a number.  It *)
(* is written as a tuple, or as a file alone.                              *)

Text(t) == [text |-> t]
Number(n) == [number |-> n]
IsText(e) == "text" \in DOMAIN e
Bare(file) == [bare |-> file]
Tuple(s) == [tuple |-> s]

Written(w) ==
  LET label == IF w.label = NoLabel THEN <<>> ELSE <<Text(w.label)>>
      centre == [k \in DOMAIN w.centre |-> Number(w.centre[k])]
      all == label \o <<Text(w.file)>> \o centre
  IN IF w.bare THEN Bare(w.file)
     ELSE IF w.mistaken THEN Tuple(<<Number(0)>> \o Tail(all))
     ELSE Tuple(all)

Costume(label, file, centre) == [label |-> label, file |-> file, centre |-> centre]
Middle(file) == <<ImageSize[file][1] \div 2, ImageSize[file][2] \div 2>>

(* The descriptors that are accepted have one or two texts, the last one a *)
(* file, and then two numbers or none.                                     *)
IsValid(descr) == "tuple" \in DOMAIN descr =>
  /\ Len(descr.tuple) \in 1..4
  /\ \A k \in DOMAIN descr.tuple :
       IsText(descr.tuple[k]) <=> k <= IF Len(descr.tuple) \in {1, 3} THEN 1 ELSE 2

Labelled(s) == Len(s) \in {2, 4}

Described(descr) ==
  IF "bare" \in DOMAIN descr THEN Costume(StemOf[descr.bare], descr.bare, Middle(descr.bare))
  ELSE LET s == descr.tuple
           file == s[IF Labelled(s) THEN 2 ELSE 1].text
       IN Costume(IF Labelled(s) THEN s[1].text ELSE StemOf[file], file,
                  IF Len(s) > 2 THEN <<s[Len(s) - 1].number, s[Len(s)].number>>
                                ELSE Middle(file))

-----------------------------------------------------------------------------
(* Registration of a class, which makes its original instance.  If it      *)
(* raises an exception there is no program.                                *)

NotSet == [set |-> FALSE, list |-> <<>>]

Init == /\ program \in Programs
        /\ registered = {}
        /\ appearances = [c \in Class |-> <<>>]
        /\ names = [c \in Class |-> NotSet]
        /\ instance = [c \in Class |-> [index |-> NoIndex, shown |-> FALSE, place |-> <<0, 0>>,
                                        size |-> 1, asked |-> NoLabel]]

RegisterActor(c) ==
  LET costumes == [k \in DOMAIN program[c].costumes |-> Written(program[c].costumes[k])]
      some == costumes # <<>>
  IN /\ c \notin registered
     /\ \A k \in DOMAIN costumes : IsValid(costumes[k])
     /\ program[c].start = "shown" => some
     /\ registered' = registered \cup {c}
     /\ appearances' = [appearances EXCEPT ![c] =
                          [k \in DOMAIN costumes |-> Described(costumes[k])]]
     /\ instance' = [instance EXCEPT
          ![c].index = IF some THEN 0 ELSE NoIndex,
          ![c].shown = IF program[c].start = "either" THEN some ELSE program[c].start = "shown"]
     /\ UNCHANGED <<program, names>>

-----------------------------------------------------------------------------
(* What a sprite does.  asked is history: the name of the costume that it  *)
(* asked for when it last changed costume, if it did ask for a name.       *)

Labels(c) == [k \in DOMAIN appearances[c] |-> appearances[c][k].label]

(* Reading cls._appearance_names finds the attribute of the class, or that *)
(* of the class from which it inherits.                                    *)
Found(c) == IF ~names[c].set /\ c = 2 THEN names[1] ELSE names[c]
Borrows(c) == c = 2 /\ ~names[2].set /\ names[1].set

EnsuredNames(c) == IF Found(c).set THEN Found(c).list ELSE Labels(c)
EnsureNames(c) ==
  names' = IF Found(c).set THEN names ELSE [names EXCEPT ![c] = [set |-> TRUE, list |-> Labels(c)]]

FirstOf(s, name) == CHOOSE k \in DOMAIN s : s[k] = name /\ \A j \in 1..(k - 1) : s[j] # name
KnownNames == UNION {Range(Labels(c)) : c \in Class}

SwitchByName(c) == \E name \in KnownNames :
  /\ EnsureNames(c)
  /\ instance' =
       IF \E k \in DOMAIN EnsuredNames(c) : EnsuredNames(c)[k] = name
       THEN [instance EXCEPT ![c].index = FirstOf(EnsuredNames(c), name) - 1, ![c].asked = name]
       ELSE instance
  /\ UNCHANGED <<program, registered, appearances>>

SwitchByNumber(c) == \E n \in -1..Len(EnsuredNames(c)) :
  /\ EnsureNames(c)
  /\ instance' = IF n >= 0 /\ n < Len(EnsuredNames(c))
                 THEN [instance EXCEPT ![c].index = n, ![c].asked = NoLabel]
                 ELSE instance
  /\ UNCHANGED <<program, registered, appearances>>

(* A bug: no sprite goes on from its last costume to its first. *)
StepOnly(index, n, length) == index + n
Stepped(index, n, length) == (index + n) % length

NextCostume(c) == \E n \in {-1, 1, 2} :
  /\ appearances[c] # <<>>
  /\ instance' = [instance EXCEPT ![c].index = Stepped(@, n, Len(appearances[c])),
                                  ![c].asked = NoLabel]
  /\ UNCHANGED <<program, registered, appearances, names>>

CostumeName(c) ==
  /\ EnsureNames(c)
  /\ UNCHANGED <<program, registered, appearances, instance>>

Show(c) ==
  /\ program[c].costumes # <<>>
  /\ instance' = [instance EXCEPT ![c].shown = TRUE]
  /\ UNCHANGED <<program, registered, appearances, names>>

Hide(c) ==
  /\ instance' = [instance EXCEPT ![c].shown = FALSE]
  /\ UNCHANGED <<program, registered, appearances, names>>

GoToXY(c) == \E p \in Places :
  /\ instance' = [instance EXCEPT ![c].place = p]
  /\ UNCHANGED <<program, registered, appearances, names>>

SetSize(c) == \E s \in Sizes :
  /\ instance' = [instance EXCEPT ![c].size = s]
  /\ UNCHANGED <<program, registered, appearances, names>>

Next == \E c \in Class :
  \/ RegisterActor(c)
  \/ /\ c \in registered
     /\ \/ SwitchByName(c) \/ SwitchByNumber(c) \/ NextCostume(c) \/ CostumeName(c)
        \/ Show(c) \/ Hide(c) \/ GoToXY(c) \/ SetSize(c)

Spec == Init /\ [][Next]_vars

-----------------------------------------------------------------------------
(* Where a sprite is.  The stage's y goes up, and that of an image down.   *)

Drawable(c) == instance[c].index >= 0 /\ instance[c].index < Len(appearances[c])
Appearance(c) == appearances[c][instance[c].index + 1]
Image(c) == ImageSize[Appearance(c).file]

(* A bug: the centre is taken from the bottom of the image. *)
BoxUpsideDown(c) ==
  LET i == instance[c]
      left == i.place[1] - i.size * Appearance(c).centre[1]
      bottom == i.place[2] - i.size * Appearance(c).centre[2]
  IN [left |-> left, right |-> left + i.size * Image(c)[1],
      top |-> bottom + i.size * Image(c)[2], bottom |-> bottom]

BoundingBox(c) ==
  LET i == instance[c]
      left == i.place[1] - i.size * Appearance(c).centre[1]
      top == i.place[2] + i.size * Appearance(c).centre[2]
  IN [left |-> left, right |-> left + i.size * Image(c)[1],
      top |-> top, bottom |-> top - i.size * Image(c)[2]]

OverlapsWith(a, b) == /\ a.left < b.right /\ b.left < a.right
                      /\ a.bottom < b.top /\ b.bottom < a.top

(* touching(), of a class with an instance. *)
IsTouching(c, e) ==
  instance[c].shown /\ instance[e].shown /\ OverlapsWith(BoundingBox(c), BoundingBox(e))

-----------------------------------------------------------------------------
(* Registered costumes have the label and centre that were meant, in every *)
(* form of descriptor.                                                     *)
CostumesAreAsMeant == \A c \in registered : \A k \in DOMAIN program[c].costumes :
  LET w == program[c].costumes[k]
  IN /\ ~w.mistaken
     /\ appearances[c][k] = Costume(IF w.label = NoLabel THEN StemOf[w.file] ELSE w.label, w.file,
                                    IF w.centre = <<>> THEN Middle(w.file) ELSE w.centre)

(* A sprite that is shown has a costume to be drawn in, the one it asked   *)
(* for.  Not so, if its class goes by the names of another class.          *)
ShownCanBeDrawn == \A c \in registered : ~Borrows(c) =>
  /\ instance[c].shown => Drawable(c)
  /\ instance[c].asked # NoLabel => Drawable(c) /\ Appearance(c).label = instance[c].asked

(* Sprites touch if there is a place where a part of both is drawn: pixels *)
(* of an image are counted from its top left, and the centre is where the  *)
(* sprite is.                                                              *)
Drawn(c) ==
  LET i == instance[c]
      m == Appearance(c).centre
  IN UNION {{<<i.place[1] + i.size * (col - m[1]) + h, i.place[2] + i.size * (m[2] - row) - 1 - v>> :
               h, v \in 0..(i.size - 1)} :
             col \in 0..(Image(c)[1] - 1), row \in 0..(Image(c)[2] - 1)}

TouchingIsOverlap == \A c, e \in registered : Drawable(c) /\ Drawable(e) =>
  (IsTouching(c, e) <=> instance[c].shown /\ instance[e].shown /\ Drawn(c) \cap Drawn(e) # {})

CostumesAreWorn == CostumesAreAsMeant /\ ShownCanBeDrawn /\ TouchingIsOverlap

=============================================================================
