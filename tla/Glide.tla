------------------------------- MODULE Glide --------------------------------
(***************************************************************************)
(* glide_to_xy() of a sprite (src/lib/pytch/actor.py), with the easing     *)
(* curves of src/lib/pytch/_glide_easing.js: one coordinate of a sprite    *)
(* which several of its threads glide.                                     *)
(*                                                                         *)
(* Coordinates are whole numbers of 1 / Unit of a pixel, Unit so that all  *)
(* positions are exact: rounding of floating-point numbers is left out     *)
(* (where it would matter, at the end of a glide, the code's is exact).    *)
(***************************************************************************)
EXTENDS Integers

CONSTANTS Threads,   \* the sprite's threads are 1..Threads, in their order in a frame
          Places,    \* where to glide to, in pixels
          Times,     \* how long, in 120ths of a second
          Curves,    \* of "linear" and "ease-in-out"
          MaxGlides, \* bound: glides in all
          Unit

VARIABLES
  x,       \* Sprite._x
  glides,  \* of each thread, the glide it is in, or Idle
  turn,    \* the thread whose turn it is in this frame
  begun    \* the number of glides so far

vars == <<x, glides, turn, begun>>

Thread == 1..Threads
Idle == [frames |-> 0]

(* n_frames: FRAMES_PER_SECOND is 60. *)
NumFrames(time) == IF time \div 2 = 0 THEN 1 ELSE time \div 2

(* A bug: frames are counted from 0 up to n - 1. *)
EasedFromZero(curve, i, n) == IF curve = "linear" THEN (i - 1) * n ELSE 2 * (i - 1) * (i - 1)

(* The part of the way made after i of n frames, times n * n. *)
Eased(curve, i, n) ==
  IF curve = "linear" THEN i * n
  ELSE IF 2 * i < n THEN 2 * i * i
  ELSE 4 * i * n - 2 * i * i - n * n

Init == /\ x = 0
        /\ glides = [t \in Thread |-> Idle]
        /\ turn = 1
        /\ begun = 0

(* The call, up to its first frame.  left is history: where the glide has  *)
(* put the sprite last.                                                    *)
GlideToXY(t, to, time, curve) ==
  /\ turn = t
  /\ glides[t] = Idle
  /\ begun < MaxGlides
  /\ begun' = begun + 1
  /\ glides' = [glides EXCEPT ![t] =
                  [from |-> x, to |-> to * Unit, frames |-> NumFrames(time), curve |-> curve,
                   frame |-> 1, left |-> x]]
  /\ UNCHANGED <<x, turn>>

(* One frame; then wait_seconds(0) ends the thread's turn. *)
GoOn(t) ==
  LET g == glides[t]
      n == g.frames
      part == Eased(g.curve, g.frame, n)
      p == (part * g.to + (n * n - part) * g.from) \div (n * n)
  IN  /\ turn = t
      /\ g # Idle
      /\ x' = p
      /\ glides' = [glides EXCEPT ![t] =
                      IF g.frame = n THEN Idle ELSE [g EXCEPT !.frame = @ + 1, !.left = p]]
      /\ turn' = (t % Threads) + 1
      /\ UNCHANGED begun

(* The thread does something else in this frame. *)
Pass(t) == /\ turn = t
           /\ glides[t] = Idle
           /\ turn' = (t % Threads) + 1
           /\ UNCHANGED <<x, glides, begun>>

Next == \E t \in Thread :
          \/ \E to \in Places, time \in Times, curve \in Curves : GlideToXY(t, to, time, curve)
          \/ GoOn(t)
          \/ Pass(t)

Spec == Init /\ [][Next]_vars

-----------------------------------------------------------------------------
(* What could go wrong.                                                    *)

Distance(p, q) == IF p < q THEN q - p ELSE p - q

(* A frame of a glide brings the sprite closer to its destination, the     *)
(* first one too, as long as no other thread has moved it; the last one,   *)
(* whatever other threads have done, brings it "exactly" there.            *)
Progress(g, ends) ==
  /\ x = g.left /\ g.from # g.to => Distance(x', g.to) < Distance(x, g.to)
  /\ ends => x' = g.to

GlidesArrive ==
  [][\A t \in Thread :
       glides[t] # Idle /\ glides'[t] # glides[t] => Progress(glides[t], glides'[t] = Idle)]_vars

=============================================================================
