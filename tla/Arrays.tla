------------------------------- MODULE Arrays -------------------------------
(* JavaScript's arrays, as far as the VM uses them in place of sets.       *)
EXTENDS Integers, Sequences

(* s.filter(x => S.has(x)) *)
Filtered(s, S) ==
  LET left[n \in 0..Len(s)] ==
        IF n = 0 THEN <<>>
        ELSE IF s[n] \in S THEN Append(left[n - 1], s[n]) ELSE left[n - 1]
  IN  left[Len(s)]

=============================================================================
