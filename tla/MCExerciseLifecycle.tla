------------------------- MODULE MCExerciseLifecycle -------------------------
(* Two exercises of up to three versions; the seeded shuffle is a 3-cycle. *)
(* Operators override any of a trace's fields with those of two layouts,   *)
(* or the key with an id no choice has; the fixed code; the parent.        *)
EXTENDS ExerciseLifecycle, TLC

CONSTANTS right, w1, w2

MCSeeded == [i \in Ids |-> <<2, 3, 1>>]

Arrangements == {Content(<<w1, right, w2>>), Content(<<w2, right, w1>>)}

MCOverrides ==
    {[f \in fields |-> c[f]] : fields \in SUBSET {"choices", "key", "why"}, c \in Arrangements}
    \cup {[key |-> NoChoice], [parent |-> None]} \cup {[fixedCode |-> b] : b \in BOOLEAN}

(* Tools are alike, and so are the wrong choices. *)
Symmetry == Permutations(Tools) \cup Permutations({w1, w2})
=============================================================================
