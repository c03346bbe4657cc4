------------------------------ MODULE NBestMC ------------------------------
(***************************************************************************)
(* Two labels and sentences of one, two and three tokens, one after        *)
(* another.  Label 1 scores -1, 0 or 1 more than label 0 and three of the  *)
(* four kinds of path score 0 or 2, in every combination: the locally best *)
(* label is often not the best one, some taggings cost the same, and a     *)
(* short sentence follows a long one whose agenda is not used up.          *)
(***************************************************************************)
EXTENDS ForwardBackward

\* Every score raised by one: the least one is -1.
MCExp(score) == 2 ^ (score + 1)

Lattice(len, first, others, path) ==
    [len  |-> len,
     node |-> [x \in 0 .. len - 1 |->
                 [y \in Labels |-> IF y = 0 THEN 0
                                   ELSE IF x = 0 THEN first ELSE others]],
     path |-> [x \in 1 .. len - 1 |-> path]]

Paths == {p \in [Labels -> [Labels -> {0, 2}]] : p[0][1] = 0}

MCLattices ==
    {Lattice(1, first, 0, [l \in Labels |-> [y \in Labels |-> 0]]) : first \in {0, 1}}
    \cup {Lattice(2, first, others, path) :
            first \in {0}, others \in {-1}, path \in Paths}
    \cup {Lattice(3, first, others, path) :
            first \in {-1, 1}, others \in {-1, 1}, path \in Paths}

=============================================================================
