------------------------------- MODULE NBest -------------------------------
(***************************************************************************)
(* Decoding, as TaggerImpl does it with nbest_ > 0 (tagger.cpp): viterbi   *)
(* goes through the lattice from left to right and leaves in every node    *)
(* the best score of a partial tagging that ends there; then next() is an  *)
(* A* search from right to left over an agenda of partial taggings that    *)
(* end at the last token, with viterbi's scores as the estimate of what is *)
(* still missing.                                                          *)
(*                                                                         *)
(* A QueueElement is the tagging of the tokens from its node on (its chain *)
(* of next pointers), with its cost gx and the estimated total fx.  The    *)
(* agenda is a heap that orders nothing but fx: any element of least fx    *)
(* may be on top.  The tagger is used for one sentence after another, and  *)
(* the agenda outlives the sentence.                                       *)
(*                                                                         *)
(* Scores are numbers that add up exactly; -1e37, below which viterbi does *)
(* not look, is below all of them.                                         *)
(***************************************************************************)
EXTENDS Integers, Sequences, FiniteSets

CONSTANTS ysize,   \* the number of labels
          Lattices \* the sentences, as [len, node, path] with their scores

ASSUME SizeAssumption == ysize \in Nat \ {0}

Labels == 0 .. ysize - 1

ASSUME LatticesAssumption ==
    \A lt \in Lattices :
        /\ DOMAIN lt = {"len", "node", "path"}
        /\ lt.len \in Nat \ {0}
        /\ lt.node \in [0 .. lt.len - 1 -> [Labels -> Int]]
        /\ lt.path \in [1 .. lt.len - 1 -> [Labels -> [Labels -> Int]]]

VARIABLES
    pc,
    lat,            \* the nodes' and paths' cost, as buildLattice leaves them
    i,              \* viterbi's loop
    bestCost, prev, \* per token and label
    agenda,
    result, cost,   \* result_, cost_
    found           \* what parse or next returned last

vars == <<pc, lat, i, bestCost, prev, agenda, result, cost, found>>

Tokens(lt) == 0 .. lt.len - 1

\* A table of the lattice's nodes with nothing in it.
Zeros(lt) == [x \in Tokens(lt) |-> [y \in Labels |-> 0]]

\* A sentence is read and its lattice built: every node is new.
Init ==
    /\ pc = "viterbi"
    /\ lat \in Lattices
    /\ i = 0
    /\ bestCost = Zeros(lat)
    /\ prev = Zeros(lat)
    /\ agenda = {}
    /\ result = [x \in Tokens(lat) |-> 0]
    /\ cost = 0
    /\ found = FALSE

-----------------------------------------------------------------------------
(* viterbi. *)

\* The first of the labels at which f is greatest.
FirstBest(f, y) ==
    /\ y \in Labels
    /\ \A z \in Labels : f[z] <= f[y]
    /\ \A z \in Labels : f[z] = f[y] => y <= z

\* The scores of reaching label y of token i from each label before it.
Reach(y) ==
    [l \in Labels |->
        bestCost[i - 1][l] + lat.path[i][l][y] + lat.node[i][y]]

\* The node's own cost is left out.
ReachPaths(y) == [l \in Labels |-> bestCost[i - 1][l] + lat.path[i][l][y]]

FirstColumn ==
    /\ pc = "viterbi"
    /\ i = 0
    /\ bestCost' = [bestCost EXCEPT ![0] = lat.node[0]]
    /\ i' = 1
    /\ UNCHANGED <<pc, lat, prev, agenda, result, cost, found>>

\* The first node's cost is all that later columns see of a label.
ColumnPathsOnly ==
    /\ pc = "viterbi"
    /\ i \in 1 .. lat.len - 1
    /\ \E best \in [Labels -> Labels] :
         /\ \A y \in Labels : FirstBest(ReachPaths(y), best[y])
         /\ prev' = [prev EXCEPT ![i] = best]
         /\ bestCost' =
              [bestCost EXCEPT ![i] = [y \in Labels |-> ReachPaths(y)[best[y]]]]
    /\ i' = i + 1
    /\ UNCHANGED <<pc, lat, agenda, result, cost, found>>

Column ==
    /\ pc = "viterbi"
    /\ i \in 1 .. lat.len - 1
    /\ \E best \in [Labels -> Labels] :
         /\ \A y \in Labels : FirstBest(Reach(y), best[y])
         /\ prev' = [prev EXCEPT ![i] = best]
         /\ bestCost' =
              [bestCost EXCEPT ![i] = [y \in Labels |-> Reach(y)[best[y]]]]
    /\ i' = i + 1
    /\ UNCHANGED <<pc, lat, agenda, result, cost, found>>

\* The chain of prev pointers from label y of the last token.
Chain(y) ==
    LET chain[x \in Tokens(lat)] ==
            IF x = lat.len - 1 THEN y ELSE prev[x + 1][chain[x + 1]]
    IN chain

\* The best last node, and the way back from it.
Backtrack ==
    /\ pc = "viterbi"
    /\ i = lat.len
    /\ \E y \in Labels :
         /\ FirstBest(bestCost[lat.len - 1], y)
         /\ result' = Chain(y)
         /\ cost' = - bestCost[lat.len - 1][y]
    /\ pc' = "parsed"
    /\ UNCHANGED <<lat, i, bestCost, prev, agenda, found>>

-----------------------------------------------------------------------------
(* initNbest and next. *)

Last == lat.len - 1

Eos(y) == [seq |-> <<y>>, gx |-> - lat.node[Last][y], fx |-> - bestCost[Last][y]]

\* The agenda is not emptied first.
InitNbestAdds ==
    /\ pc = "parsed"
    /\ agenda' = agenda \cup {Eos(y) : y \in Labels}
    /\ found' = TRUE
    /\ pc' = "ready"
    /\ UNCHANGED <<lat, i, bestCost, prev, result, cost>>

InitNbest ==
    /\ pc = "parsed"
    /\ agenda' = {Eos(y) : y \in Labels}
    /\ found' = TRUE
    /\ pc' = "ready"
    /\ UNCHANGED <<lat, i, bestCost, prev, result, cost>>

\* next() is called.
Call ==
    /\ pc = "ready"
    /\ pc' = "search"
    /\ UNCHANGED <<lat, i, bestCost, prev, agenda, result, cost, found>>

\* What the heap may have on top.
Tops == {e \in agenda : \A d \in agenda : e.fx <= d.fx}

\* The token of an element's node.
At(e) == lat.len - Len(e.seq)

\* One label more to the left of top.
Extend(top, l) ==
    LET path == lat.path[At(top)][l][Head(top.seq)] IN
    [seq |-> <<l>> \o top.seq,
     gx  |-> top.gx - lat.node[At(top) - 1][l] - path,
     fx  |-> top.gx - bestCost[At(top) - 1][l] - path]

\* The estimate of what is missing is the left node's own cost.
ExtendNearSighted(top, l) ==
    [Extend(top, l) EXCEPT !.fx = Extend(top, l).gx]

\* top itself is pushed where the new elements should be.
ExpandPushesTop(top) ==
    /\ pc = "search"
    /\ At(top) # 0
    /\ UNCHANGED vars

\* The estimate of the new elements looks at the left node alone.
ExpandNearSighted(top) ==
    /\ pc = "search"
    /\ At(top) # 0
    /\ agenda' = (agenda \ {top}) \cup {ExtendNearSighted(top, l) : l \in Labels}
    /\ UNCHANGED <<pc, lat, i, bestCost, prev, result, cost, found>>

Expand(top) ==
    /\ pc = "search"
    /\ At(top) # 0
    /\ agenda' = (agenda \ {top}) \cup {Extend(top, l) : l \in Labels}
    /\ UNCHANGED <<pc, lat, i, bestCost, prev, result, cost, found>>

\* The chain is written out from its wrong end.
FoundReversed(top) ==
    /\ pc = "search"
    /\ At(top) = 0
    /\ agenda' = agenda \ {top}
    /\ result' = [x \in Tokens(lat) |-> top.seq[lat.len - x]]
    /\ cost' = top.gx
    /\ found' = TRUE
    /\ pc' = "ready"
    /\ UNCHANGED <<lat, i, bestCost, prev>>

\* top has reached the first token: next() returns true.
Found(top) ==
    /\ pc = "search"
    /\ At(top) = 0
    /\ agenda' = agenda \ {top}
    /\ result' = [x \in Tokens(lat) |-> top.seq[x + 1]]
    /\ cost' = top.gx
    /\ found' = TRUE
    /\ pc' = "ready"
    /\ UNCHANGED <<lat, i, bestCost, prev>>

\* The agenda is empty: next() returns false.
Exhausted ==
    /\ pc = "search"
    /\ agenda = {}
    /\ found' = FALSE
    /\ pc' = "ready"
    /\ UNCHANGED <<lat, i, bestCost, prev, agenda, result, cost>>

\* The next sentence is read and its lattice built; clear() keeps the agenda.
NewSentence ==
    /\ pc = "ready"
    /\ pc' = "viterbi"
    /\ lat' \in Lattices
    /\ i' = 0
    /\ bestCost' = Zeros(lat')
    /\ prev' = Zeros(lat')
    /\ result' = [x \in Tokens(lat') |-> 0]
    /\ cost' = 0
    /\ found' = FALSE
    /\ UNCHANGED agenda

Decode == FirstColumn \/ Column \/ Backtrack \/ InitNbest

Search == Exhausted \/ \E top \in Tops : Expand(top) \/ Found(top)

Next == Decode \/ Call \/ Search \/ NewSentence

Spec == Init /\ [][Next]_vars

\* parse and next run to their end; nobody has to call them.
FairSpec == Spec /\ WF_vars(Decode) /\ WF_vars(Search)

-----------------------------------------------------------------------------

Element == [seq : Seq(Labels), gx : Int, fx : Int]

TypeOK ==
    /\ pc \in {"viterbi", "parsed", "ready", "search"}
    /\ lat \in Lattices
    /\ i \in 0 .. lat.len
    /\ bestCost \in [Tokens(lat) -> [Labels -> Int]]
    /\ prev \in [Tokens(lat) -> [Labels -> Labels]]
    /\ agenda \subseteq Element
    /\ pc \in {"ready", "search"} => \A e \in agenda : At(e) \in Tokens(lat)
    /\ result \in [Tokens(lat) -> Labels]
    /\ cost \in Int
    /\ found \in BOOLEAN

\* A tagging extends an element when it ends with the element's labels.
Extends(y, e) == \A j \in 1 .. Len(e.seq) : y[At(e) + j - 1] = e.seq[j]

\* A tagging is still to come when the agenda has one of its ends.
Pending(y) == \E e \in agenda : Extends(y, e)

Definition == INSTANCE BestPaths WITH
    status <- IF pc \in {"viterbi", "parsed"} THEN "parsing" ELSE "ready",
    left <- IF pc \in {"viterbi", "parsed"}
            THEN {}
            ELSE {y \in [Tokens(lat) -> Labels] : Pending(y)},
    result <- IF pc \in {"viterbi", "parsed"} THEN [x \in {} |-> 0] ELSE result,
    cost <- IF pc \in {"viterbi", "parsed"} THEN 0 ELSE cost

(***************************************************************************)
(* fx is what the cheapest tagging that ends like the element really costs *)
(* (Definition says what a tagging costs), so the search loses no time on  *)
(* a tagging that is not among the n best, and never skips one.            *)
(***************************************************************************)
EstimatesExact ==
    pc \in {"ready", "search"} =>
        \A e \in agenda :
            LET ends == {y \in [Tokens(lat) -> Labels] : Extends(y, e)} IN
            /\ \A y \in ends : e.fx <= Definition!CostOf(lat, y)
            /\ \E y \in ends : e.fx = Definition!CostOf(lat, y)

(***************************************************************************)
(* The costs next() reports never go down, from viterbi's own on.          *)
(***************************************************************************)
CostsAscend == [][pc = "search" => cost' >= cost]_vars

(***************************************************************************)
(* A call of next() returns, and so does parse().                          *)
(***************************************************************************)
Answers == pc # "ready" ~> pc = "ready"

(***************************************************************************)
(* parse() and next() together return what the definition of the n best    *)
(* taggings asks for, sentence after sentence.                             *)
(***************************************************************************)
EnumeratesBest == Definition!Spec

=============================================================================
