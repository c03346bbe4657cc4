----------------------------- MODULE BestPaths -----------------------------
(***************************************************************************)
(* What a Tagger with the option -n promises: parse() finds a tagging of   *)
(* least cost, and each next() after it returns one more tagging, each one *)
(* once, in order of cost, until there is none left.                       *)
(*                                                                         *)
(* A tagging gives every token of the sentence a label.  Its cost is minus *)
(* the sum of the scores of its nodes and of the paths between them.       *)
(***************************************************************************)
EXTENDS Integers, FiniteSets, FiniteSetsExt

CONSTANTS ysize,   \* the number of labels
          Lattices \* the sentences, as [len, node, path] with their scores

Labels == 0 .. ysize - 1

VARIABLES status,   \* "parsing", or "ready" for next()
          lat,      \* the sentence's lattice
          left,     \* the taggings next() has not returned yet
          result,   \* the tagging found last
          cost,     \* its cost
          found     \* what parse() or next() returned last

vars == <<status, lat, left, result, cost, found>>

Tokens(lt) == 0 .. lt.len - 1

Taggings(lt) == [Tokens(lt) -> Labels]

CostOf(lt, y) ==
    - MapThenSumSet(LAMBDA x : lt.node[x][y[x]], Tokens(lt))
    - MapThenSumSet(LAMBDA x : lt.path[x][y[x - 1]][y[x]], 1 .. lt.len - 1)

\* No tagging in Y costs less than y.
Cheapest(lt, Y) == {y \in Y : \A z \in Y : CostOf(lt, y) <= CostOf(lt, z)}

Nothing == [x \in {} |-> 0]

Begun ==
    /\ status = "parsing"
    /\ left = {}
    /\ result = Nothing
    /\ cost = 0
    /\ found = FALSE

Init == lat \in Lattices /\ Begun

Parse ==
    /\ status = "parsing"
    /\ status' = "ready"
    /\ result' \in Cheapest(lat, Taggings(lat))
    /\ cost' = CostOf(lat, result')
    /\ left' = Taggings(lat)
    /\ found' = TRUE
    /\ UNCHANGED lat

NextFound ==
    /\ status = "ready"
    /\ left # {}
    /\ result' \in Cheapest(lat, left)
    /\ cost' = CostOf(lat, result')
    /\ left' = left \ {result'}
    /\ found' = TRUE
    /\ UNCHANGED <<status, lat>>

NoneLeft ==
    /\ status = "ready"
    /\ left = {}
    /\ found' = FALSE
    /\ UNCHANGED <<status, lat, left, result, cost>>

NewSentence ==
    /\ status = "ready"
    /\ lat' \in Lattices
    /\ Begun'

Next == Parse \/ NextFound \/ NoneLeft \/ NewSentence

Spec == Init /\ [][Next]_vars

=============================================================================
