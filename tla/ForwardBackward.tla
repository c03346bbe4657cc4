-------------------------- MODULE ForwardBackward ---------------------------
(***************************************************************************)
(* The sums over all taggings of a sentence, as forwardbackward() and      *)
(* gradient() of tagger.cpp compute them from the nodes and paths that     *)
(* viterbi searches: logsumexp and exp turn scores into products and sums  *)
(* of positive numbers, which stand here in place of their logarithms.     *)
(***************************************************************************)
EXTENDS NBest, Functions

CONSTANT Exp(_)  \* exp of a score; which positive number it is does not matter

ASSUME ExpAssumption ==
    \A lt \in Lattices :
        /\ \A x \in Tokens(lt), y \in Labels : Exp(lt.node[x][y]) \in Nat \ {0}
        /\ \A x \in 1 .. lt.len - 1, l, y \in Labels :
             Exp(lt.path[x][l][y]) \in Nat \ {0}

\* calcAlpha, token after token.
Alpha(lt) ==
    LET A[x \in Tokens(lt)] ==
          [y \in Labels |->
             Exp(lt.node[x][y]) *
               (IF x = 0 THEN 1
                ELSE SumFunction([l \in Labels |-> Exp(lt.path[x][l][y]) * A[x - 1][l]]))]
    IN A

\* calcBeta, from the last token back.
Beta(lt) ==
    LET B[x \in Tokens(lt)] ==
          [y \in Labels |->
             Exp(lt.node[x][y]) *
               (IF x = lt.len - 1 THEN 1
                ELSE SumFunction([r \in Labels |-> Exp(lt.path[x + 1][y][r]) * B[x + 1][r]]))]
    IN B

Z(lt) == SumFunction([y \in Labels |-> Beta(lt)[0][y]])

\* What Node::calcExpectation and Path::calcExpectation add to the cells of
\* their features, times Z.

\* Mutant of NodeExpectation: the node's own score counts twice.
NodeExpectationTwice(lt, x, y) == Alpha(lt)[x][y] * Beta(lt)[x][y]

NodeExpectation(lt, x, y) ==
    (Alpha(lt)[x][y] * Beta(lt)[x][y]) \div Exp(lt.node[x][y])

PathExpectation(lt, x, l, r) ==
    Alpha(lt)[x - 1][l] * Exp(lt.path[x][l][r]) * Beta(lt)[x][r]

\* Tokens at even places have one unigram feature, those at odd places
\* another; there is one bigram feature.  A cell of the gradient belongs to a
\* unigram feature and a label, or to two labels.
Feature(x) == x % 2

\* gradient() with expected at zero before it: expectations are added, then
\* the features of the answer are taken away, a path where both ends agree.
UnigramGradient(lt, answer, f, y) ==
    SumFunction([x \in {x \in Tokens(lt) : Feature(x) = f} |->
        NodeExpectation(lt, x, y) - (IF answer[x] = y THEN Z(lt) ELSE 0)])

BigramGradient(lt, answer, l, r) ==
    SumFunction([x \in 1 .. lt.len - 1 |->
        PathExpectation(lt, x, l, r)
          - (IF answer[x - 1] = l /\ answer[x] = r THEN Z(lt) ELSE 0)])

-----------------------------------------------------------------------------
\* The reference: every tagging by itself.

Taggings(lt) == [Tokens(lt) -> Labels]

\* The product of exp over the tagging's nodes and paths.
Weight(lt, t) ==
    LET W[x \in Tokens(lt)] ==
          Exp(lt.node[x][t[x]]) *
            (IF x = 0 THEN 1 ELSE Exp(lt.path[x][t[x - 1]][t[x]]) * W[x - 1])
    IN W[lt.len - 1]

UnigramCount(lt, t, f, y) == Cardinality({x \in Tokens(lt) : Feature(x) = f /\ t[x] = y})

BigramCount(lt, t, l, r) ==
    Cardinality({x \in 1 .. lt.len - 1 : t[x - 1] = l /\ t[x] = r})

\* Whatever the answer is, each cell of the gradient of a sentence is the
\* expected number of its feature under the model minus the number in the
\* answer (gradient at tagger.cpp:589, calcAlpha, calcBeta and
\* calcExpectation in node.cpp and path.cpp), here times Z.  It speaks of the
\* lattice alone, so it is looked at where a tagger starts with it.
GradientIsExpectation ==
    pc = "viterbi" /\ i = 0 /\ agenda = {} =>
        LET weight == [t \in Taggings(lat) |-> Weight(lat, t)]
        IN \A answer \in Taggings(lat) :
             /\ \A f \in {0, 1}, y \in Labels :
                  UnigramGradient(lat, answer, f, y) =
                    SumFunction([t \in Taggings(lat) |->
                        weight[t] * (UnigramCount(lat, t, f, y)
                                      - UnigramCount(lat, answer, f, y))])
             /\ \A l, r \in Labels :
                  BigramGradient(lat, answer, l, r) =
                    SumFunction([t \in Taggings(lat) |->
                        weight[t] * (BigramCount(lat, t, l, r)
                                      - BigramCount(lat, answer, l, r))])

=============================================================================
