---------------------------- MODULE NBestProofs ----------------------------
(***************************************************************************)
(* parse() and next() return the taggings of a sentence in the order of    *)
(* what they cost, each one once (EnumeratesBest), for every number of     *)
(* labels and every lattice.                                               *)
(*                                                                         *)
(* Two invariants carry the proof.  IInv says what viterbi bounds: after   *)
(* it, bestCost of a node is at least what any left neighbour offers       *)
(* (ColumnBest), so an element never has a child of lower fx; and an       *)
(* element's gx and fx differ by what viterbi has found left of its node,  *)
(* which is nothing at the first token (Consistent), so what is reported   *)
(* there is the fx that the agenda was ordered by.  That the costs ascend  *)
(* follows.  Exact says what is reached: prev leads to the left neighbour  *)
(* a node owes its score to (Traced), so viterbi's own tagging costs what  *)
(* it reports; gx is the cost of the element's chain (Weighed); and no     *)
(* tagging ends like two elements of the agenda (Exclusive).               *)
(*                                                                         *)
(* The gradient of a sentence is a third result (GradientIsExact), about   *)
(* the lattice alone.  Forwards and Backwards say that alpha and beta are  *)
(* sums over the taggings of the tokens before and behind a node, by       *)
(* induction over the tokens; so the expectation of a node or a path is    *)
(* the weight of the taggings through it (Expectations), and a cell of the *)
(* gradient, added up place by place, is the same added up tagging by      *)
(* tagging (CellSum).                                                      *)
(*                                                                         *)
(* A tagging's cost is defined as a fold over sets.  Its value is reached  *)
(* by induction over the size of a set, and the induction by the least     *)
(* number of a set of numbers (LeastNat).                                  *)
(***************************************************************************)
EXTENDS ForwardBackward, FiniteSetTheorems, TLAPS

-----------------------------------------------------------------------------
(* Induction, and sums over finite sets. *)

LEMMA LeastNat ==
    ASSUME NEW T \in SUBSET Nat, T # {}
    PROVE \E n \in T : \A m \in T : n <= m
<1> DEFINE B == {0 .. n : n \in T}
<1>1. B \subseteq FiniteSubsetsOf(Nat)
  <2>1. \A n \in T : IsFiniteSet(0 .. n) /\ 0 .. n \in SUBSET Nat
    BY FS_Interval
  <2> QED BY <2>1 DEF FiniteSubsetsOf
<1>2. B # {}
  OBVIOUS
<1>3. IsWellFoundedOn(StrictSubsetOrdering(Nat), FiniteSubsetsOf(Nat))
  BY FS_StrictSubsetOrderingWellFounded
<1> HIDE DEF B
<1>4. PICK b \in B : \A c \in B : ~(<<c, b>> \in StrictSubsetOrdering(Nat))
  BY <1>1, <1>2, <1>3, WFMin, Zenon
<1>5. PICK n \in T : b = 0 .. n
  BY DEF B
<1>6. ASSUME NEW m \in T, m < n PROVE FALSE
  <2>1. 0 .. m \in B
    BY DEF B
  <2>2. 0 .. m \subseteq 0 .. n /\ 0 .. m # 0 .. n
    <3>1. n \in 0 .. n /\ n \notin 0 .. m
      BY <1>6
    <3>2. 0 .. m \subseteq 0 .. n
      BY <1>6
    <3> QED BY <3>1, <3>2
  <2>3. <<0 .. m, 0 .. n>> \in StrictSubsetOrdering(Nat)
    <3>1. 0 .. m \in SUBSET Nat /\ 0 .. n \in SUBSET Nat
      OBVIOUS
    <3> QED BY <2>2, <3>1 DEF StrictSubsetOrdering
  <2> QED BY <1>4, <1>5, <2>1, <2>3
<1> QED BY <1>5, <1>6

LEMMA NatSetInduction ==
    ASSUME NEW T \in SUBSET Nat, 0 \in T, \A n \in T : n + 1 \in T
    PROVE  T = Nat
<1>1. SUFFICES ASSUME Nat \ T # {} PROVE FALSE
    OBVIOUS
<1>2. PICK n \in Nat \ T : \A m \in Nat \ T : n <= m
    BY <1>1, LeastNat
<1>3. n - 1 \in Nat /\ n - 1 \notin Nat \ T
    BY <1>2
<1> QED
    BY <1>2, <1>3

\* The element a sum takes first.
Pick(s) == CHOOSE x \in s : TRUE

\* it is the sum of g over each part of S, taken that way.
IsSum(S, g, it) ==
    it = [s \in SUBSET S |->
            IF s = {} THEN 0 ELSE g[Pick(s)] + it[s \ {Pick(s)}]]

LEMMA SubsetCards ==
    ASSUME NEW S, IsFiniteSet(S)
    PROVE  \A s \in SUBSET S :
             /\ Cardinality(s) \in Nat
             /\ Cardinality(s) = 0 <=> s = {}
             /\ \A x \in s : Cardinality(s \ {x}) = Cardinality(s) - 1
             /\ s # {} => Pick(s) \in s
<1> SUFFICES ASSUME NEW s \in SUBSET S
             PROVE  /\ Cardinality(s) \in Nat
                    /\ Cardinality(s) = 0 <=> s = {}
                    /\ \A x \in s : Cardinality(s \ {x}) = Cardinality(s) - 1
                    /\ s # {} => Pick(s) \in s
    OBVIOUS
<1>1. IsFiniteSet(s)
    BY FS_Subset
<1>2. Cardinality(s) \in Nat /\ (Cardinality(s) = 0 <=> s = {})
    BY <1>1, FS_CardinalityType, FS_EmptySet
<1>3. \A x \in s : Cardinality(s \ {x}) = Cardinality(s) - 1
    BY <1>1, FS_RemoveElement
<1>4. s # {} => Pick(s) \in s
    BY DEF Pick
<1> QED
    BY <1>2, <1>3, <1>4

LEMMA SumExists ==
    ASSUME NEW S, IsFiniteSet(S), NEW g \in [S -> Int]
    PROVE  \E it : IsSum(S, g, it)
<1> DEFINE D(k) == {s \in SUBSET S : Cardinality(s) <= k}
           Good(k, f) ==
               /\ f \in [D(k) -> Int]
               /\ \A s \in D(k) :
                    f[s] = IF s = {} THEN 0 ELSE g[Pick(s)] + f[s \ {Pick(s)}]
           T == {k \in Nat : \E f : Good(k, f)}
<1>1. 0 \in T
    <2> DEFINE f == [s \in D(0) |-> 0]
    <2>1. \A s \in D(0) : s = {}
        BY SubsetCards
    <2>2. Good(0, f)
        BY <2>1
    <2> QED
        BY <2>2
<1>2. ASSUME NEW k \in T PROVE k + 1 \in T
    <2>1. PICK f : Good(k, f)
        OBVIOUS
    <2> DEFINE h == [s \in D(k + 1) |->
                       IF s = {} THEN 0 ELSE g[Pick(s)] + f[s \ {Pick(s)}]]
    <2>2. \A s \in D(k + 1) :
            s # {} => Pick(s) \in s /\ Pick(s) \in S /\ s \ {Pick(s)} \in D(k)
        BY SubsetCards
    <2>3. h \in [D(k + 1) -> Int]
        BY <2>1, <2>2
    <2>4. \A s \in D(k) : s \in D(k + 1) /\ h[s] = f[s]
        BY <2>1, SubsetCards
    <2>5. \A s \in D(k + 1) :
            h[s] = IF s = {} THEN 0 ELSE g[Pick(s)] + h[s \ {Pick(s)}]
        BY <2>2, <2>4
    <2>6. Good(k + 1, h)
        BY <2>3, <2>5
    <2> HIDE DEF Good, h
    <2>7. k + 1 \in Nat
        OBVIOUS
    <2> QED
        BY <2>6, <2>7
<1>3. T = Nat
    <2> HIDE DEF T
    <2>1. T \in SUBSET Nat
        BY DEF T
    <2> QED
        BY <1>1, <1>2, <2>1, NatSetInduction
<1>4. D(Cardinality(S)) = SUBSET S /\ Cardinality(S) \in Nat
    BY FS_Subset, FS_CardinalityType
<1>5. PICK f : Good(Cardinality(S), f)
    BY <1>3, <1>4
<1>6. IsSum(S, g, f)
    BY <1>4, <1>5 DEF IsSum
<1> QED
    BY <1>6

LEMMA SumTypes ==
    ASSUME NEW S, IsFiniteSet(S), NEW g \in [S -> Int], NEW it, IsSum(S, g, it)
    PROVE  it[{}] = 0 /\ \A s \in SUBSET S : it[s] \in Int
<1> DEFINE T == {k \in Nat : \A s \in SUBSET S : Cardinality(s) = k => it[s] \in Int}
<1>1. it[{}] = 0 /\ \A s \in SUBSET S : s # {} => it[s] = g[Pick(s)] + it[s \ {Pick(s)}]
    BY DEF IsSum
<1>2. 0 \in T
    <2>1. \A s \in SUBSET S : Cardinality(s) = 0 => it[s] = 0
        BY <1>1, SubsetCards
    <2> QED
        BY <2>1
<1>3. ASSUME NEW k \in T PROVE k + 1 \in T
    <2> SUFFICES ASSUME NEW s \in SUBSET S, Cardinality(s) = k + 1 PROVE it[s] \in Int
        OBVIOUS
    <2>1. /\ s # {} /\ Pick(s) \in S
          /\ s \ {Pick(s)} \in SUBSET S /\ Cardinality(s \ {Pick(s)}) = k
        BY SubsetCards
    <2>2. it[s \ {Pick(s)}] \in Int /\ g[Pick(s)] \in Int
        BY <2>1
    <2>3. it[s] = g[Pick(s)] + it[s \ {Pick(s)}]
        BY <1>1, <2>1
    <2> HIDE DEF T
    <2> QED
        BY <2>2, <2>3
<1>4. T = Nat
    <2> HIDE DEF T
    <2>1. T \in SUBSET Nat
        BY DEF T
    <2> QED
        BY <1>2, <1>3, <2>1, NatSetInduction
<1> QED
    BY <1>1, <1>4, SubsetCards

\* The sum does not depend on which element is taken first.
LEMMA SumAdds ==
    ASSUME NEW S, IsFiniteSet(S), NEW g \in [S -> Int], NEW it, IsSum(S, g, it),
           NEW r \in SUBSET S, NEW a \in S \ r
    PROVE  it[r \cup {a}] = g[a] + it[r]
<1>1. it[{}] = 0 /\ \A s \in SUBSET S : s # {} => it[s] = g[Pick(s)] + it[s \ {Pick(s)}]
    BY DEF IsSum
<1> DEFINE T == {k \in Nat : \A s \in SUBSET S : \A b \in S \ s :
                   Cardinality(s) = k => it[s \cup {b}] = g[b] + it[s]}
<1>2. 0 \in T
    <2> SUFFICES ASSUME NEW b \in S PROVE it[{b}] = g[b] + it[{}]
        BY SubsetCards
    <2>1. Pick({b}) = b
        BY DEF Pick
    <2>2. {b} \ {b} = {} /\ {b} # {}
        OBVIOUS
    <2> QED
        BY <1>1, <2>1, <2>2
<1>3. ASSUME NEW k \in T PROVE k + 1 \in T
    <2> SUFFICES ASSUME NEW s \in SUBSET S, NEW b \in S \ s, Cardinality(s) = k + 1
                 PROVE  it[s \cup {b}] = g[b] + it[s]
        OBVIOUS
    <2> DEFINE c == Pick(s \cup {b})
    <2>1. s \cup {b} \in SUBSET S /\ s \cup {b} # {} /\ c \in s \cup {b}
        BY DEF Pick
    <2>2. it[s \cup {b}] = g[c] + it[(s \cup {b}) \ {c}]
        BY <1>1, <2>1
    <2>3. CASE c = b
        <3>1. (s \cup {b}) \ {c} = s
            BY <2>3
        <3> QED
            BY <2>2, <2>3, <3>1
    <2>4. CASE c # b
        <3> HIDE DEF c
        <3>1. c \in s /\ c \in S
            BY <2>1, <2>4
        <3> DEFINE q == s \ {c}
        <3>2. q \in SUBSET S /\ Cardinality(q) = k /\ b \in S \ q /\ c \in S \ q
            BY <3>1, SubsetCards
        <3>3. (s \cup {b}) \ {c} = q \cup {b} /\ q \cup {c} = s
            BY <2>4, <3>1
        <3> HIDE DEF q
        <3>4. it[q \cup {b}] = g[b] + it[q] /\ it[q \cup {c}] = g[c] + it[q]
            BY <3>2
        <3>5. g[b] \in Int /\ g[c] \in Int /\ it[q] \in Int
            BY <3>1, <3>2, SumTypes
        <3>6. it[s \cup {b}] = g[c] + (g[b] + it[q]) /\ it[s] = g[c] + it[q]
            BY <2>2, <3>3, <3>4
        <3> HIDE DEF T
        <3> QED
            BY <3>5, <3>6
    <2> QED
        BY <2>3, <2>4
<1>4. T = Nat
    <2> HIDE DEF T
    <2>1. T \in SUBSET Nat
        BY DEF T
    <2> QED
        BY <1>2, <1>3, <2>1, NatSetInduction
<1> QED
    BY <1>4, SubsetCards

\* What a sum is, in any order.
Additive(S, g, it) ==
    /\ it[{}] = 0
    /\ \A r \in SUBSET S : it[r] \in Int
    /\ \A r \in SUBSET S, a \in S : a \notin r => it[r \cup {a}] = g[a] + it[r]

LEMMA SumAdditive ==
    ASSUME NEW S, IsFiniteSet(S), NEW g \in [S -> Int], NEW it, IsSum(S, g, it)
    PROVE  Additive(S, g, it)
<1>1. ASSUME NEW r \in SUBSET S, NEW a \in S, a \notin r
      PROVE  it[r \cup {a}] = g[a] + it[r]
    <2>1. a \in S \ r
        BY <1>1
    <2> QED
        BY <2>1, SumAdds
<1>2. it[{}] = 0 /\ \A r \in SUBSET S : it[r] \in Int
    BY SumTypes
<1> QED
    BY <1>1, <1>2 DEF Additive

-----------------------------------------------------------------------------
(* Sums that SumFunction takes. *)

\* Induction over the subsets of a finite set.
LEMMA SubsetInduction ==
    ASSUME NEW S, IsFiniteSet(S), NEW P \in SUBSET SUBSET S,
           {} \in P, \A A \in P, x \in S : x \notin A => A \cup {x} \in P
    PROVE  S \in P
<1> DEFINE T == {k \in Nat : \A s \in SUBSET S : Cardinality(s) = k => s \in P}
<1>1. 0 \in T
    BY SubsetCards
<1>2. ASSUME NEW k \in T PROVE k + 1 \in T
    <2> SUFFICES ASSUME NEW s \in SUBSET S, Cardinality(s) = k + 1 PROVE s \in P
        OBVIOUS
    <2>1. /\ s # {} /\ Pick(s) \in s /\ Pick(s) \in S
          /\ s \ {Pick(s)} \in SUBSET S /\ Cardinality(s \ {Pick(s)}) = k
        BY SubsetCards
    <2>2. s \ {Pick(s)} \in P
        BY <2>1
    <2>3. (s \ {Pick(s)}) \cup {Pick(s)} = s /\ Pick(s) \notin s \ {Pick(s)}
        BY <2>1
    <2> QED
        BY <2>1, <2>2, <2>3
<1>3. T = Nat
    <2> HIDE DEF T
    <2>1. T \in SUBSET Nat
        BY DEF T
    <2> QED
        BY <1>1, <1>2, <2>1, NatSetInduction
<1> QED
    BY <1>3, SubsetCards

\* SumFunction takes the elements in the order of Pick.
LEMMA SumFold ==
    ASSUME NEW S, IsFiniteSet(S), NEW f \in [S -> Int]
    PROVE  \E it : IsSum(S, f, it) /\ SumFunction(f) = it[S]
<1> DEFINE n == CHOOSE n : n = [s \in SUBSET DOMAIN f |->
                  IF s = {} THEN 0
                  ELSE LET x == CHOOSE x \in s : TRUE
                       IN  f[x] + n[s \ {x}]]
<1>1. SumFunction(f) = n[DOMAIN f]
    BY Zenon DEF SumFunction, SumFunctionOnSet, FoldFunctionOnSet, MapThenFoldSet
<1>2. PICK m : IsSum(S, f, m)
    BY SumExists
<1>3. DOMAIN f = S
    OBVIOUS
<1>4. IsSum(S, f, n)
    <2>1. m = [s \in SUBSET DOMAIN f |->
                  IF s = {} THEN 0
                  ELSE LET x == CHOOSE x \in s : TRUE
                       IN  f[x] + m[s \ {x}]]
        BY <1>2, <1>3, Zenon DEF IsSum, Pick
    <2>2. n = [s \in SUBSET DOMAIN f |->
                  IF s = {} THEN 0
                  ELSE LET x == CHOOSE x \in s : TRUE
                       IN  f[x] + n[s \ {x}]]
        BY <2>1, ZenonT(60)
    <2> HIDE DEF n
    <2> QED
        BY <1>3, <2>2, Zenon DEF IsSum, Pick
<1> HIDE DEF n
<1> QED
    BY <1>1, <1>3, <1>4

\* What f is on a part of its domain.
Part(f, s) == [x \in s |-> f[x]]

\* Whatever the order, the sum over a part of a set.
LEMMA SumParts ==
    ASSUME NEW S, IsFiniteSet(S), NEW f \in [S -> Int], NEW it, IsSum(S, f, it),
           NEW R \in SUBSET S
    PROVE  SumFunction(Part(f, R)) = it[R]
<1> DEFINE g == Part(f, R)
<1>1. g \in [R -> Int] /\ \A x \in R : g[x] = f[x]
    BY DEF Part
<1>2. IsFiniteSet(R)
    BY FS_Subset
<1> HIDE DEF g
<1>3. PICK jt : IsSum(R, g, jt) /\ SumFunction(g) = jt[R]
    BY <1>1, <1>2, SumFold
<1>4. Additive(R, g, jt) /\ Additive(S, f, it)
    BY <1>1, <1>2, <1>3, SumAdditive
<1> DEFINE P == {A \in SUBSET R : jt[A] = it[A]}
<1>5. {} \in P
    BY <1>4 DEF Additive
<1>6. ASSUME NEW A \in P, NEW x \in R, x \notin A PROVE A \cup {x} \in P
    <2>1. jt[A \cup {x}] = g[x] + jt[A]
        BY <1>4, <1>6 DEF Additive
    <2>2. it[A \cup {x}] = f[x] + it[A]
        <3>1. A \in SUBSET S /\ x \in S
            OBVIOUS
        <3> QED
            BY <1>4, <1>6, <3>1 DEF Additive
    <2> QED
        BY <1>1, <2>1, <2>2
<1>7. R \in P
    <2> HIDE DEF P
    <2>1. P \in SUBSET SUBSET R
        BY DEF P
    <2> QED
        BY <1>2, <1>5, <1>6, <2>1, SubsetInduction
<1> QED
    BY <1>3, <1>7 DEF g

\* What there is to know of sums.
LEMMA SumNone == ASSUME NEW f \in [{} -> Int] PROVE SumFunction(f) = 0
<1>1. IsFiniteSet({})
    BY FS_EmptySet
<1>2. PICK it : IsSum({}, f, it) /\ SumFunction(f) = it[{}]
    BY <1>1, SumFold
<1> QED
    BY <1>1, <1>2, SumTypes

\* Integers add up to an integer.
LEMMA SumInt ==
    ASSUME NEW S, IsFiniteSet(S), NEW f \in [S -> Int] PROVE SumFunction(f) \in Int
BY SumFold, SumTypes

\* One more element adds its own.
LEMMA SumMore ==
    ASSUME NEW S, IsFiniteSet(S), NEW f \in [S -> Int],
           NEW A \in SUBSET S, NEW a \in S, a \notin A
    PROVE  /\ SumFunction(Part(f, A \cup {a})) = f[a] + SumFunction(Part(f, A))
           /\ SumFunction(Part(f, A)) \in Int /\ f[a] \in Int
<1>1. PICK it : IsSum(S, f, it)
    BY SumExists
<1>2. Additive(S, f, it)
    BY <1>1, SumAdditive
<1>3. it[A \cup {a}] = f[a] + it[A] /\ it[A] \in Int
    BY <1>2 DEF Additive
<1>4. A \cup {a} \in SUBSET S
    OBVIOUS
<1>5. SumFunction(Part(f, A \cup {a})) = it[A \cup {a}] /\ SumFunction(Part(f, A)) = it[A]
    BY <1>1, <1>4, SumParts
<1> QED
    BY <1>3, <1>5

\* The part over nothing, and the part that is the whole.
LEMMA PartNone == ASSUME NEW f PROVE SumFunction(Part(f, {})) = 0
<1>1. Part(f, {}) \in [{} -> Int]
    BY DEF Part
<1> QED
    BY <1>1, SumNone

LEMMA PartAll == ASSUME NEW S, NEW T, NEW f \in [S -> T] PROVE Part(f, S) = f
BY DEF Part

\* The laws of multiplication that the provers are handed one by one.
LEMMA Arithmetic ==
    /\ \A a, b, c \in Int : a * (b + c) = a * b + a * c
    /\ \A a, b, c \in Int : a * (b * c) = (a * b) * c
    /\ \A a, b \in Int : a * b = b * a /\ a * b \in Int
    /\ \A a \in Int : a * 1 = a /\ a * 0 = 0
OBVIOUS

\* A sum of sums of two.
LEMMA SumPlus ==
    ASSUME NEW S, IsFiniteSet(S), NEW f \in [S -> Int], NEW g \in [S -> Int],
           NEW h \in [S -> Int], \A x \in S : h[x] = f[x] + g[x]
    PROVE  SumFunction(h) = SumFunction(f) + SumFunction(g)
<1> DEFINE P == {A \in SUBSET S : SumFunction(Part(h, A))
                                    = SumFunction(Part(f, A)) + SumFunction(Part(g, A))}
<1>1. {} \in P
    BY PartNone
<1>2. ASSUME NEW A \in P, NEW a \in S, a \notin A PROVE A \cup {a} \in P
    <2>0. A \in SUBSET S
        OBVIOUS
    <2>1. /\ SumFunction(Part(h, A \cup {a})) = h[a] + SumFunction(Part(h, A))
          /\ SumFunction(Part(f, A \cup {a})) = f[a] + SumFunction(Part(f, A))
          /\ SumFunction(Part(g, A \cup {a})) = g[a] + SumFunction(Part(g, A))
          /\ SumFunction(Part(f, A)) \in Int /\ SumFunction(Part(g, A)) \in Int
          /\ f[a] \in Int /\ g[a] \in Int
        BY ONLY IsFiniteSet(S), f \in [S -> Int], g \in [S -> Int], h \in [S -> Int],
                <1>2, <2>0, SumMore
    <2>2. SumFunction(Part(h, A)) = SumFunction(Part(f, A)) + SumFunction(Part(g, A))
        OBVIOUS
    <2>3. SumFunction(Part(h, A \cup {a}))
            = SumFunction(Part(f, A \cup {a})) + SumFunction(Part(g, A \cup {a}))
        BY <2>1, <2>2
    <2> QED
        BY <2>3
<1>3. S \in P
    <2> HIDE DEF P
    <2>1. P \in SUBSET SUBSET S
        BY DEF P
    <2> QED
        BY <1>1, <1>2, <2>1, SubsetInduction
<1> QED
    BY <1>3, PartAll

\* h is c times f.
Scaled(S, h, c, f) ==
    /\ c \in Int /\ f \in [S -> Int] /\ h \in [S -> Int]
    /\ \A x \in S : h[x] = c * f[x]

\* A common factor comes out of a sum.
LEMMA SumTimes ==
    ASSUME NEW S, IsFiniteSet(S), NEW h, NEW c, NEW f, Scaled(S, h, c, f)
    PROVE  SumFunction(h) = c * SumFunction(f)
<1>0. /\ c \in Int /\ f \in [S -> Int] /\ h \in [S -> Int]
      /\ \A x \in S : h[x] = c * f[x]
    BY DEF Scaled
<1> DEFINE P == {A \in SUBSET S : SumFunction(Part(h, A)) = c * SumFunction(Part(f, A))}
<1>1. {} \in P
    <2>1. c * 0 = 0
        BY <1>0
    <2> QED
        BY <2>1, PartNone
<1>2. ASSUME NEW A \in P, NEW a \in S, a \notin A PROVE A \cup {a} \in P
    <2>0. A \in SUBSET S
        OBVIOUS
    <2>1. /\ SumFunction(Part(h, A \cup {a})) = h[a] + SumFunction(Part(h, A))
          /\ SumFunction(Part(f, A \cup {a})) = f[a] + SumFunction(Part(f, A))
          /\ SumFunction(Part(f, A)) \in Int /\ f[a] \in Int
        <3>1. f \in [S -> Int] /\ h \in [S -> Int]
            BY <1>0
        <3> QED
            BY ONLY IsFiniteSet(S), <1>2, <2>0, <3>1, SumMore
    <2>2. SumFunction(Part(h, A)) = c * SumFunction(Part(f, A)) /\ h[a] = c * f[a]
        BY <1>0
    <2>3. c * (f[a] + SumFunction(Part(f, A))) = c * f[a] + c * SumFunction(Part(f, A))
        BY <1>0, <2>1, Arithmetic
    <2>4. SumFunction(Part(h, A \cup {a})) = c * SumFunction(Part(f, A \cup {a}))
        BY <2>1, <2>2, <2>3
    <2> QED
        BY <2>4
<1>3. S \in P
    <2> HIDE DEF P
    <2>1. P \in SUBSET SUBSET S
        BY DEF P
    <2> QED
        BY <1>1, <1>2, <2>1, SubsetInduction
<1> QED
    BY <1>0, <1>3, PartAll

\* A sum of differences.
LEMMA SumMinus ==
    ASSUME NEW S, IsFiniteSet(S), NEW f \in [S -> Int], NEW g \in [S -> Int],
           NEW h \in [S -> Int], \A x \in S : h[x] = f[x] - g[x]
    PROVE  SumFunction(h) = SumFunction(f) - SumFunction(g)
<1>1. \A x \in S : f[x] = h[x] + g[x]
    <2> SUFFICES ASSUME NEW x \in S PROVE f[x] = h[x] + g[x]
        OBVIOUS
    <2>1. f[x] \in Int /\ g[x] \in Int /\ h[x] = f[x] - g[x]
        OBVIOUS
    <2> QED
        BY <2>1
<1>2. SumFunction(f) = SumFunction(h) + SumFunction(g)
    BY <1>1, SumPlus
<1>3. SumFunction(h) \in Int /\ SumFunction(g) \in Int
    BY SumInt
<1> QED
    BY <1>2, <1>3

\* Nothing adds up to nothing.
LEMMA SumZeros ==
    ASSUME NEW S, IsFiniteSet(S), NEW f, f = [x \in S |-> 0] PROVE SumFunction(f) = 0
<1>1. f \in [S -> Int] /\ \A x \in S : f[x] = 0 * f[x]
    OBVIOUS
<1>2. SumFunction(f) = 0 * SumFunction(f) /\ SumFunction(f) \in Int
    BY <1>1, SumTimes, SumInt DEF Scaled
<1> QED
    BY <1>2

\* A table's rows added up, and its columns.
Rows(F, S) == [s \in S |-> SumFunction(F[s])]
Along(F, S, t) == [s \in S |-> F[s][t]]
Columns(F, S, T) == [t \in T |-> SumFunction(Along(F, S, t))]

\* A sum of sums, the other way round.
LEMMA SumSwap ==
    ASSUME NEW S, IsFiniteSet(S), NEW T, IsFiniteSet(T), NEW F \in [S -> [T -> Int]]
    PROVE  SumFunction(Rows(F, S)) = SumFunction(Columns(F, S, T))
<1> DEFINE r == [s \in S |-> SumFunction(F[s])]
           Col(t) == [s \in S |-> F[s][t]]
           c(A) == [t \in T |-> SumFunction(Part(Col(t), A))]
           P == {A \in SUBSET S : SumFunction(Part(r, A)) = SumFunction(c(A))}
<1>1. r \in [S -> Int]
    BY SumInt
<1>2. \A t \in T : Col(t) \in [S -> Int]
    OBVIOUS
<1>3. {} \in P
    <2>1. c({}) = [t \in T |-> 0]
        BY PartNone
    <2> QED
        BY <2>1, SumZeros, PartNone
<1>4. ASSUME NEW A \in P, NEW a \in S, a \notin A PROVE A \cup {a} \in P
    <2>0. A \in SUBSET S
        OBVIOUS
    <2>1. SumFunction(Part(r, A \cup {a})) = r[a] + SumFunction(Part(r, A))
        <3> HIDE DEF r, P
        <3> QED
            BY <1>1, <1>4, <2>0, SumMore
    <2>2. ASSUME NEW t \in T
          PROVE  /\ c(A \cup {a})[t] = F[a][t] + c(A)[t]
                 /\ c(A)[t] \in Int /\ F[a][t] \in Int
        <3> DEFINE g == Col(t)
        <3>1. g \in [S -> Int] /\ g[a] = F[a][t]
            BY <1>2
        <3> HIDE DEF g
        <3>2. /\ SumFunction(Part(g, A \cup {a})) = g[a] + SumFunction(Part(g, A))
              /\ SumFunction(Part(g, A)) \in Int /\ g[a] \in Int
            BY <1>4, <3>1, SumMore
        <3> QED
            BY <3>1, <3>2 DEF g
    <2> DEFINE d == c(A)
               e == c(A \cup {a})
    <2>3. d \in [T -> Int] /\ F[a] \in [T -> Int] /\ e \in [T -> Int]
        <3>1. \A t \in T : e[t] \in Int /\ d[t] \in Int
            <4> SUFFICES ASSUME NEW t \in T PROVE e[t] \in Int /\ d[t] \in Int
                OBVIOUS
            <4>1. e[t] = F[a][t] + d[t] /\ d[t] \in Int /\ F[a][t] \in Int
                BY <2>2
            <4> HIDE DEF e, d
            <4> QED
                BY <4>1
        <3> QED
            BY <3>1
    <2>4. \A t \in T : e[t] = F[a][t] + d[t]
        BY <2>2
    <2> HIDE DEF c, d, e
    <2>5. SumFunction(e) = SumFunction(F[a]) + SumFunction(d)
        BY <2>3, <2>4, SumPlus
    <2>6. SumFunction(Part(r, A)) = SumFunction(d) /\ r[a] = SumFunction(F[a])
        BY DEF d
    <2>7. SumFunction(Part(r, A \cup {a})) = SumFunction(e)
        BY <2>1, <2>5, <2>6
    <2> QED
        BY <2>7 DEF e
<1>5. S \in P
    <2> HIDE DEF P
    <2>1. P \in SUBSET SUBSET S
        BY DEF P
    <2> QED
        BY <1>3, <1>4, <2>1, SubsetInduction
<1>6. Part(r, S) = r /\ \A t \in T : Part(Col(t), S) = Col(t)
    BY <1>1, <1>2, PartAll
<1>7. c(S) = [t \in T |-> SumFunction(Col(t))]
    BY <1>6
<1>8. r = Rows(F, S)
    BY DEF Rows
<1>9. c(S) = Columns(F, S, T)
    BY <1>7 DEF Columns, Along
<1> HIDE DEF r, c
<1> QED
    BY <1>5, <1>6, <1>8, <1>9

\* Only one element has something to add.
OnlyAt(S, f, y) ==
    /\ f \in [S -> Int] /\ y \in S
    /\ \A x \in S : x # y => f[x] = 0

\* Then the sum is what that one has.
LEMMA SumSingle ==
    ASSUME NEW S, IsFiniteSet(S), NEW f, NEW y, OnlyAt(S, f, y)
    PROVE  SumFunction(f) = f[y]
<1>0. /\ f \in [S -> Int] /\ y \in S
      /\ \A x \in S : x # y => f[x] = 0
    BY DEF OnlyAt
<1> DEFINE R == S \ {y}
<1>1. IsFiniteSet(R) /\ R \in SUBSET S /\ y \notin R /\ R \cup {y} = S
    BY <1>0, FS_Subset
<1>2. Part(f, R) = [x \in R |-> 0]
    BY <1>0, <1>1 DEF Part
<1> HIDE DEF R
<1>3. SumFunction(Part(f, R)) = 0
    BY <1>1, <1>2, SumZeros
<1>4. /\ SumFunction(Part(f, R \cup {y})) = f[y] + SumFunction(Part(f, R))
      /\ f[y] \in Int
    BY <1>0, <1>1, SumMore
<1>5. Part(f, R \cup {y}) = f
    BY <1>0, <1>1, PartAll
<1> QED
    BY <1>3, <1>4, <1>5

\* What is counted, added up.
LEMMA SumCounts ==
    ASSUME NEW S, IsFiniteSet(S), NEW Q \in SUBSET S,
           NEW f, f = [x \in S |-> IF x \in Q THEN 1 ELSE 0]
    PROVE  SumFunction(f) = Cardinality(Q) /\ Cardinality(Q) \in Nat
<1>1. f \in [S -> Int] /\ \A x \in S : f[x] = IF x \in Q THEN 1 ELSE 0
    OBVIOUS
<1> DEFINE P == {A \in SUBSET S : SumFunction(Part(f, A)) = Cardinality(Q \cap A)}
<1>2. {} \in P
    BY PartNone, FS_EmptySet
<1>3. ASSUME NEW A \in P, NEW a \in S, a \notin A PROVE A \cup {a} \in P
    <2>0. A \in SUBSET S /\ SumFunction(Part(f, A)) = Cardinality(Q \cap A)
        OBVIOUS
    <2>1. SumFunction(Part(f, A \cup {a})) = f[a] + SumFunction(Part(f, A))
        BY ONLY IsFiniteSet(S), <1>1, <1>3, <2>0, SumMore
    <2>2. IsFiniteSet(Q \cap A) /\ Cardinality(Q \cap A) \in Nat
        BY <2>0, FS_Subset, FS_CardinalityType
    <2>3. CASE a \in Q
        <3>1. Q \cap (A \cup {a}) = (Q \cap A) \cup {a} /\ a \notin Q \cap A
            BY <1>3, <2>3
        <3>2. Cardinality(Q \cap (A \cup {a})) = Cardinality(Q \cap A) + 1
            BY <2>2, <3>1, FS_AddElement
        <3> QED
            BY <1>1, <2>0, <2>1, <2>2, <2>3, <3>2
    <2>4. CASE a \notin Q
        <3>1. Q \cap (A \cup {a}) = Q \cap A
            BY <2>4
        <3>2. f[a] = 0
            BY <1>1, <2>4
        <3>3. SumFunction(Part(f, A \cup {a})) = 0 + Cardinality(Q \cap A)
            BY <2>0, <2>1, <3>2, Zenon
        <3>4. SumFunction(Part(f, A \cup {a})) = Cardinality(Q \cap A)
            BY ONLY <2>2, <3>3
        <3> QED
            BY <2>0, <3>1, <3>4
    <2> QED
        BY <2>3, <2>4
<1>4. S \in P
    <2> HIDE DEF P
    <2>1. P \in SUBSET SUBSET S
        BY DEF P
    <2> QED
        BY <1>2, <1>3, <2>1, SubsetInduction
<1>5. Q \cap S = Q /\ IsFiniteSet(Q)
    BY FS_Subset
<1> QED
    BY <1>1, <1>4, <1>5, PartAll, FS_CardinalityType

\* What e names, and what F is there.
Image(e, T) == {e[t] : t \in T}
After(F, e, T) == [t \in T |-> F[e[t]]]

\* The elements of a set, named by another.
LEMMA SumNamed ==
    ASSUME NEW U, IsFiniteSet(U), NEW F \in [U -> Int], NEW V \in SUBSET U,
           NEW T, IsFiniteSet(T), NEW e \in [T -> U],
           \A t, u \in T : e[t] = e[u] => t = u,
           \A t \in T : e[t] \notin V
    PROVE  SumFunction(Part(F, V \cup Image(e, T)))
             = SumFunction(Part(F, V)) + SumFunction(After(F, e, T))
<1> DEFINE g == After(F, e, T)
           W(B) == V \cup Image(e, B)
           P == {B \in SUBSET T : SumFunction(Part(F, W(B)))
                                    = SumFunction(Part(F, V)) + SumFunction(Part(g, B))}
<1>1. g \in [T -> Int] /\ \A t \in T : g[t] = F[e[t]] /\ e[t] \in U
    BY DEF After
<1>2. SumFunction(Part(F, V)) \in Int
    <2>1. IsFiniteSet(V) /\ Part(F, V) \in [V -> Int]
        BY FS_Subset DEF Part
    <2> QED
        BY <2>1, SumInt
<1>3. {} \in P
    <2>1. W({}) = V
        BY DEF Image
    <2> HIDE DEF g, W
    <2>2. SumFunction(Part(g, {})) = 0
        BY PartNone
    <2>3. SumFunction(Part(F, W({}))) = SumFunction(Part(F, V)) + SumFunction(Part(g, {}))
        BY <1>2, <2>1, <2>2
    <2> QED
        BY <2>3
<1>4. ASSUME NEW B \in P, NEW b \in T, b \notin B PROVE B \cup {b} \in P
    <2>1. B \in SUBSET T
          /\ SumFunction(Part(F, W(B))) = SumFunction(Part(F, V)) + SumFunction(Part(g, B))
        OBVIOUS
    <2>2. W(B) \in SUBSET U /\ e[b] \in U /\ e[b] \notin W(B)
        BY <1>1, <1>4, <2>1 DEF Image
    <2>3. W(B \cup {b}) = W(B) \cup {e[b]}
        BY DEF Image
    <2> HIDE DEF W, P, g
    <2>4. SumFunction(Part(F, W(B) \cup {e[b]})) = F[e[b]] + SumFunction(Part(F, W(B)))
        BY <2>2, SumMore
    <2>5. /\ SumFunction(Part(g, B \cup {b})) = g[b] + SumFunction(Part(g, B))
          /\ SumFunction(Part(g, B)) \in Int /\ g[b] \in Int
        BY <1>1, <1>4, <2>1, SumMore
    <2>6. g[b] = F[e[b]]
        BY <1>1
    <2>7. SumFunction(Part(F, W(B \cup {b})))
            = SumFunction(Part(F, V)) + SumFunction(Part(g, B \cup {b}))
        <3>1. SumFunction(Part(F, W(B \cup {b}))) = F[e[b]] + SumFunction(Part(F, W(B)))
            BY <2>3, <2>4
        <3> QED
            BY <1>2, <2>1, <2>5, <2>6, <3>1
    <2>8. B \cup {b} \in SUBSET T
        BY <2>1
    <2> QED
        BY <2>7, <2>8 DEF P
<1>5. T \in P
    <2> HIDE DEF P
    <2>1. P \in SUBSET SUBSET T
        BY DEF P
    <2> QED
        BY <1>3, <1>4, <2>1, SubsetInduction
<1>6. Part(g, T) = g
    BY <1>1, PartAll
<1> QED
    BY <1>5, <1>6

\* Each element of U has one pair as its name.
Names(e, S, T, U) ==
    /\ e \in [S -> [T -> U]]
    /\ \A s, r \in S, t, u \in T : e[s][t] = e[r][u] => s = r /\ t = u
    /\ \A x \in U : \E s \in S, t \in T : e[s][t] = x

\* For each s, the sum over what the pairs with s name.
SumsAfter(F, e, S, T) == [s \in S |-> SumFunction(After(F, e[s], T))]

\* The elements of a set, named by pairs.
LEMMA SumPairs ==
    ASSUME NEW U, IsFiniteSet(U), NEW F \in [U -> Int],
           NEW S, IsFiniteSet(S), NEW T, IsFiniteSet(T), NEW e, Names(e, S, T, U)
    PROVE  SumFunction(F) = SumFunction(SumsAfter(F, e, S, T))
<1> DEFINE G == SumsAfter(F, e, S, T)
           W(A) == UNION {Image(e[s], T) : s \in A}
           P == {A \in SUBSET S : SumFunction(Part(F, W(A))) = SumFunction(Part(G, A))}
<1>0. /\ e \in [S -> [T -> U]]
      /\ \A s, r \in S, t, u \in T : e[s][t] = e[r][u] => s = r /\ t = u
      /\ \A x \in U : \E s \in S, t \in T : e[s][t] = x
    BY DEF Names
<1>1. G \in [S -> Int]
    <2>1. \A s \in S : After(F, e[s], T) \in [T -> Int]
        BY <1>0 DEF After
    <2> QED
        BY <2>1, SumInt DEF SumsAfter
<1>2. {} \in P
    <2>1. W({}) = {}
        OBVIOUS
    <2> QED
        BY <2>1, PartNone
<1>3. ASSUME NEW A \in P, NEW a \in S, a \notin A PROVE A \cup {a} \in P
    <2>1. A \in SUBSET S /\ SumFunction(Part(F, W(A))) = SumFunction(Part(G, A))
        OBVIOUS
    <2> DEFINE d == e[a]
    <2>2. /\ W(A) \in SUBSET U /\ d \in [T -> U]
          /\ \A t, u \in T : d[t] = d[u] => t = u
          /\ \A t \in T : d[t] \notin W(A)
        <3>1. W(A) \in SUBSET U
            BY <1>0, <2>1 DEF Image
        <3>2. d \in [T -> U] /\ \A t, u \in T : d[t] = d[u] => t = u
            BY <1>0
        <3>3. ASSUME NEW t \in T, d[t] \in W(A) PROVE FALSE
            <4>1. PICK s \in A : \E u \in T : d[t] = e[s][u]
                BY <3>3 DEF Image
            <4> QED
                BY <1>0, <1>3, <2>1, <4>1
        <3> QED
            BY <3>1, <3>2, <3>3
    <2>3. W(A \cup {a}) = W(A) \cup Image(d, T)
        OBVIOUS
    <2>4. G[a] = SumFunction(After(F, d, T))
        BY DEF SumsAfter
    <2> HIDE DEF W, P, G, d
    <2>5. SumFunction(Part(F, W(A) \cup Image(d, T)))
            = SumFunction(Part(F, W(A))) + SumFunction(After(F, d, T))
        <3> DEFINE V == W(A)
        <3>1. /\ V \in SUBSET U /\ d \in [T -> U]
              /\ \A t, u \in T : d[t] = d[u] => t = u
              /\ \A t \in T : d[t] \notin V
            BY <2>2
        <3> HIDE DEF V
        <3>2. SumFunction(Part(F, V \cup Image(d, T)))
                = SumFunction(Part(F, V)) + SumFunction(After(F, d, T))
            BY ONLY IsFiniteSet(U), F \in [U -> Int], IsFiniteSet(T), <3>1, SumNamed
        <3> QED
            BY <3>2 DEF V
    <2>6. /\ SumFunction(Part(G, A \cup {a})) = G[a] + SumFunction(Part(G, A))
          /\ SumFunction(Part(G, A)) \in Int /\ G[a] \in Int
        BY <1>1, <1>3, <2>1, SumMore
    <2>7. SumFunction(Part(F, W(A \cup {a}))) = SumFunction(Part(G, A \cup {a}))
        <3>1. SumFunction(Part(F, W(A \cup {a})))
                = SumFunction(Part(F, W(A))) + SumFunction(After(F, d, T))
            BY <2>3, <2>5
        <3> QED
            BY <2>1, <2>4, <2>6, <3>1
    <2>8. A \cup {a} \in SUBSET S
        BY <2>1
    <2> QED
        BY <2>7, <2>8 DEF P
<1>4. S \in P
    <2> HIDE DEF P
    <2>1. P \in SUBSET SUBSET S
        BY DEF P
    <2> QED
        BY <1>2, <1>3, <2>1, SubsetInduction
<1>5. W(S) = U
    BY <1>0 DEF Image
<1>6. Part(F, U) = F /\ Part(G, S) = G
    BY <1>1, PartAll
<1> QED
    BY <1>4, <1>5, <1>6

-----------------------------------------------------------------------------
(* The taggings of a sentence, one token more at a time. *)

\* Token k is given the label l.
Give(s, k, l) == [s EXCEPT ![k] = l]

\* The taggings whose tokens from k on all have the label p.
Padded(n, L, p, k) == {t \in [0 .. n - 1 -> L] : \A x \in k .. n - 1 : t[x] = p}

\* Every token has the label p.
Same(n, p) == [x \in 0 .. n - 1 |-> p]

\* Token k is given a label.
Longer(n, L, p, k) == [s \in Padded(n, L, p, k) |-> [l \in L |-> Give(s, k, l)]]

\* Tagging one token more names each longer tagging once.
LEMMA PaddedStep ==
    ASSUME NEW n \in Nat, NEW L, NEW p \in L, NEW k \in 0 .. n - 1
    PROVE  /\ Names(Longer(n, L, p, k), Padded(n, L, p, k), L, Padded(n, L, p, k + 1))
           /\ \A s \in Padded(n, L, p, k), l \in L :
                /\ Longer(n, L, p, k)[s][l] = Give(s, k, l)
                /\ s \in [0 .. n - 1 -> L] /\ Give(s, k, l) \in [0 .. n - 1 -> L]
                /\ Give(s, k, l)[k] = l
                /\ \A x \in 0 .. k - 1 : Give(s, k, l)[x] = s[x]
<1> DEFINE S == Padded(n, L, p, k)
           T == Padded(n, L, p, k + 1)
           e == Longer(n, L, p, k)
<1>1. ASSUME NEW s \in S, NEW l \in L
      PROVE  /\ Give(s, k, l) \in T
             /\ s \in [0 .. n - 1 -> L] /\ Give(s, k, l) \in [0 .. n - 1 -> L]
             /\ Give(s, k, l)[k] = l
             /\ \A x \in 0 .. k - 1 : Give(s, k, l)[x] = s[x]
    <2> DEFINE t == Give(s, k, l)
    <2>1. s \in [0 .. n - 1 -> L] /\ \A x \in k .. n - 1 : s[x] = p
        BY DEF Padded
    <2>2. t \in [0 .. n - 1 -> L] /\ t[k] = l
        BY <2>1 DEF Give
    <2>3. \A x \in 0 .. n - 1 : x # k => t[x] = s[x]
        BY <2>1 DEF Give
    <2> HIDE DEF t
    <2>4. \A x \in k + 1 .. n - 1 : t[x] = p
        BY <2>1, <2>3
    <2>5. t \in T
        BY <2>2, <2>4 DEF Padded
    <2>6. \A x \in 0 .. k - 1 : t[x] = s[x]
        BY <2>3
    <2> QED
        BY <2>1, <2>2, <2>5, <2>6 DEF t
<1>2. \A s \in S, l \in L : e[s][l] = Give(s, k, l)
    BY DEF Longer
<1>3. e \in [S -> [L -> T]]
    BY <1>1 DEF Longer
<1>4. ASSUME NEW s \in S, NEW r \in S, NEW l \in L, NEW m \in L, e[s][l] = e[r][m]
      PROVE  s = r /\ l = m
    <2>1. Give(s, k, l) = Give(r, k, m)
        BY <1>2, <1>4
    <2>2. /\ s \in [0 .. n - 1 -> L] /\ \A x \in k .. n - 1 : s[x] = p
          /\ r \in [0 .. n - 1 -> L] /\ \A x \in k .. n - 1 : r[x] = p
        BY DEF Padded
    <2>3. l = m /\ \A x \in 0 .. k - 1 : s[x] = r[x]
        <3> DEFINE a == Give(s, k, l)
                   b == Give(r, k, m)
        <3>1. a[k] = l /\ b[k] = m /\ a = b
              /\ \A x \in 0 .. k - 1 : a[x] = s[x] /\ b[x] = r[x]
            BY <1>1, <2>1
        <3> HIDE DEF a, b
        <3> QED
            BY <3>1
    <2>4. ASSUME NEW x \in 0 .. n - 1 PROVE s[x] = r[x]
        <3>1. CASE x \in 0 .. k - 1
            BY <2>3, <3>1
        <3>2. CASE x \in k .. n - 1
            BY <2>2, <3>2
        <3> QED
            BY <3>1, <3>2
    <2> QED
        BY <2>2, <2>3, <2>4
<1>5. ASSUME NEW t \in T PROVE \E s \in S, l \in L : e[s][l] = t
    <2>1. t \in [0 .. n - 1 -> L] /\ \A x \in k + 1 .. n - 1 : t[x] = p
        BY DEF Padded
    <2> DEFINE s == Give(t, k, p)
    <2>2. s \in [0 .. n - 1 -> L] /\ s[k] = p /\ \A x \in 0 .. n - 1 : x # k => s[x] = t[x]
        BY <2>1 DEF Give
    <2>3. t = Give(s, k, t[k]) /\ t[k] \in L
        BY <2>1 DEF Give
    <2> HIDE DEF s
    <2>4. \A x \in k .. n - 1 : s[x] = p
        <3> SUFFICES ASSUME NEW x \in k .. n - 1 PROVE s[x] = p
            OBVIOUS
        <3> QED
            BY <2>1, <2>2
    <2>5. s \in S
        BY <2>2, <2>4 DEF Padded
    <2> QED
        BY <1>2, <2>3, <2>5
<1> HIDE DEF e, S, T
<1>6. /\ Names(e, S, L, T)
      /\ \A s \in S, l \in L :
            /\ e[s][l] = Give(s, k, l)
            /\ s \in [0 .. n - 1 -> L] /\ Give(s, k, l) \in [0 .. n - 1 -> L]
            /\ Give(s, k, l)[k] = l
            /\ \A x \in 0 .. k - 1 : Give(s, k, l)[x] = s[x]
    <2>1. \A s \in S, l \in L :
            /\ e[s][l] = Give(s, k, l)
            /\ s \in [0 .. n - 1 -> L] /\ Give(s, k, l) \in [0 .. n - 1 -> L]
            /\ Give(s, k, l)[k] = l
            /\ \A x \in 0 .. k - 1 : Give(s, k, l)[x] = s[x]
        BY <1>1, <1>2
    <2>2. \A s, r \in S, l, m \in L : e[s][l] = e[r][m] => s = r /\ l = m
        BY <1>4
    <2>3. \A t \in T : \E s \in S, l \in L : e[s][l] = t
        BY <1>5
    <2> QED
        BY <1>3, <2>1, <2>2, <2>3 DEF Names
<1> QED
    BY <1>6, Zenon DEF e, S, T

\* There are finitely many; with no token tagged there is one, and with all
\* tagged there are all the taggings.
LEMMA PaddedFinite ==
    ASSUME NEW n \in Nat, NEW L, IsFiniteSet(L), NEW p \in L
    PROVE  /\ \A k \in 0 .. n : IsFiniteSet(Padded(n, L, p, k))
           /\ Padded(n, L, p, n) = [0 .. n - 1 -> L] /\ IsFiniteSet([0 .. n - 1 -> L])
           /\ Padded(n, L, p, 0) = {Same(n, p)}
<1> DEFINE Q(k) == Padded(n, L, p, k)
           D == {k \in Nat : k <= n => IsFiniteSet(Q(k))}
<1>1. Q(0) = {Same(n, p)}
    <2>1. ASSUME NEW t \in Q(0) PROVE t = Same(n, p)
        BY DEF Padded, Same
    <2>2. Same(n, p) \in Q(0)
        BY DEF Padded, Same
    <2> HIDE DEF Q
    <2> QED
        BY <2>1, <2>2
<1>2. Q(n) = [0 .. n - 1 -> L]
    <2>1. n .. n - 1 = {}
        OBVIOUS
    <2> QED
        BY <2>1 DEF Padded
<1>3. 0 \in D
    BY <1>1, FS_Singleton
<1>4. ASSUME NEW k \in D PROVE k + 1 \in D
    <2> SUFFICES ASSUME k + 1 <= n PROVE IsFiniteSet(Q(k + 1))
        OBVIOUS
    <2>1. k \in 0 .. n - 1 /\ IsFiniteSet(Q(k))
        OBVIOUS
    <2> DEFINE e == Longer(n, L, p, k)
               g == [q \in Q(k) \X L |-> e[q[1]][q[2]]]
    <2>2. /\ e \in [Q(k) -> [L -> Q(k + 1)]]
          /\ \A t \in Q(k + 1) : \E s \in Q(k), l \in L : e[s][l] = t
        BY <2>1, PaddedStep DEF Names
    <2> HIDE DEF e, Q
    <2>3. IsFiniteSet(Q(k) \X L)
        BY <2>1, FS_Product
    <2>4. g \in [Q(k) \X L -> Q(k + 1)]
        BY <2>2
    <2>5. \A t \in Q(k + 1) : \E q \in Q(k) \X L : g[q] = t
        <3> SUFFICES ASSUME NEW t \in Q(k + 1) PROVE \E q \in Q(k) \X L : g[q] = t
            OBVIOUS
        <3>1. PICK s \in Q(k), l \in L : e[s][l] = t
            BY <2>2
        <3>2. <<s, l>> \in Q(k) \X L /\ g[<<s, l>>] = t
            BY <3>1
        <3> QED
            BY <3>2
    <2> HIDE DEF g
    <2>6. g \in Surjection(Q(k) \X L, Q(k + 1))
        BY <2>4, <2>5 DEF Surjection
    <2> QED
        BY <2>3, <2>6, FS_Surjection
<1>5. D = Nat
    <2> HIDE DEF D
    <2>1. D \in SUBSET Nat
        BY DEF D
    <2> QED
        BY <1>3, <1>4, <2>1, NatSetInduction
<1>6. \A k \in 0 .. n : IsFiniteSet(Q(k))
    <2> SUFFICES ASSUME NEW k \in 0 .. n PROVE IsFiniteSet(Q(k))
        OBVIOUS
    <2>1. k \in D /\ k <= n
        BY <1>5
    <2> QED
        BY <2>1
<1>7. n \in 0 .. n
    OBVIOUS
<1> HIDE DEF D
<1>8. IsFiniteSet(Q(n))
    BY <1>6, <1>7
<1> QED
    BY <1>1, <1>2, <1>6, <1>8, Zenon

\* The sum over the taggings of one more token.
LEMMA PaddedSum ==
    ASSUME NEW n \in Nat, NEW L, IsFiniteSet(L), NEW p \in L, NEW k \in 0 .. n - 1,
           NEW F \in [Padded(n, L, p, k + 1) -> Int]
    PROVE  SumFunction(F)
             = SumFunction(SumsAfter(F, Longer(n, L, p, k), Padded(n, L, p, k), L))
<1> DEFINE S == Padded(n, L, p, k)
           U == Padded(n, L, p, k + 1)
           e == Longer(n, L, p, k)
<1>1. IsFiniteSet(S) /\ IsFiniteSet(U)
    <2>1. k \in 0 .. n /\ k + 1 \in 0 .. n
        OBVIOUS
    <2> QED
        BY <2>1, PaddedFinite
<1>2. Names(e, S, L, U)
    BY PaddedStep
<1>3. F \in [U -> Int]
    OBVIOUS
<1> HIDE DEF S, U, e
<1>4. SumFunction(F) = SumFunction(SumsAfter(F, e, S, L))
    BY ONLY IsFiniteSet(L), <1>1, <1>2, <1>3, SumPairs
<1> QED
    BY <1>4 DEF S, e

\* What a tagging of one more token adds is a multiple that its label alone
\* says, and K is those added up.
Factors(n, L, p, k, H, v, M, K) ==
    /\ H \in [Padded(n, L, p, k + 1) -> Int]
    /\ v \in [Padded(n, L, p, k) -> Int]
    /\ M \in [Padded(n, L, p, k) -> [L -> Int]]
    /\ K \in [Padded(n, L, p, k) -> Int]
    /\ \A s \in Padded(n, L, p, k), l \in L : H[Give(s, k, l)] = v[s] * M[s][l]
    /\ \A s \in Padded(n, L, p, k) : K[s] = v[s] * SumFunction(M[s])

\* Then the sum over the longer taggings is a sum over the shorter ones.
LEMMA SumStep ==
    ASSUME NEW n \in Nat, NEW L, IsFiniteSet(L), NEW p \in L, NEW k \in 0 .. n - 1,
           NEW H, NEW v, NEW M, NEW K, Factors(n, L, p, k, H, v, M, K)
    PROVE  SumFunction(H) = SumFunction(K)
<1> DEFINE S == Padded(n, L, p, k)
           U == Padded(n, L, p, k + 1)
           e == Longer(n, L, p, k)
<1>0. /\ H \in [U -> Int] /\ v \in [S -> Int] /\ M \in [S -> [L -> Int]]
      /\ K \in [S -> Int]
      /\ \A s \in S, l \in L : H[Give(s, k, l)] = v[s] * M[s][l]
      /\ \A s \in S : K[s] = v[s] * SumFunction(M[s])
    BY DEF Factors
<1>1. SumFunction(H) = SumFunction(SumsAfter(H, e, S, L))
    BY <1>0, PaddedSum
<1>2. \A s \in S, l \in L : e[s][l] = Give(s, k, l)
    BY DEF Longer
<1>3. e \in [S -> [L -> U]]
    BY PaddedStep DEF Names
<1>4. ASSUME NEW s \in S PROVE SumsAfter(H, e, S, L)[s] = K[s]
    <2> DEFINE d == e[s]
    <2>1. d \in [L -> U] /\ \A l \in L : H[d[l]] = v[s] * M[s][l]
        BY <1>0, <1>2, <1>3
    <2>2. H \in [U -> Int] /\ M[s] \in [L -> Int] /\ v[s] \in Int
        BY <1>0
    <2>3. SumsAfter(H, e, S, L)[s] = SumFunction(After(H, d, L))
        BY DEF SumsAfter
    <2> HIDE DEF d, U
    <2>4. After(H, d, L) \in [L -> Int] /\ \A l \in L : After(H, d, L)[l] = v[s] * M[s][l]
        BY <2>1, <2>2 DEF After
    <2>5. SumFunction(After(H, d, L)) = v[s] * SumFunction(M[s])
        <3> DEFINE c == v[s]
                   f == M[s]
                   h == After(H, d, L)
        <3>1. Scaled(L, h, c, f)
            BY <2>2, <2>4 DEF Scaled
        <3> HIDE DEF c, f, h
        <3>2. SumFunction(h) = c * SumFunction(f)
            BY <3>1, SumTimes
        <3> QED
            BY <3>2 DEF c, f, h
    <2> QED
        BY <1>0, <2>3, <2>5
<1>5. SumsAfter(H, e, S, L) = K
    BY <1>0, <1>4 DEF SumsAfter
<1> QED
    BY <1>1, <1>5

-----------------------------------------------------------------------------
(* Forward and backward sums are sums over the taggings. *)

\* A sentence of n tokens with labels L: u of each node, w of each path.
Setting(n, L, u, w) ==
    /\ n \in Nat \ {0}
    /\ IsFiniteSet(L)
    /\ u \in [0 .. n - 1 -> [L -> Int]]
    /\ w \in [1 .. n - 1 -> [L -> [L -> Int]]]

\* W[t][x] is the product of what t has chosen up to token x.
Products(n, L, u, w, W) ==
    /\ W \in [[0 .. n - 1 -> L] -> [0 .. n - 1 -> Int]]
    /\ \A t \in [0 .. n - 1 -> L] :
         /\ W[t][0] = u[0][t[0]]
         /\ \A x \in 1 .. n - 1 : W[t][x] = u[x][t[x]] * (w[x][t[x - 1]][t[x]] * W[t][x - 1])

\* What the left neighbours of a node bring, and calcAlpha's recursion.
Into(L, w, f, x, y) == [l \in L |-> w[x][l][y] * f[l]]

Forward(n, L, u, w, A) ==
    /\ A \in [0 .. n - 1 -> [L -> Int]]
    /\ \A y \in L : A[0][y] = u[0][y]
    /\ \A x \in 1 .. n - 1, y \in L :
         A[x][y] = u[x][y] * SumFunction(Into(L, w, A[x - 1], x, y))

\* What the right neighbours of a node bring, and calcBeta's recursion
\* without the node's own factor.
OutOf(L, u, w, f, x, y) == [r \in L |-> w[x][y][r] * (u[x][r] * f[r])]

Backward(n, L, u, w, b) ==
    /\ b \in [0 .. n - 1 -> [L -> Int]]
    /\ \A y \in L : b[n - 1][y] = 1
    /\ \A x \in 1 .. n - 1, y \in L :
         b[x - 1][y] = SumFunction(OutOf(L, u, w, b[x], x, y))

\* The same up to token k.
Alike(s, t, k) == \A x \in 0 .. k - 1 : t[x] = s[x]

\* The product up to a token depends on the labels up to it.
LEMMA ProductsLocal ==
    ASSUME NEW n, NEW L, NEW u, NEW w, Setting(n, L, u, w),
           NEW W, Products(n, L, u, w, W),
           NEW s \in [0 .. n - 1 -> L], NEW t \in [0 .. n - 1 -> L], NEW k \in 0 .. n - 1,
           Alike(s, t, k)
    PROVE  Alike(W[s], W[t], k)
<1> DEFINE D == {x \in Nat : x < k => W[t][x] = W[s][x]}
<1>1. n \in Nat \ {0}
    BY DEF Setting
<1> USE DEF Alike
<1>2. 0 \in D
    <2> SUFFICES ASSUME 0 < k PROVE W[t][0] = W[s][0]
        OBVIOUS
    <2>1. t[0] = s[0]
        BY <1>1
    <2> QED
        BY <1>1, <2>1 DEF Products
<1>3. ASSUME NEW x \in D PROVE x + 1 \in D
    <2> SUFFICES ASSUME x + 1 < k PROVE W[t][x + 1] = W[s][x + 1]
        OBVIOUS
    <2>1. W[t][x] = W[s][x] /\ x + 1 \in 1 .. n - 1 /\ (x + 1) - 1 = x
        BY <1>1
    <2>2. t[x] = s[x] /\ t[x + 1] = s[x + 1]
        BY <1>1, <2>1
    <2> HIDE DEF D
    <2> DEFINE z == x + 1
    <2>3. z \in 1 .. n - 1 /\ z - 1 = x /\ t[z] = s[z]
        BY <2>1, <2>2
    <2> HIDE DEF z
    <2>4. /\ W[t][z] = u[z][t[z]] * (w[z][t[z - 1]][t[z]] * W[t][z - 1])
          /\ W[s][z] = u[z][s[z]] * (w[z][s[z - 1]][s[z]] * W[s][z - 1])
        BY <1>1, <2>3 DEF Products
    <2>5. W[t][z] = W[s][z]
        BY <2>1, <2>2, <2>3, <2>4
    <2> QED
        BY <2>5 DEF z
<1>4. D = Nat
    <2> HIDE DEF D
    <2>1. D \in SUBSET Nat
        BY DEF D
    <2> QED
        BY <1>2, <1>3, <2>1, NatSetInduction
<1>5. \A x \in 0 .. k - 1 : W[t][x] = W[s][x]
    BY <1>4
<1> QED
    BY <1>5

\* What giving token k a label makes of the product up to it.
ProductStep(n, L, u, w, W, s, l) ==
    /\ W[Give(s, 0, l)][0] = u[0][l]
    /\ \A k \in 1 .. n - 1 :
         /\ W[Give(s, k, l)][k] = u[k][l] * (w[k][s[k - 1]][l] * W[s][k - 1])
         /\ u[k][l] \in Int /\ w[k][s[k - 1]][l] \in Int /\ W[s][k - 1] \in Int

LEMMA ProductsStep ==
    ASSUME NEW n, NEW L, NEW u, NEW w, Setting(n, L, u, w),
           NEW W, Products(n, L, u, w, W),
           NEW s \in [0 .. n - 1 -> L], NEW l \in L
    PROVE  ProductStep(n, L, u, w, W, s, l)
<1>0. n \in Nat \ {0}
    BY DEF Setting
<1>1. W[Give(s, 0, l)][0] = u[0][l]
    <2>1. Give(s, 0, l) \in [0 .. n - 1 -> L] /\ Give(s, 0, l)[0] = l
        BY <1>0 DEF Give
    <2> QED
        BY <2>1 DEF Products
<1>2. ASSUME NEW k \in 1 .. n - 1
      PROVE  /\ W[Give(s, k, l)][k] = u[k][l] * (w[k][s[k - 1]][l] * W[s][k - 1])
             /\ u[k][l] \in Int /\ w[k][s[k - 1]][l] \in Int /\ W[s][k - 1] \in Int
    <2> DEFINE t == Give(s, k, l)
    <2>1. /\ t \in [0 .. n - 1 -> L] /\ t[k] = l /\ t[k - 1] = s[k - 1]
          /\ k - 1 \in 0 .. n - 1 /\ k \in 0 .. n - 1 /\ s[k - 1] \in L
        BY <1>0 DEF Give
    <2>2. W[t][k - 1] = W[s][k - 1]
        <3>1. Alike(s, t, k)
            BY <1>0 DEF Alike, Give
        <3> HIDE DEF t
        <3>2. Alike(W[s], W[t], k)
            BY <2>1, <3>1, ProductsLocal
        <3> QED
            BY <1>0, <3>2 DEF Alike
    <2> HIDE DEF t
    <2>3. W[t][k] = u[k][t[k]] * (w[k][t[k - 1]][t[k]] * W[t][k - 1])
        BY <2>1 DEF Products
    <2>4. W[t][k] = u[k][l] * (w[k][s[k - 1]][l] * W[s][k - 1])
        BY <2>1, <2>2, <2>3
    <2>5. W[s][k - 1] \in Int
        BY <2>1 DEF Products
    <2>6. u[k][l] \in Int /\ w[k][s[k - 1]][l] \in Int
        BY <2>1 DEF Setting
    <2> QED
        BY <2>4, <2>5, <2>6 DEF t
<1> QED
    BY <1>1, <1>2 DEF ProductStep

\* The products up to k, each times what h says of the label of token k.
Weighted(W, h, k, S) == [s \in S |-> W[s][k] * h[s[k]]]
\* Label by label, f times h.
Both(f, h, L) == [l \in L |-> f[l] * h[l]]
\* What h of token x is, seen from a label of the token before.
Ahead(L, u, w, h, x, m) == [l \in L |-> (u[x][l] * w[x][m][l]) * h[l]]
AheadSums(L, u, w, h, x) == [m \in L |-> SumFunction(Ahead(L, u, w, h, x, m))]

\* calcAlpha's step: asking A of token x is asking A of the token before
\* what h is seen from there.
LEMMA ForwardStep ==
    ASSUME NEW n, NEW L, NEW u, NEW w, Setting(n, L, u, w), NEW A, Forward(n, L, u, w, A),
           NEW x \in 1 .. n - 1, NEW h \in [L -> Int]
    PROVE  /\ AheadSums(L, u, w, h, x) \in [L -> Int]
           /\ SumFunction(Both(A[x - 1], AheadSums(L, u, w, h, x), L))
                = SumFunction(Both(A[x], h, L))
<1> DEFINE q == A[x - 1]
           d == u[x]
           v == w[x]
           g == AheadSums(L, u, w, h, x)
           Row(m) == Ahead(L, u, w, h, x, m)
           F == [m \in L |-> [l \in L |-> q[m] * ((d[l] * v[m][l]) * h[l])]]
<1>1. /\ n \in Nat \ {0} /\ IsFiniteSet(L) /\ x - 1 \in 0 .. n - 1 /\ x \in 0 .. n - 1
      /\ d \in [L -> Int] /\ v \in [L -> [L -> Int]]
    BY DEF Setting
<1>2. q \in [L -> Int]
    BY <1>1 DEF Forward
<1>3. \A m \in L : Row(m) \in [L -> Int] /\ \A l \in L : Row(m)[l] = (d[l] * v[m][l]) * h[l]
    <2> SUFFICES ASSUME NEW m \in L
                 PROVE  Row(m) \in [L -> Int] /\ \A l \in L : Row(m)[l] = (d[l] * v[m][l]) * h[l]
        OBVIOUS
    <2>1. \A l \in L : Row(m)[l] = (d[l] * v[m][l]) * h[l]
        BY DEF Ahead
    <2>2. \A l \in L : Row(m)[l] \in Int
        <3> SUFFICES ASSUME NEW l \in L PROVE Row(m)[l] \in Int
            OBVIOUS
        <3>1. d[l] \in Int /\ v[m][l] \in Int /\ h[l] \in Int
            BY <1>1
        <3>2. (d[l] * v[m][l]) * h[l] \in Int
            BY <3>1
        <3> QED
            BY <2>1, <3>2
    <2> QED
        BY <2>1, <2>2 DEF Ahead
<1>4. g \in [L -> Int] /\ \A m \in L : g[m] = SumFunction(Row(m))
    <2>1. \A m \in L : SumFunction(Row(m)) \in Int
        BY <1>1, <1>3, SumInt
    <2> QED
        BY <2>1 DEF AheadSums
<1>5. \A m, l \in L : F[m][l] = q[m] * ((d[l] * v[m][l]) * h[l]) /\ F[m][l] \in Int
    <2> SUFFICES ASSUME NEW m \in L, NEW l \in L
                 PROVE  F[m][l] = q[m] * ((d[l] * v[m][l]) * h[l]) /\ F[m][l] \in Int
        OBVIOUS
    <2>1. d[l] \in Int /\ v[m][l] \in Int /\ h[l] \in Int /\ q[m] \in Int
        BY <1>1, <1>2
    <2>2. q[m] * ((d[l] * v[m][l]) * h[l]) \in Int
        BY <2>1
    <2> QED
        BY <2>2
<1>6. F \in [L -> [L -> Int]]
    BY <1>5
<1>7. \A m \in L : SumFunction(F[m]) = q[m] * g[m]
    <2> SUFFICES ASSUME NEW m \in L PROVE SumFunction(F[m]) = q[m] * g[m]
        OBVIOUS
    <2> DEFINE c == q[m]
               f == Row(m)
               k == F[m]
    <2>1. c \in Int /\ f \in [L -> Int]
        BY <1>2, <1>3
    <2>2. k \in [L -> Int]
        BY <1>6
    <2>3. \A l \in L : k[l] = c * f[l]
        BY <1>3, <1>5
    <2>4. Scaled(L, k, c, f)
        BY <2>1, <2>2, <2>3 DEF Scaled
    <2>5. g[m] = SumFunction(f)
        BY <1>4
    <2> HIDE DEF c, f, k, g, F
    <2>6. SumFunction(k) = c * SumFunction(f)
        BY <1>1, <2>4, SumTimes
    <2> QED
        BY <2>5, <2>6 DEF c, k
<1>8. Both(q, g, L) = Rows(F, L)
    BY <1>7 DEF Both, Rows
<1>9. ASSUME NEW l \in L PROVE SumFunction(Along(F, L, l)) = A[x][l] * h[l]
    <2> DEFINE c == d[l] * h[l]
               f == Into(L, w, q, x, l)
               k == Along(F, L, l)
    <2>1. d[l] \in Int /\ h[l] \in Int /\ c \in Int
        <3>1. d[l] \in Int /\ h[l] \in Int
            BY <1>1
        <3> QED
            BY <3>1
    <2>2. \A m \in L : f[m] = v[m][l] * q[m] /\ f[m] \in Int
        <3> SUFFICES ASSUME NEW m \in L PROVE f[m] = v[m][l] * q[m] /\ f[m] \in Int
            OBVIOUS
        <3>1. v[m][l] \in Int /\ q[m] \in Int
            BY <1>1, <1>2
        <3>2. f[m] = v[m][l] * q[m]
            BY DEF Into
        <3> HIDE DEF f
        <3> QED
            BY <3>1, <3>2
    <2>3. f \in [L -> Int]
        BY <2>2 DEF Into
    <2>4. \A m \in L : k[m] = c * f[m] /\ k[m] \in Int
        <3> SUFFICES ASSUME NEW m \in L PROVE k[m] = c * f[m] /\ k[m] \in Int
            OBVIOUS
        <3>1. v[m][l] \in Int /\ q[m] \in Int
            BY <1>1, <1>2
        <3>2. k[m] = q[m] * ((d[l] * v[m][l]) * h[l])
            BY <1>5 DEF Along
        <3>3. q[m] * ((d[l] * v[m][l]) * h[l]) = (d[l] * h[l]) * (v[m][l] * q[m])
            BY <2>1, <3>1
        <3>4. f[m] = v[m][l] * q[m]
            BY <2>2
        <3>5. (d[l] * h[l]) * (v[m][l] * q[m]) \in Int
            BY <2>1, <3>1
        <3> HIDE DEF f, k
        <3> QED
            BY <3>2, <3>3, <3>4, <3>5
    <2>5. k \in [L -> Int]
        BY <2>4 DEF Along
    <2>6. Scaled(L, k, c, f)
        BY <2>1, <2>3, <2>4, <2>5 DEF Scaled
    <2>7. A[x][l] = d[l] * SumFunction(f)
        BY DEF Forward
    <2>8. SumFunction(f) \in Int
        BY <1>1, <2>3, SumInt
    <2> HIDE DEF f, k, F
    <2>9. SumFunction(k) = c * SumFunction(f)
        <3> HIDE DEF c
        <3> QED
            BY <1>1, <2>6, SumTimes
    <2>10. c * SumFunction(f) = (d[l] * SumFunction(f)) * h[l]
        BY <2>1, <2>8
    <2> QED
        BY <2>7, <2>9, <2>10 DEF k
<1>10. Columns(F, L, L) = Both(A[x], h, L)
    BY <1>9 DEF Columns, Both
<1> HIDE DEF F, g
<1>11. SumFunction(Rows(F, L)) = SumFunction(Columns(F, L, L))
    BY <1>1, <1>6, SumSwap
<1>12. SumFunction(Both(q, g, L)) = SumFunction(Both(A[x], h, L))
    BY <1>8, <1>10, <1>11
<1> QED
    BY <1>4, <1>12 DEF g

\* Whatever is asked of the label of token k, the taggings up to k that are
\* added up one by one answer it as A does.
LEMMA Forwards ==
    ASSUME NEW n, NEW L, NEW u, NEW w, Setting(n, L, u, w), NEW p \in L,
           NEW A, Forward(n, L, u, w, A), NEW W, Products(n, L, u, w, W)
    PROVE  \A k \in 0 .. n - 1 : \A h \in [L -> Int] :
             SumFunction(Weighted(W, h, k, Padded(n, L, p, k + 1)))
               = SumFunction(Both(A[k], h, L))
<1> DEFINE T(k) == Padded(n, L, p, k)
           Good(k) == \A h \in [L -> Int] :
                         SumFunction(Weighted(W, h, k, T(k + 1))) = SumFunction(Both(A[k], h, L))
           D == {k \in Nat : k <= n - 1 => Good(k)}
<1>1. /\ n \in Nat /\ n \in Nat \ {0} /\ IsFiniteSet(L)
      /\ u \in [0 .. n - 1 -> [L -> Int]] /\ w \in [1 .. n - 1 -> [L -> [L -> Int]]]
    BY DEF Setting
<1>2. W \in [[0 .. n - 1 -> L] -> [0 .. n - 1 -> Int]]
    BY DEF Products
<1>3. ASSUME NEW k \in 0 .. n - 1
      PROVE  /\ IsFiniteSet(T(k)) /\ IsFiniteSet(T(k + 1))
             /\ T(k) \in SUBSET [0 .. n - 1 -> L] /\ T(k + 1) \in SUBSET [0 .. n - 1 -> L]
             /\ \A s \in T(k), l \in L : Give(s, k, l) \in T(k + 1)
    <2>1. k \in 0 .. n /\ k + 1 \in 0 .. n
        BY <1>1
    <2>2. IsFiniteSet(T(k)) /\ IsFiniteSet(T(k + 1))
        BY <1>1, <2>1, PaddedFinite
    <2>3. T(k) \in SUBSET [0 .. n - 1 -> L] /\ T(k + 1) \in SUBSET [0 .. n - 1 -> L]
        BY DEF Padded
    <2> DEFINE e == Longer(n, L, p, k)
    <2>4. e \in [T(k) -> [L -> T(k + 1)]] /\ \A s \in T(k), l \in L : e[s][l] = Give(s, k, l)
        <3>1. Names(e, T(k), L, T(k + 1)) /\ \A s \in T(k), l \in L : e[s][l] = Give(s, k, l)
            <4> HIDE DEF e
            <4> QED
                BY <1>1, PaddedStep DEF e
        <3> HIDE DEF e, T
        <3> QED
            BY <3>1 DEF Names
    <2> HIDE DEF e, T
    <2> QED
        BY <2>2, <2>3, <2>4
<1>4. ASSUME NEW k \in 0 .. n - 1, NEW h \in [L -> Int]
      PROVE  /\ Weighted(W, h, k, T(k + 1)) \in [T(k + 1) -> Int]
             /\ \A s \in T(k + 1) : Weighted(W, h, k, T(k + 1))[s] = W[s][k] * h[s[k]]
    <2>1. \A s \in T(k + 1) : W[s][k] * h[s[k]] \in Int
        <3> SUFFICES ASSUME NEW s \in T(k + 1) PROVE W[s][k] * h[s[k]] \in Int
            OBVIOUS
        <3>1. s \in [0 .. n - 1 -> L]
            BY <1>3
        <3>2. W[s][k] \in Int /\ h[s[k]] \in Int
            BY <1>2, <3>1
        <3> QED
            BY <3>2
    <2> QED
        BY <2>1 DEF Weighted
<1>5. Good(0)
    <2> SUFFICES ASSUME NEW h \in [L -> Int]
                 PROVE  SumFunction(Weighted(W, h, 0, T(1))) = SumFunction(Both(A[0], h, L))
        OBVIOUS
    <2> DEFINE H == Weighted(W, h, 0, T(1))
               b == Both(A[0], h, L)
               v == [s \in T(0) |-> 1]
               M == [s \in T(0) |-> b]
               K == [s \in T(0) |-> SumFunction(b)]
               z == Same(n, p)
    <2>0. 0 \in 0 .. n - 1
        BY <1>1
    <2>1. A[0] \in [L -> Int] /\ \A y \in L : A[0][y] = u[0][y]
        BY <2>0 DEF Forward
    <2>2. b \in [L -> Int] /\ \A l \in L : b[l] = u[0][l] * h[l]
        <3>1. \A l \in L : b[l] = u[0][l] * h[l] /\ b[l] \in Int
            <4> SUFFICES ASSUME NEW l \in L PROVE b[l] = u[0][l] * h[l] /\ b[l] \in Int
                OBVIOUS
            <4>1. A[0][l] \in Int /\ h[l] \in Int /\ A[0][l] = u[0][l]
                BY <2>1
            <4>2. b[l] = A[0][l] * h[l]
                BY DEF Both
            <4> HIDE DEF b
            <4> QED
                BY <4>1, <4>2
        <3> QED
            BY <3>1 DEF Both
    <2>3. SumFunction(b) \in Int
        BY <1>1, <2>2, SumInt
    <2>4. H \in [T(1) -> Int] /\ \A s \in T(1) : H[s] = W[s][0] * h[s[0]]
        BY <2>0, <1>4
    <2>5. ASSUME NEW s \in T(0), NEW l \in L
          PROVE  H[Give(s, 0, l)] = v[s] * M[s][l]
        <3> DEFINE t == Give(s, 0, l)
        <3>1. t \in T(1) /\ s \in [0 .. n - 1 -> L]
            BY <2>0, <1>3
        <3>2. t[0] = l
            BY <2>0, <3>1 DEF Give
        <3>3. W[t][0] = u[0][l]
            BY <3>1, ProductsStep DEF ProductStep
        <3>4. b[l] \in Int /\ b[l] = u[0][l] * h[l] /\ M[s] = b /\ v[s] = 1
            BY <2>2
        <3> HIDE DEF t, H, b, M, v, T
        <3>5. H[t] = b[l]
            BY <2>4, <3>1, <3>2, <3>3, <3>4
        <3>6. H[t] = v[s] * M[s][l]
            BY <3>4, <3>5
        <3> QED
            BY <3>6 DEF t
    <2>6. \A s \in T(0) : K[s] = v[s] * SumFunction(M[s])
        <3> SUFFICES ASSUME NEW s \in T(0) PROVE K[s] = v[s] * SumFunction(M[s])
            OBVIOUS
        <3>1. K[s] = SumFunction(b) /\ v[s] = 1 /\ M[s] = b
            OBVIOUS
        <3> HIDE DEF K, v, M, b
        <3> QED
            BY <2>3, <3>1
    <2>7. Factors(n, L, p, 0, H, v, M, K)
        <3>1. K \in [T(0) -> Int] /\ v \in [T(0) -> Int] /\ M \in [T(0) -> [L -> Int]]
            BY <2>2, <2>3
        <3>2. 0 + 1 = 1
            OBVIOUS
        <3> HIDE DEF K, v, M, b, H
        <3> QED
            BY <2>4, <2>5, <2>6, <3>1, <3>2 DEF Factors
    <2>8. SumFunction(H) = SumFunction(K)
        <3> HIDE DEF H, v, M, K, T
        <3> QED
            BY <1>1, <2>0, <2>7, SumStep
    <2>9. T(0) = {z}
        BY <1>1, PaddedFinite
    <2>10. SumFunction(K) = SumFunction(b)
        <3>1. K \in [T(0) -> Int] /\ z \in T(0) /\ K[z] = SumFunction(b)
              /\ \A s \in T(0) : s # z => K[s] = 0
            BY <2>3, <2>9
        <3>2. IsFiniteSet(T(0))
            BY <2>0, <1>3
        <3> HIDE DEF K, T, z, b
        <3> QED
            BY <3>1, <3>2, SumSingle DEF OnlyAt
    <2> QED
        BY <2>8, <2>10
<1>6. ASSUME NEW k \in Nat, k + 1 <= n - 1, Good(k) PROVE Good(k + 1)
    <2> DEFINE x == k + 1
    <2>1. x \in 1 .. n - 1 /\ x \in 0 .. n - 1 /\ k \in 0 .. n - 1 /\ x - 1 = k
        BY <1>1, <1>6
    <2> HIDE DEF x
    <2> SUFFICES ASSUME NEW h \in [L -> Int]
                 PROVE  SumFunction(Weighted(W, h, x, T(x + 1))) = SumFunction(Both(A[x], h, L))
        BY DEF x
    <2> DEFINE g == AheadSums(L, u, w, h, x)
               H == Weighted(W, h, x, T(x + 1))
               v == [s \in T(x) |-> W[s][k]]
               M == [s \in T(x) |-> Ahead(L, u, w, h, x, s[k])]
               K == Weighted(W, g, k, T(x))
    <2>2. g \in [L -> Int] /\ SumFunction(Both(A[k], g, L)) = SumFunction(Both(A[x], h, L))
        BY <2>1, ForwardStep
    <2>3. T(k + 1) = T(x)
        BY DEF x
    <2>4. K \in [T(x) -> Int] /\ \A s \in T(x) : K[s] = W[s][k] * g[s[k]]
        <3> HIDE DEF g, T
        <3> QED
            BY <1>4, <2>1, <2>2, <2>3
    <2>5. H \in [T(x + 1) -> Int] /\ \A s \in T(x + 1) : H[s] = W[s][x] * h[s[x]]
        BY <1>4, <2>1
    <2>6. \A s \in T(x) : s \in [0 .. n - 1 -> L] /\ s[k] \in L /\ W[s][k] \in Int
        <3> SUFFICES ASSUME NEW s \in T(x)
                     PROVE  s \in [0 .. n - 1 -> L] /\ s[k] \in L /\ W[s][k] \in Int
            OBVIOUS
        <3>1. s \in [0 .. n - 1 -> L]
            BY <1>3, <2>1
        <3> QED
            BY <1>2, <2>1, <3>1
    <2>7. ASSUME NEW s \in T(x), NEW l \in L
          PROVE  /\ H[Give(s, x, l)] = v[s] * M[s][l]
                 /\ M[s][l] \in Int
        <3> DEFINE t == Give(s, x, l)
        <3>1. s \in [0 .. n - 1 -> L] /\ s[k] \in L /\ t \in T(x + 1) /\ t[x] = l
            BY <1>3, <2>1, <2>6 DEF Give
        <3>2. /\ W[t][x] = u[x][l] * (w[x][s[k]][l] * W[s][k])
              /\ u[x][l] \in Int /\ w[x][s[k]][l] \in Int /\ W[s][k] \in Int
            <4>1. /\ W[t][x] = u[x][l] * (w[x][s[x - 1]][l] * W[s][x - 1])
                  /\ u[x][l] \in Int /\ w[x][s[x - 1]][l] \in Int /\ W[s][x - 1] \in Int
                BY <2>1, <3>1, ProductsStep DEF ProductStep
            <4> QED
                BY <2>1, <4>1
        <3>3. v[s] = W[s][k] /\ M[s][l] = (u[x][l] * w[x][s[k]][l]) * h[l] /\ h[l] \in Int
            BY DEF Ahead
        <3>4. H[t] = W[t][x] * h[l]
            BY <2>5, <3>1
        <3> DEFINE a == u[x][l]
                   b == w[x][s[k]][l]
                   c == W[s][k]
                   d == h[l]
        <3>5. /\ a \in Int /\ b \in Int /\ c \in Int /\ d \in Int
              /\ H[t] = (a * (b * c)) * d /\ v[s] = c /\ M[s][l] = (a * b) * d
            BY <3>2, <3>3, <3>4
        <3> HIDE DEF a, b, c, d, H, t, M, v
        <3>6. (a * (b * c)) * d = c * ((a * b) * d) /\ (a * b) * d \in Int
            BY <3>5
        <3>7. H[t] = v[s] * M[s][l] /\ M[s][l] \in Int
            BY <3>5, <3>6
        <3> QED
            BY <3>7 DEF t
    <2>8. \A s \in T(x) : K[s] = v[s] * SumFunction(M[s])
        <3> SUFFICES ASSUME NEW s \in T(x) PROVE K[s] = v[s] * SumFunction(M[s])
            OBVIOUS
        <3>1. g[s[k]] = SumFunction(M[s])
            BY <2>6 DEF AheadSums
        <3>2. v[s] = W[s][k]
            OBVIOUS
        <3> HIDE DEF K, g, v, M
        <3> QED
            BY <2>4, <3>1, <3>2
    <2>9. Factors(n, L, p, x, H, v, M, K)
        <3>1. \A s \in T(x) : M[s] \in [L -> Int]
            BY <2>7 DEF Ahead
        <3>2. v \in [T(x) -> Int] /\ M \in [T(x) -> [L -> Int]]
            BY <2>6, <3>1
        <3> HIDE DEF K, v, M, H
        <3> QED
            BY <2>4, <2>5, <2>7, <2>8, <3>2 DEF Factors
    <2>10. SumFunction(H) = SumFunction(K)
        <3> HIDE DEF H, v, M, K, T
        <3> QED
            BY <1>1, <2>1, <2>9, SumStep
    <2>11. SumFunction(Weighted(W, g, k, T(k + 1))) = SumFunction(Both(A[k], g, L))
        <3> HIDE DEF g, T
        <3> QED
            BY <1>6, <2>2
    <2> QED
        BY <2>2, <2>3, <2>10, <2>11
<1>7. D = Nat
    <2>1. 0 \in D
        BY <1>5
    <2>2. \A k \in D : k + 1 \in D
        <3> SUFFICES ASSUME NEW k \in D, k + 1 <= n - 1 PROVE Good(k + 1)
            OBVIOUS
        <3>1. k \in Nat /\ k <= n - 1
            BY <1>1
        <3>2. Good(k)
            BY <3>1
        <3> QED
            BY <1>6, <3>1, <3>2
    <2> HIDE DEF D
    <2>3. D \in SUBSET Nat
        BY DEF D
    <2> QED
        BY <2>1, <2>2, <2>3, NatSetInduction
<1>8. ASSUME NEW k \in 0 .. n - 1 PROVE Good(k)
    <2>1. k \in Nat /\ k <= n - 1
        BY <1>1
    <2> QED
        BY <1>7, <2>1
<1> QED
    BY <1>8

\* The types of the padded taggings, under one name.
PaddedGood(n, L, p, k) ==
    /\ IsFiniteSet(Padded(n, L, p, k)) /\ IsFiniteSet(Padded(n, L, p, k + 1))
    /\ Padded(n, L, p, k) \in SUBSET [0 .. n - 1 -> L]
    /\ Padded(n, L, p, k + 1) \in SUBSET [0 .. n - 1 -> L]
    /\ \A s \in Padded(n, L, p, k), l \in L :
         Give(s, k, l) \in Padded(n, L, p, k + 1) /\ Give(s, k, l)[k] = l

LEMMA PaddedTypes ==
    ASSUME NEW n \in Nat, NEW L, IsFiniteSet(L), NEW p \in L, NEW k \in 0 .. n - 1
    PROVE  PaddedGood(n, L, p, k)
<1> DEFINE T(j) == Padded(n, L, p, j)
           e == Longer(n, L, p, k)
<1>1. k \in 0 .. n /\ k + 1 \in 0 .. n
    OBVIOUS
<1>2. IsFiniteSet(T(k)) /\ IsFiniteSet(T(k + 1))
    BY <1>1, PaddedFinite
<1>3. T(k) \in SUBSET [0 .. n - 1 -> L] /\ T(k + 1) \in SUBSET [0 .. n - 1 -> L]
    BY DEF Padded
<1>4. e \in [T(k) -> [L -> T(k + 1)]] /\ \A s \in T(k), l \in L : e[s][l] = Give(s, k, l)
    <2>1. Names(e, T(k), L, T(k + 1)) /\ \A s \in T(k), l \in L : e[s][l] = Give(s, k, l)
        <3> HIDE DEF e
        <3> QED
            BY PaddedStep DEF e
    <2> HIDE DEF e, T
    <2> QED
        BY <2>1 DEF Names
<1>5. \A s \in T(k), l \in L : Give(s, k, l)[k] = l
    BY PaddedStep
<1> HIDE DEF e, T
<1>6. \A s \in T(k), l \in L : Give(s, k, l) \in T(k + 1)
    BY <1>4
<1> QED
    BY <1>2, <1>3, <1>5, <1>6 DEF T, PaddedGood

\* c says nothing of the tokens after x.
Early(n, L, c, x) ==
    /\ c \in [[0 .. n - 1 -> L] -> Int]
    /\ \A t \in [0 .. n - 1 -> L], j \in x + 1 .. n - 1, l \in L : c[Give(t, j, l)] = c[t]

\* The products up to k, continued by what b has behind token k, each times
\* what c asks of the tagging.
Continued(W, b, c, k, S) == [s \in S |-> W[s][k] * (b[k][s[k]] * c[s])]

ContinuedGood(n, L, W, b, c, k, S) ==
    /\ Continued(W, b, c, k, S) \in [S -> Int]
    /\ \A s \in S : /\ Continued(W, b, c, k, S)[s] = W[s][k] * (b[k][s[k]] * c[s])
                    /\ s \in [0 .. n - 1 -> L] /\ s[k] \in L
                    /\ W[s][k] \in Int /\ b[k][s[k]] \in Int /\ c[s] \in Int

LEMMA ContinuedTypes ==
    ASSUME NEW n, NEW L, NEW u, NEW w, Setting(n, L, u, w), NEW p \in L,
           NEW b, Backward(n, L, u, w, b), NEW W, Products(n, L, u, w, W),
           NEW c \in [[0 .. n - 1 -> L] -> Int], NEW k \in 0 .. n - 1
    PROVE  ContinuedGood(n, L, W, b, c, k, Padded(n, L, p, k + 1))
<1> DEFINE S == Padded(n, L, p, k + 1)
           H == Continued(W, b, c, k, S)
<1>1. n \in Nat /\ IsFiniteSet(L)
    BY DEF Setting
<1>2. S \in SUBSET [0 .. n - 1 -> L]
    BY <1>1, PaddedTypes DEF PaddedGood
<1>3. ASSUME NEW s \in S
      PROVE  /\ s \in [0 .. n - 1 -> L] /\ s[k] \in L
             /\ W[s][k] \in Int /\ b[k][s[k]] \in Int /\ c[s] \in Int
             /\ W[s][k] * (b[k][s[k]] * c[s]) \in Int
    <2>1. s \in [0 .. n - 1 -> L] /\ s[k] \in L
        BY <1>2
    <2>2. W[s][k] \in Int /\ b[k][s[k]] \in Int /\ c[s] \in Int
        BY <2>1 DEF Products, Backward
    <2>3. W[s][k] * (b[k][s[k]] * c[s]) \in Int
        BY <2>2
    <2> QED
        BY <2>1, <2>2, <2>3
<1>4. H \in [S -> Int] /\ \A s \in S : H[s] = W[s][k] * (b[k][s[k]] * c[s])
    BY <1>3 DEF Continued
<1> HIDE DEF H, S
<1>5. \A s \in S : /\ H[s] = W[s][k] * (b[k][s[k]] * c[s])
                   /\ s \in [0 .. n - 1 -> L] /\ s[k] \in L
                   /\ W[s][k] \in Int /\ b[k][s[k]] \in Int /\ c[s] \in Int
    BY <1>3, <1>4
<1> QED
    BY <1>4, <1>5 DEF H, S, ContinuedGood

\* calcBeta's step: as long as c says nothing of token k + 1, that token may
\* be left to b.
LEMMA BackwardStep ==
    ASSUME NEW n, NEW L, NEW u, NEW w, Setting(n, L, u, w), NEW p \in L,
           NEW b, Backward(n, L, u, w, b), NEW W, Products(n, L, u, w, W),
           NEW k \in 0 .. n - 2, NEW c, Early(n, L, c, k)
    PROVE  SumFunction(Continued(W, b, c, k + 1, Padded(n, L, p, k + 2)))
             = SumFunction(Continued(W, b, c, k, Padded(n, L, p, k + 1)))
<1> DEFINE x == k + 1
           S == Padded(n, L, p, x)
           U == Padded(n, L, p, x + 1)
           H == Continued(W, b, c, x, U)
           K == Continued(W, b, c, k, S)
           v == [s \in S |-> W[s][k] * c[s]]
           M == [s \in S |-> OutOf(L, u, w, b[x], x, s[k])]
<1>1. /\ n \in Nat /\ IsFiniteSet(L)
      /\ u \in [0 .. n - 1 -> [L -> Int]] /\ w \in [1 .. n - 1 -> [L -> [L -> Int]]]
    BY DEF Setting
<1>2. x \in 1 .. n - 1 /\ x \in 0 .. n - 1 /\ k \in 0 .. n - 1 /\ x - 1 = k /\ x + 1 = k + 2
    BY <1>1
<1>3. c \in [[0 .. n - 1 -> L] -> Int]
    BY DEF Early
<1>4. S = Padded(n, L, p, k + 1)
    OBVIOUS
<1> HIDE DEF x
<1>5. b[x] \in [L -> Int] /\ b[k] \in [L -> Int]
      /\ \A y \in L : b[k][y] = SumFunction(OutOf(L, u, w, b[x], x, y))
    BY <1>2 DEF Backward
<1>6. /\ H \in [U -> Int]
      /\ \A t \in U : H[t] = W[t][x] * (b[x][t[x]] * c[t])
    <2>1. ContinuedGood(n, L, W, b, c, x, U)
        BY <1>1, <1>2, <1>3, ContinuedTypes
    <2> QED
        BY <2>1 DEF ContinuedGood
<1>7. /\ K \in [S -> Int]
      /\ \A s \in S : /\ K[s] = W[s][k] * (b[k][s[k]] * c[s])
                      /\ s \in [0 .. n - 1 -> L] /\ s[k] \in L
                      /\ W[s][k] \in Int /\ b[k][s[k]] \in Int /\ c[s] \in Int
    <2>1. ContinuedGood(n, L, W, b, c, k, S)
        BY <1>1, <1>2, <1>3, <1>4, ContinuedTypes
    <2> QED
        BY <2>1 DEF ContinuedGood
<1>8. ASSUME NEW s \in S, NEW l \in L
      PROVE  /\ H[Give(s, x, l)] = v[s] * M[s][l]
             /\ M[s][l] \in Int /\ v[s] \in Int
    <2> DEFINE t == Give(s, x, l)
    <2>1. t \in U /\ t[x] = l
        <3>1. \A r \in S, m \in L : Give(r, x, m) \in U /\ Give(r, x, m)[x] = m
            <4>1. PaddedGood(n, L, p, x)
                BY <1>1, <1>2, PaddedTypes
            <4> QED
                BY <4>1 DEF PaddedGood
        <3> HIDE DEF S, U
        <3> QED
            BY <3>1
    <2>2. s \in [0 .. n - 1 -> L] /\ W[s][k] \in Int /\ c[s] \in Int
        BY <1>7
    <2>3. /\ W[t][x] = u[x][l] * (w[x][s[x - 1]][l] * W[s][x - 1])
          /\ u[x][l] \in Int /\ w[x][s[x - 1]][l] \in Int
        <3>1. ProductStep(n, L, u, w, W, s, l)
            BY <2>2, ProductsStep
        <3> QED
            BY <1>2, <3>1 DEF ProductStep
    <2>4. c[t] = c[s]
        <3>1. x \in k + 1 .. n - 1
            BY <1>1, <1>2
        <3> QED
            BY <2>2, <3>1 DEF Early
    <2>5. M[s][l] = w[x][s[k]][l] * (u[x][l] * b[x][l]) /\ v[s] = W[s][k] * c[s]
        BY DEF OutOf
    <2>6. b[x][l] \in Int
        BY <1>5
    <2> DEFINE a == u[x][l]
               d == w[x][s[k]][l]
               f == W[s][k]
               g == b[x][l]
               h == c[s]
    <2>7. /\ a \in Int /\ d \in Int /\ f \in Int /\ g \in Int /\ h \in Int
          /\ H[t] = (a * (d * f)) * (g * h) /\ v[s] = f * h /\ M[s][l] = d * (a * g)
        BY <1>2, <1>6, <2>1, <2>2, <2>3, <2>4, <2>5, <2>6
    <2> HIDE DEF a, d, f, g, h, H, t, M, v
    <2>8. /\ (a * (d * f)) * (g * h) = (f * h) * (d * (a * g))
          /\ d * (a * g) \in Int /\ f * h \in Int
        BY <2>7
    <2>9. H[t] = v[s] * M[s][l] /\ M[s][l] \in Int /\ v[s] \in Int
        BY <2>7, <2>8
    <2> QED
        BY <2>9 DEF t
<1>9. ASSUME NEW s \in S PROVE K[s] = v[s] * SumFunction(M[s])
    <2> DEFINE f == W[s][k]
               g == b[k][s[k]]
               h == c[s]
    <2>1. g = SumFunction(M[s])
        BY <1>5, <1>7
    <2>2. v[s] = f * h
        OBVIOUS
    <2>3. f \in Int /\ g \in Int /\ h \in Int /\ K[s] = f * (g * h)
        BY <1>7
    <2> HIDE DEF f, g, h, v, M, K
    <2>4. f * (g * h) = (f * h) * g
        BY <2>3
    <2> QED
        BY <2>1, <2>2, <2>3, <2>4
<1>10. Factors(n, L, p, x, H, v, M, K)
    <2>1. \A s \in S : M[s] \in [L -> Int]
        BY <1>8 DEF OutOf
    <2>2. v \in [S -> Int] /\ M \in [S -> [L -> Int]]
        BY <1>8, <2>1
    <2> HIDE DEF K, v, M, H
    <2> QED
        BY <1>6, <1>7, <1>8, <1>9, <2>2 DEF Factors
<1>11. SumFunction(H) = SumFunction(K)
    <2> HIDE DEF H, v, M, K
    <2> QED
        BY <1>1, <1>2, <1>10, SumStep
<1> QED
    BY <1>2, <1>4, <1>11 DEF x

\* So every token that c says nothing of may be left to b.
LEMMA Backwards ==
    ASSUME NEW n, NEW L, NEW u, NEW w, Setting(n, L, u, w), NEW p \in L,
           NEW b, Backward(n, L, u, w, b), NEW W, Products(n, L, u, w, W),
           NEW x \in 0 .. n - 1, NEW c, Early(n, L, c, x)
    PROVE  SumFunction(Continued(W, b, c, n - 1, [0 .. n - 1 -> L]))
             = SumFunction(Continued(W, b, c, x, Padded(n, L, p, x + 1)))
<1> DEFINE I(k) == SumFunction(Continued(W, b, c, k, Padded(n, L, p, k + 1)))
           D == {d \in Nat : x + d <= n - 1 => I(x + d) = I(x)}
<1>1. n \in Nat /\ IsFiniteSet(L) /\ x \in Nat /\ n - 1 - x \in Nat
    BY DEF Setting
<1>2. 0 \in D
    OBVIOUS
<1>3. ASSUME NEW d \in D PROVE d + 1 \in D
    <2> SUFFICES ASSUME x + (d + 1) <= n - 1 PROVE I(x + (d + 1)) = I(x)
        OBVIOUS
    <2> DEFINE k == x + d
    <2>0. d \in Nat
        OBVIOUS
    <2>1. I(k) = I(x)
        BY <1>1
    <2>2. k \in 0 .. n - 2 /\ k + 1 = x + (d + 1) /\ k >= x
        BY <1>1, <2>0
    <2>3. Early(n, L, c, k)
        <3>1. ASSUME NEW j \in k + 1 .. n - 1 PROVE j \in x + 1 .. n - 1
            BY <1>1, <2>2
        <3> QED
            BY <3>1 DEF Early
    <2> HIDE DEF k
    <2>4. SumFunction(Continued(W, b, c, k + 1, Padded(n, L, p, k + 2))) = I(k)
        BY <2>2, <2>3, BackwardStep
    <2>5. k + 2 = (k + 1) + 1
        BY <2>2
    <2>6. I(k + 1) = I(k)
        BY <2>4, <2>5
    <2> QED
        BY <2>1, <2>2, <2>6
<1>4. D = Nat
    <2> HIDE DEF D
    <2>1. D \in SUBSET Nat
        BY DEF D
    <2> QED
        BY <1>2, <1>3, <2>1, NatSetInduction
<1>5. I(n - 1) = I(x)
    <2>1. n - 1 - x \in D /\ x + (n - 1 - x) = n - 1
        <3>1. n - 1 - x \in D
            BY <1>1, <1>4
        <3>2. x + (n - 1 - x) = n - 1
            BY <1>1
        <3> QED
            BY <3>1, <3>2
    <2> HIDE DEF I
    <2> QED
        BY <2>1
<1>6. (n - 1) + 1 = n /\ Padded(n, L, p, n) = [0 .. n - 1 -> L]
    <2>1. (n - 1) + 1 = n
        BY <1>1
    <2>2. Padded(n, L, p, n) = [0 .. n - 1 -> L]
        BY <1>1, PaddedFinite, Zenon
    <2> QED
        BY <2>1, <2>2
<1> QED
    BY <1>5, <1>6

\* The weight of each tagging, times what c asks of it.
Scored(W, c, n, L) == [t \in [0 .. n - 1 -> L] |-> W[t][n - 1] * c[t]]

\* There is nothing behind the last token.
LEMMA ScoredIsContinued ==
    ASSUME NEW n, NEW L, NEW u, NEW w, Setting(n, L, u, w),
           NEW b, Backward(n, L, u, w, b), NEW W, Products(n, L, u, w, W),
           NEW c \in [[0 .. n - 1 -> L] -> Int]
    PROVE  Scored(W, c, n, L) = Continued(W, b, c, n - 1, [0 .. n - 1 -> L])
<1>1. n - 1 \in 0 .. n - 1
    BY DEF Setting
<1>2. ASSUME NEW t \in [0 .. n - 1 -> L]
      PROVE  W[t][n - 1] * c[t] = W[t][n - 1] * (b[n - 1][t[n - 1]] * c[t])
    <2>1. t[n - 1] \in L
        BY <1>1
    <2>2. b[n - 1][t[n - 1]] = 1
        BY <2>1 DEF Backward
    <2>3. c[t] \in Int
        OBVIOUS
    <2> QED
        BY <2>2, <2>3
<1> QED
    BY <1>2 DEF Scored, Continued

\* c asks of a tagging what h says of the label of token x.
Asks(n, L, c, x, h) ==
    /\ h \in [L -> Int]
    /\ c \in [[0 .. n - 1 -> L] -> Int]
    /\ \A t \in [0 .. n - 1 -> L] : c[t] = h[t[x]]

\* What is asked of the label of one token.
LEMMA Marginal ==
    ASSUME NEW n, NEW L, NEW u, NEW w, Setting(n, L, u, w), NEW p \in L,
           NEW A, Forward(n, L, u, w, A), NEW b, Backward(n, L, u, w, b),
           NEW W, Products(n, L, u, w, W),
           NEW x \in 0 .. n - 1, NEW h, NEW c, Asks(n, L, c, x, h)
    PROVE  SumFunction(Scored(W, c, n, L)) = SumFunction(Both(A[x], Both(b[x], h, L), L))
<1> DEFINE S == Padded(n, L, p, x + 1)
           g == Both(b[x], h, L)
<1>0. /\ h \in [L -> Int] /\ c \in [[0 .. n - 1 -> L] -> Int]
      /\ \A t \in [0 .. n - 1 -> L] : c[t] = h[t[x]]
    BY DEF Asks
<1>1. n \in Nat \ {0} /\ n \in Nat /\ IsFiniteSet(L)
    BY DEF Setting
<1>2. Early(n, L, c, x)
    <2> SUFFICES ASSUME NEW t \in [0 .. n - 1 -> L], NEW j \in x + 1 .. n - 1, NEW l \in L
                 PROVE  c[Give(t, j, l)] = c[t]
        BY <1>0 DEF Early
    <2> DEFINE s == Give(t, j, l)
    <2>1. s \in [0 .. n - 1 -> L] /\ s[x] = t[x]
        BY <1>1 DEF Give
    <2> HIDE DEF s
    <2>2. c[s] = c[t]
        BY <1>0, <2>1
    <2> QED
        BY <2>2 DEF s
<1>3. SumFunction(Scored(W, c, n, L)) = SumFunction(Continued(W, b, c, x, S))
    <2>1. Scored(W, c, n, L) = Continued(W, b, c, n - 1, [0 .. n - 1 -> L])
        BY <1>0, ScoredIsContinued
    <2>2. SumFunction(Continued(W, b, c, n - 1, [0 .. n - 1 -> L])) = SumFunction(Continued(W, b, c, x, S))
        BY <1>2, Backwards
    <2> QED
        BY <2>1, <2>2
<1>4. b[x] \in [L -> Int]
    BY DEF Backward
<1>5. g \in [L -> Int] /\ \A l \in L : g[l] = b[x][l] * h[l]
    <2>1. \A l \in L : b[x][l] * h[l] \in Int
        <3> SUFFICES ASSUME NEW l \in L PROVE b[x][l] * h[l] \in Int
            OBVIOUS
        <3>1. b[x][l] \in Int /\ h[l] \in Int
            BY <1>0, <1>4
        <3> QED
            BY <3>1
    <2> QED
        BY <2>1 DEF Both
<1>6. Continued(W, b, c, x, S) = Weighted(W, g, x, S)
    <2>1. ASSUME NEW s \in S PROVE b[x][s[x]] * c[s] = g[s[x]]
        <3>1. s \in [0 .. n - 1 -> L]
            BY DEF Padded
        <3>2. c[s] = h[s[x]] /\ s[x] \in L
            BY <1>0, <3>1
        <3> QED
            BY <1>5, <3>2
    <2> QED
        BY <2>1 DEF Continued, Weighted
<1>7. SumFunction(Weighted(W, g, x, S)) = SumFunction(Both(A[x], g, L))
    <2> HIDE DEF g
    <2> QED
        BY <1>5, Forwards
<1> QED
    BY <1>3, <1>6, <1>7

\* What asks nothing of a tagging, a label of one token, the labels of two.
Anything(n, L) == [t \in [0 .. n - 1 -> L] |-> 1]
OnNode(n, L, x, y) == [t \in [0 .. n - 1 -> L] |-> IF t[x] = y THEN 1 ELSE 0]
OnPath(n, L, x, l, r) ==
    [t \in [0 .. n - 1 -> L] |-> IF t[x - 1] = l /\ t[x] = r THEN 1 ELSE 0]

\* All the weight is what b has behind the first token.
LEMMA Total ==
    ASSUME NEW n, NEW L, NEW u, NEW w, Setting(n, L, u, w), NEW p \in L,
           NEW A, Forward(n, L, u, w, A), NEW b, Backward(n, L, u, w, b),
           NEW W, Products(n, L, u, w, W),
           NEW c, c = Anything(n, L)
    PROVE  SumFunction(Scored(W, c, n, L)) = SumFunction(Both(u[0], b[0], L))
<1> DEFINE h == [l \in L |-> 1]
<1>1. n \in Nat \ {0} /\ 0 \in 0 .. n - 1
    BY DEF Setting
<1>2. Asks(n, L, c, 0, h)
    BY <1>1 DEF Asks, Anything
<1>3. SumFunction(Scored(W, c, n, L)) = SumFunction(Both(A[0], Both(b[0], h, L), L))
    <2> HIDE DEF h
    <2> QED
        BY <1>1, <1>2, Marginal
<1>4. \A l \in L : A[0][l] = u[0][l] /\ b[0][l] \in Int
    BY <1>1 DEF Forward, Backward
<1>5. Both(A[0], Both(b[0], h, L), L) = Both(u[0], b[0], L)
    <2>1. ASSUME NEW l \in L PROVE A[0][l] * Both(b[0], h, L)[l] = u[0][l] * b[0][l]
        <3>1. Both(b[0], h, L)[l] = b[0][l] * 1
            BY DEF Both
        <3> QED
            BY <1>4, <3>1
    <2> QED
        BY <2>1 DEF Both
<1> QED
    BY <1>3, <1>5

\* The weight of the taggings through a node, which is alpha of the node
\* times what is behind it.
LEMMA NodeTotal ==
    ASSUME NEW n, NEW L, NEW u, NEW w, Setting(n, L, u, w), NEW p \in L,
           NEW A, Forward(n, L, u, w, A), NEW b, Backward(n, L, u, w, b),
           NEW W, Products(n, L, u, w, W), NEW x \in 0 .. n - 1, NEW y \in L,
           NEW c, c = OnNode(n, L, x, y)
    PROVE  SumFunction(Scored(W, c, n, L)) = A[x][y] * b[x][y]
<1> DEFINE h == [l \in L |-> IF l = y THEN 1 ELSE 0]
           g == Both(b[x], h, L)
           f == Both(A[x], g, L)
<1>1. n \in Nat \ {0} /\ IsFiniteSet(L)
    BY DEF Setting
<1>2. Asks(n, L, c, x, h)
    <2>1. \A t \in [0 .. n - 1 -> L] : t[x] \in L
        OBVIOUS
    <2>2. \A t \in [0 .. n - 1 -> L] : c[t] = h[t[x]]
        BY <2>1 DEF OnNode
    <2>3. c \in [[0 .. n - 1 -> L] -> Int]
        BY DEF OnNode
    <2>4. h \in [L -> Int]
        OBVIOUS
    <2> HIDE DEF h
    <2> QED
        BY <2>2, <2>3, <2>4 DEF Asks
<1>3. SumFunction(Scored(W, c, n, L)) = SumFunction(f)
    <2> HIDE DEF h
    <2> QED
        BY <1>2, Marginal
<1>4. A[x] \in [L -> Int] /\ b[x] \in [L -> Int]
    BY DEF Forward, Backward
<1>5. ASSUME NEW l \in L PROVE f[l] = IF l = y THEN A[x][y] * b[x][y] ELSE 0
    <2>1. f[l] = A[x][l] * (b[x][l] * h[l])
        BY DEF Both
    <2>2. A[x][l] \in Int /\ b[x][l] \in Int
        BY <1>4
    <2> HIDE DEF f
    <2>3. CASE l = y
        <3>1. h[l] = 1
            BY <2>3
        <3> HIDE DEF h
        <3>2. f[l] = A[x][l] * b[x][l]
            BY <2>1, <2>2, <3>1
        <3> QED
            BY <2>3, <3>2
    <2>4. CASE l # y
        <3>1. h[l] = 0
            BY <2>4
        <3> HIDE DEF h
        <3>2. f[l] = 0
            BY <2>1, <2>2, <3>1
        <3> QED
            BY <2>4, <3>2
    <2> QED
        BY <2>3, <2>4
<1>6. A[x][y] * b[x][y] \in Int
    <2>1. A[x][y] \in Int /\ b[x][y] \in Int
        BY <1>4
    <2> QED
        BY <2>1
<1>7. f \in [L -> Int]
    <2>1. f = [l \in L |-> f[l]]
        BY DEF Both
    <2> HIDE DEF f
    <2>2. \A l \in L : f[l] \in Int
        BY <1>5, <1>6
    <2> QED
        BY <2>1, <2>2
<1> HIDE DEF f
<1>8. f[y] = A[x][y] * b[x][y] /\ \A l \in L : l # y => f[l] = 0
    BY <1>5
<1>9. SumFunction(f) = f[y]
    BY <1>1, <1>7, <1>8, SumSingle DEF OnlyAt
<1> QED
    BY <1>3, <1>8, <1>9

\* The weight of the taggings through a path.
LEMMA PathTotal ==
    ASSUME NEW n, NEW L, NEW u, NEW w, Setting(n, L, u, w), NEW p \in L,
           NEW A, Forward(n, L, u, w, A), NEW b, Backward(n, L, u, w, b),
           NEW W, Products(n, L, u, w, W),
           NEW x \in 1 .. n - 1, NEW y \in L, NEW r \in L,
           NEW c, c = OnPath(n, L, x, y, r)
    PROVE  SumFunction(Scored(W, c, n, L)) = A[x - 1][y] * (w[x][y][r] * (u[x][r] * b[x][r]))
<1> DEFINE k == x - 1
           S == Padded(n, L, p, x)
           U == Padded(n, L, p, x + 1)
           e == w[x][y][r] * (u[x][r] * b[x][r])
           h == [l \in L |-> IF l = y THEN e ELSE 0]
           m == [l \in L |-> IF l = r THEN e ELSE 0]
           H == Continued(W, b, c, x, U)
           v == [s \in S |-> W[s][k]]
           M == [s \in S |-> IF s[k] = y THEN m ELSE [l \in L |-> 0]]
           K == Weighted(W, h, k, S)
           f == Both(A[k], h, L)
<1>1. /\ n \in Nat \ {0} /\ n \in Nat /\ IsFiniteSet(L)
      /\ u \in [0 .. n - 1 -> [L -> Int]] /\ w \in [1 .. n - 1 -> [L -> [L -> Int]]]
    BY DEF Setting
<1>2. x \in 0 .. n - 1 /\ k \in 0 .. n - 1 /\ k + 1 = x
    BY <1>1
<1>3. A[k] \in [L -> Int] /\ b[x] \in [L -> Int]
    BY <1>2 DEF Forward, Backward
<1>4. e \in Int
    <2>1. w[x][y][r] \in Int /\ u[x][r] \in Int /\ b[x][r] \in Int
        <3>1. w[x] \in [L -> [L -> Int]] /\ u[x] \in [L -> Int]
            BY <1>1, <1>2
        <3> QED
            BY <1>3, <3>1
    <2> QED
        BY <2>1
<1>5. c \in [[0 .. n - 1 -> L] -> Int]
      /\ \A t \in [0 .. n - 1 -> L] : c[t] = IF t[k] = y /\ t[x] = r THEN 1 ELSE 0
    BY DEF OnPath
<1>6. Early(n, L, c, x)
    <2> SUFFICES ASSUME NEW t \in [0 .. n - 1 -> L], NEW j \in x + 1 .. n - 1, NEW l \in L
                 PROVE  c[Give(t, j, l)] = c[t]
        BY <1>5 DEF Early
    <2> DEFINE s == Give(t, j, l)
    <2>1. s \in [0 .. n - 1 -> L] /\ s[x] = t[x] /\ s[k] = t[k]
        <3>1. j \in 0 .. n - 1 /\ j # x /\ j # k
            BY <1>1, <1>2
        <3> QED
            BY <1>2, <3>1 DEF Give
    <2> HIDE DEF s
    <2>2. c[s] = c[t]
        BY <1>5, <2>1
    <2> QED
        BY <2>2 DEF s
<1>7. SumFunction(Scored(W, c, n, L)) = SumFunction(H)
    <2>1. Scored(W, c, n, L) = Continued(W, b, c, n - 1, [0 .. n - 1 -> L])
        BY <1>5, ScoredIsContinued
    <2>2. SumFunction(Continued(W, b, c, n - 1, [0 .. n - 1 -> L])) = SumFunction(H)
        BY <1>2, <1>6, Backwards
    <2> QED
        BY <2>1, <2>2
<1> HIDE DEF k, e
<1>8. /\ h \in [L -> Int] /\ \A l \in L : h[l] = IF l = y THEN e ELSE 0
      /\ m \in [L -> Int] /\ \A l \in L : m[l] = IF l = r THEN e ELSE 0
    BY <1>4
<1>9. SumFunction(m) = e
    <2> HIDE DEF m
    <2>1. m[r] = e /\ \A l \in L : l # r => m[l] = 0
        BY <1>8
    <2> QED
        <3>1. m \in [L -> Int]
            BY <1>8
        <3>2. OnlyAt(L, m, r)
            BY <2>1, <3>1 DEF OnlyAt
        <3>3. SumFunction(m) = m[r]
            BY <1>1, <3>2, SumSingle
        <3> QED
            BY <2>1, <3>3
<1>10. SumFunction([l \in L |-> 0]) = 0
    BY <1>1, SumZeros
<1>11. PaddedGood(n, L, p, x)
    BY <1>1, <1>2, PaddedTypes
<1>12. \A s \in S : s \in [0 .. n - 1 -> L] /\ s[k] \in L /\ W[s][k] \in Int
    <2> SUFFICES ASSUME NEW s \in S PROVE s \in [0 .. n - 1 -> L] /\ s[k] \in L /\ W[s][k] \in Int
        OBVIOUS
    <2>1. s \in [0 .. n - 1 -> L]
        BY <1>11 DEF PaddedGood
    <2> QED
        BY <1>2, <2>1 DEF Products
<1>13. H \in [U -> Int] /\ \A t \in U : H[t] = W[t][x] * (b[x][t[x]] * c[t])
    <2>1. ContinuedGood(n, L, W, b, c, x, U)
        BY <1>2, <1>5, ContinuedTypes
    <2> QED
        BY <2>1 DEF ContinuedGood
<1>14. /\ M \in [S -> [L -> Int]]
       /\ \A s \in S, l \in L : M[s][l] = IF s[k] = y /\ l = r THEN e ELSE 0
       /\ \A s \in S : SumFunction(M[s]) = h[s[k]]
    <2>1. [l \in L |-> 0] \in [L -> Int]
        OBVIOUS
    <2>2. ASSUME NEW s \in S
          PROVE  /\ M[s] \in [L -> Int]
                 /\ \A l \in L : M[s][l] = IF s[k] = y /\ l = r THEN e ELSE 0
                 /\ SumFunction(M[s]) = h[s[k]]
        <3>1. CASE s[k] = y
            <4>1. M[s] = m /\ h[s[k]] = e
                BY <1>8, <3>1
            <4> HIDE DEF M, m, h
            <4> QED
                BY <1>8, <1>9, <3>1, <4>1
        <3>2. CASE s[k] # y
            <4>1. M[s] = [l \in L |-> 0]
                BY <3>2
            <4>2. h[s[k]] = 0
                BY <1>8, <1>12, <3>2
            <4> HIDE DEF M, m, h
            <4> QED
                BY <1>10, <2>1, <3>2, <4>1, <4>2
        <3> QED
            BY <3>1, <3>2
    <2> QED
        BY <2>2
<1>15. K \in [S -> Int] /\ \A s \in S : K[s] = W[s][k] * h[s[k]]
    <2>1. \A s \in S : W[s][k] * h[s[k]] \in Int
        <3> SUFFICES ASSUME NEW s \in S PROVE W[s][k] * h[s[k]] \in Int
            OBVIOUS
        <3>1. W[s][k] \in Int /\ h[s[k]] \in Int
            BY <1>8, <1>12
        <3> HIDE DEF h
        <3> QED
            BY <3>1
    <2> HIDE DEF h
    <2> QED
        BY <2>1 DEF Weighted
<1>16. ASSUME NEW s \in S, NEW l \in L PROVE H[Give(s, x, l)] = v[s] * M[s][l]
    <2> DEFINE t == Give(s, x, l)
    <2>1. t \in U /\ t[x] = l /\ t \in [0 .. n - 1 -> L]
        BY <1>11 DEF PaddedGood
    <2>2. t[k] = s[k]
        BY <1>2, <1>12 DEF Give
    <2>3. ProductStep(n, L, u, w, W, s, l)
        BY <1>12, ProductsStep
    <2>4. /\ W[t][x] = u[x][l] * (w[x][s[k]][l] * W[s][k])
          /\ u[x][l] \in Int /\ w[x][s[k]][l] \in Int /\ W[s][k] \in Int
        BY <2>3 DEF ProductStep, k
    <2>5. b[x][l] \in Int /\ v[s] = W[s][k]
        BY <1>3
    <2>6. M[s][l] = IF s[k] = y /\ l = r THEN e ELSE 0
        BY <1>14
    <2> HIDE DEF M, v, H, t
    <2>7. c[t] = IF s[k] = y /\ l = r THEN 1 ELSE 0
        BY <1>5, <2>1, <2>2
    <2>8. H[t] = (u[x][l] * (w[x][s[k]][l] * W[s][k])) * (b[x][l] * c[t])
        BY <1>13, <2>1, <2>4
    <2> DEFINE a1 == u[x][l]
               a2 == w[x][s[k]][l]
               a3 == W[s][k]
               a4 == b[x][l]
               a5 == c[t]
    <2>9. /\ H[t] = (a1 * (a2 * a3)) * (a4 * a5) /\ v[s] = a3
          /\ a1 \in Int /\ a2 \in Int /\ a3 \in Int /\ a4 \in Int
        BY <2>4, <2>5, <2>8
    <2>10. CASE s[k] = y /\ l = r
        <3>1. M[s][l] = a2 * (a1 * a4) /\ a5 = 1
            BY <2>6, <2>7, <2>10 DEF e
        <3> HIDE DEF a1, a2, a3, a4, a5
        <3>2. (a1 * (a2 * a3)) * (a4 * 1) = a3 * (a2 * (a1 * a4))
            BY <2>9
        <3>3. H[t] = v[s] * M[s][l]
            BY <2>9, <3>1, <3>2
        <3> QED
            BY <3>3 DEF t
    <2>11. CASE ~(s[k] = y /\ l = r)
        <3>1. M[s][l] = 0 /\ a5 = 0
            BY <2>6, <2>7, <2>11
        <3> HIDE DEF a1, a2, a3, a4, a5
        <3>2. (a1 * (a2 * a3)) * (a4 * 0) = 0 /\ a3 * 0 = 0
            BY <2>9
        <3>3. H[t] = v[s] * M[s][l]
            BY <2>9, <3>1, <3>2
        <3> QED
            BY <3>3 DEF t
    <2> QED
        BY <2>10, <2>11
<1>17. Factors(n, L, p, x, H, v, M, K)
    <2>1. v \in [S -> Int] /\ \A s \in S : v[s] = W[s][k]
        BY <1>12
    <2> HIDE DEF K, v, M, H, h
    <2>2. \A s \in S : K[s] = v[s] * SumFunction(M[s])
        BY <1>14, <1>15, <2>1
    <2> QED
        BY <1>13, <1>14, <1>15, <1>16, <2>1, <2>2 DEF Factors
<1>18. SumFunction(H) = SumFunction(K)
    <2> HIDE DEF H, v, M, K
    <2> QED
        BY <1>1, <1>2, <1>17, SumStep
<1>19. SumFunction(K) = SumFunction(f)
    <2>1. S = Padded(n, L, p, k + 1)
        BY <1>2
    <2> HIDE DEF h
    <2> QED
        BY <1>2, <1>8, <2>1, Forwards
<1>20. f \in [L -> Int] /\ \A l \in L : f[l] = IF l = y THEN A[k][y] * e ELSE 0
    <2>1. ASSUME NEW l \in L
          PROVE f[l] = (IF l = y THEN A[k][y] * e ELSE 0) /\ f[l] \in Int
        <3>1. f[l] = A[k][l] * h[l]
            BY DEF Both
        <3>2. A[k][l] \in Int /\ h[l] = IF l = y THEN e ELSE 0
            BY <1>3, <1>8
        <3> HIDE DEF f, h
        <3>3. A[k][l] * 0 = 0 /\ A[k][l] * e \in Int
            BY <1>4, <3>2
        <3>4. CASE l = y
            BY <3>1, <3>2, <3>3, <3>4
        <3>5. CASE l # y
            BY <3>1, <3>2, <3>3, <3>5
        <3> QED
            BY <3>4, <3>5
    <2>2. f = [l \in L |-> f[l]]
        BY DEF Both
    <2> HIDE DEF f
    <2> QED
        BY <2>1, <2>2
<1>21. SumFunction(f) = A[k][y] * e
    <2> HIDE DEF f
    <2>1. f[y] = A[k][y] * e /\ \A l \in L : l # y => f[l] = 0
        BY <1>20
    <2> QED
        <3>1. f \in [L -> Int]
            BY <1>20
        <3>2. OnlyAt(L, f, y)
            BY <2>1, <3>1 DEF OnlyAt
        <3>3. SumFunction(f) = f[y]
            BY <1>1, <3>2, SumSingle
        <3> QED
            BY <2>1, <3>3
<1> QED
    BY <1>7, <1>18, <1>19, <1>21 DEF k, e

-----------------------------------------------------------------------------
(* What ForwardBackward defines are such sums. *)

\* A table filled from v, each place from the one before.
Iterated(n, V, v, g, A) ==
    /\ A \in [0 .. n - 1 -> V]
    /\ A[0] = v
    /\ \A x \in 1 .. n - 1 : A[x] = g[x][A[x - 1]]

\* There is such a table.
LEMMA Iterates ==
    ASSUME NEW n \in Nat \ {0}, NEW V, NEW v \in V, NEW g \in [1 .. n - 1 -> [V -> V]]
    PROVE  \E A : Iterated(n, V, v, g, A)
<1> DEFINE Good(k, f) ==
               /\ f \in [0 .. k -> V]
               /\ f[0] = v
               /\ \A x \in 1 .. k : f[x] = g[x][f[x - 1]]
           D == {k \in Nat : k <= n - 1 => \E f : Good(k, f)}
<1>1. 0 \in D
    <2> DEFINE f == [x \in 0 .. 0 |-> v]
    <2>1. Good(0, f)
        OBVIOUS
    <2> QED
        BY <2>1
<1>2. ASSUME NEW k \in D PROVE k + 1 \in D
    <2> SUFFICES ASSUME k + 1 <= n - 1 PROVE \E f : Good(k + 1, f)
        <3> HIDE DEF Good
        <3> QED
            OBVIOUS
    <2>1. k \in Nat /\ k <= n - 1
        OBVIOUS
    <2>2. PICK f : Good(k, f)
        BY <2>1
    <2> HIDE DEF D
    <2> DEFINE z == k + 1
               h == [x \in 0 .. z |-> IF x = z THEN g[z][f[k]] ELSE f[x]]
    <2>3. /\ z \in 1 .. n - 1 /\ z \in 0 .. z /\ k \in 0 .. k /\ z - 1 = k
          /\ \A x \in 0 .. z : x = z \/ x \in 0 .. k
          /\ \A x \in 0 .. k : x # z /\ x \in 0 .. z
          /\ \A x \in 1 .. z : x = z \/ (x \in 1 .. k /\ x \in 0 .. k /\ x - 1 \in 0 .. k)
        BY <2>1
    <2> HIDE DEF z
    <2>4. g[z][f[k]] \in V
        BY <2>2, <2>3
    <2>5. h \in [0 .. z -> V] /\ h[z] = g[z][f[k]] /\ \A x \in 0 .. k : h[x] = f[x]
        BY <2>2, <2>3, <2>4
    <2> HIDE DEF h
    <2>6. h[0] = v
        BY <2>1, <2>2, <2>5
    <2>7. ASSUME NEW x \in 1 .. z PROVE h[x] = g[x][h[x - 1]]
        <3>1. CASE x = z
            BY <2>3, <2>5, <3>1
        <3>2. CASE x \in 1 .. k /\ x \in 0 .. k /\ x - 1 \in 0 .. k
            BY <2>2, <2>5, <3>2
        <3> QED
            BY <2>3, <3>1, <3>2
    <2>8. Good(z, h)
        BY <2>5, <2>6, <2>7
    <2> HIDE DEF Good
    <2> QED
        BY <2>8 DEF z
<1>3. D = Nat
    <2> HIDE DEF D
    <2>1. D \in SUBSET Nat
        BY DEF D
    <2> QED
        BY <1>1, <1>2, <2>1, NatSetInduction
<1>4. \E f : Good(n - 1, f)
    <2>1. n - 1 \in Nat
        OBVIOUS
    <2> HIDE DEF Good
    <2> QED
        BY <1>3, <2>1
<1> QED
    BY <1>4 DEF Iterated

\* exp of a lattice's nodes and paths.
ExpNode(lt) == [x \in 0 .. lt.len - 1 |-> [y \in Labels |-> Exp(lt.node[x][y])]]
ExpPath(lt) ==
    [x \in 1 .. lt.len - 1 |-> [l \in Labels |-> [r \in Labels |-> Exp(lt.path[x][l][r])]]]

\* A lattice is a Setting.
LEMMA LatticeSetting ==
    ASSUME NEW lt \in Lattices
    PROVE  /\ Setting(lt.len, Labels, ExpNode(lt), ExpPath(lt))
           /\ Tokens(lt) = 0 .. lt.len - 1 /\ 0 \in Labels
<1>1. lt.len \in Nat \ {0}
    BY LatticesAssumption
<1>2. IsFiniteSet(Labels) /\ 0 \in Labels
    BY SizeAssumption, FS_Interval DEF Labels
<1>3. \A x \in 0 .. lt.len - 1, y \in Labels : Exp(lt.node[x][y]) \in Int
    BY ExpAssumption DEF Tokens
<1>4. \A x \in 1 .. lt.len - 1, l, y \in Labels : Exp(lt.path[x][l][y]) \in Int
    BY ExpAssumption
<1>5. ExpNode(lt) \in [0 .. lt.len - 1 -> [Labels -> Int]]
    BY <1>3 DEF ExpNode
<1>6. ExpPath(lt) \in [1 .. lt.len - 1 -> [Labels -> [Labels -> Int]]]
    BY <1>4 DEF ExpPath
<1> QED
    BY <1>1, <1>2, <1>5, <1>6 DEF Setting, Tokens

\* How Alpha, Beta and Weight go from one token to the next.
FromLeft(lt, A, x, y) == SumFunction([l \in Labels |-> Exp(lt.path[x][l][y]) * A[x - 1][l]])
FromRight(lt, B, x, y) == SumFunction([r \in Labels |-> Exp(lt.path[x + 1][y][r]) * B[x + 1][r]])

\* The tables that the recursive definitions choose.
IsAlpha(lt, A) ==
    A = [x \in Tokens(lt) |->
           [y \in Labels |-> Exp(lt.node[x][y]) * (IF x = 0 THEN 1 ELSE FromLeft(lt, A, x, y))]]
IsBeta(lt, B) ==
    B = [x \in Tokens(lt) |->
           [y \in Labels |->
              Exp(lt.node[x][y]) * (IF x = lt.len - 1 THEN 1 ELSE FromRight(lt, B, x, y))]]
IsWeight(lt, t, W) ==
    W = [x \in Tokens(lt) |->
           Exp(lt.node[x][t[x]]) *
             (IF x = 0 THEN 1 ELSE Exp(lt.path[x][t[x - 1]][t[x]]) * W[x - 1])]

\* The products along a tagging.
Weights(lt, t) == CHOOSE W : IsWeight(lt, t, W)

\* The recursive definitions choose those tables.
LEMMA RecursionsMean ==
    ASSUME NEW lt
    PROVE  /\ Alpha(lt) = CHOOSE A : IsAlpha(lt, A)
           /\ Beta(lt) = CHOOSE B : IsBeta(lt, B)
           /\ \A t : Weight(lt, t) = Weights(lt, t)[lt.len - 1]
<1>1. Alpha(lt) = CHOOSE A : IsAlpha(lt, A)
    BY Zenon DEF Alpha, IsAlpha, FromLeft
<1>2. Beta(lt) = CHOOSE B : IsBeta(lt, B)
    BY Zenon DEF Beta, IsBeta, FromRight
<1>3. \A t : Weight(lt, t) = Weights(lt, t)[lt.len - 1]
    BY Zenon DEF Weight, Weights, IsWeight
<1> QED
    BY <1>1, <1>2, <1>3

\* Alpha is calcAlpha's recursion: such a table exists, so it is chosen.
LEMMA AlphaForward ==
    ASSUME NEW lt \in Lattices
    PROVE  Forward(lt.len, Labels, ExpNode(lt), ExpPath(lt), Alpha(lt))
<1> DEFINE n == lt.len
           u == ExpNode(lt)
           w == ExpPath(lt)
           V == [Labels -> Int]
<1>1. /\ Setting(n, Labels, u, w) /\ Tokens(lt) = 0 .. n - 1
      /\ n \in Nat \ {0} /\ IsFiniteSet(Labels)
      /\ u \in [0 .. n - 1 -> V] /\ w \in [1 .. n - 1 -> [Labels -> V]]
    BY LatticeSetting DEF Setting
<1>2. \A x \in 0 .. n - 1, y \in Labels : u[x][y] = Exp(lt.node[x][y]) /\ u[x][y] \in Int
    <2>1. \A x \in 0 .. n - 1, y \in Labels : u[x][y] = Exp(lt.node[x][y])
        BY DEF ExpNode
    <2> HIDE DEF u, n
    <2> QED
        BY <1>1, <2>1
<1>3. ASSUME NEW A, NEW x \in 1 .. n - 1, NEW y \in Labels
      PROVE  FromLeft(lt, A, x, y) = SumFunction(Into(Labels, w, A[x - 1], x, y))
    <2>1. \A l \in Labels : w[x][l][y] = Exp(lt.path[x][l][y])
        BY DEF ExpPath
    <2> HIDE DEF w
    <2>2. Into(Labels, w, A[x - 1], x, y) = [l \in Labels |-> Exp(lt.path[x][l][y]) * A[x - 1][l]]
        BY <2>1 DEF Into
    <2> QED
        BY <2>2 DEF FromLeft
<1>4. ASSUME NEW f \in V, NEW x \in 1 .. n - 1, NEW y \in Labels
      PROVE  u[x][y] * SumFunction(Into(Labels, w, f, x, y)) \in Int
    <2>1. \A l \in Labels : w[x][l][y] * f[l] \in Int
        <3> HIDE DEF w, n
        <3> SUFFICES ASSUME NEW l \in Labels PROVE w[x][l][y] * f[l] \in Int
            OBVIOUS
        <3>1. w[x][l][y] \in Int /\ f[l] \in Int
            BY <1>1
        <3> QED
            BY <3>1
    <2> DEFINE q == Into(Labels, w, f, x, y)
    <2>2. q \in V
        BY <2>1 DEF Into
    <2>3. x \in 0 .. n - 1
        BY <1>1
    <2> HIDE DEF q, u, n, w
    <2>4. SumFunction(q) \in Int /\ u[x][y] \in Int
        BY <1>1, <1>2, <2>2, <2>3, SumInt
    <2>5. u[x][y] * SumFunction(q) \in Int
        BY <2>4
    <2> QED
        BY <2>5 DEF q
<1> HIDE DEF n, u, w
<1>5. PICK A : IsAlpha(lt, A)
    <2> DEFINE g == [x \in 1 .. n - 1 |-> [f \in V |->
                        [y \in Labels |-> u[x][y] * SumFunction(Into(Labels, w, f, x, y))]]]
    <2>1. g \in [1 .. n - 1 -> [V -> V]]
        BY <1>4
    <2>2. u[0] \in V
        BY <1>1
    <2>3. \A x \in 1 .. n - 1, f \in V :
            g[x][f] = [z \in Labels |-> u[x][z] * SumFunction(Into(Labels, w, f, x, z))]
        OBVIOUS
    <2> HIDE DEF g
    <2>4. PICK A : Iterated(n, V, u[0], g, A)
        BY <1>1, <2>1, <2>2, Iterates
    <2>5. A \in [0 .. n - 1 -> V] /\ A[0] = u[0] /\ \A x \in 1 .. n - 1 : A[x] = g[x][A[x - 1]]
        BY <2>4 DEF Iterated
    <2>6. ASSUME NEW x \in 0 .. n - 1
          PROVE  A[x] = [y \in Labels |->
                    Exp(lt.node[x][y]) * (IF x = 0 THEN 1 ELSE FromLeft(lt, A, x, y))]
        <3>1. CASE x = 0
            <4>1. \A y \in Labels : A[x][y] = Exp(lt.node[x][y]) * 1
                BY <1>1, <1>2, <2>5, <3>1
            <4>2. A[x] \in V
                BY <2>5
            <4> QED
                BY <3>1, <4>1, <4>2
        <3>2. CASE x \in 1 .. n - 1
            <4>1. A[x - 1] \in V
                BY <1>1, <2>5, <3>2
            <4>2. A[x] = [z \in Labels |-> u[x][z] * SumFunction(Into(Labels, w, A[x - 1], x, z))]
                BY <2>3, <2>5, <3>2, <4>1
            <4>3. \A z \in Labels : u[x][z] = Exp(lt.node[x][z])
                       /\ SumFunction(Into(Labels, w, A[x - 1], x, z)) = FromLeft(lt, A, x, z)
                BY <1>2, <1>3, <3>2
            <4>4. x # 0
                BY <3>2
            <4> QED
                BY <4>2, <4>3, <4>4
        <3>3. x = 0 \/ x \in 1 .. n - 1
            BY <1>1
        <3> QED
            BY <3>1, <3>2, <3>3
    <2>7. IsAlpha(lt, A)
        BY <1>1, <2>5, <2>6 DEF IsAlpha
    <2> QED
        BY <2>7
<1>6. IsAlpha(lt, Alpha(lt))
    BY <1>5, RecursionsMean, Zenon
<1> DEFINE B == Alpha(lt)
<1> HIDE DEF B
<1>7. ASSUME NEW x \in 0 .. n - 1
      PROVE  B[x] = [y \in Labels |->
                Exp(lt.node[x][y]) * (IF x = 0 THEN 1 ELSE FromLeft(lt, B, x, y))]
    BY <1>1, <1>6 DEF B, IsAlpha
<1>8. \A y \in Labels : B[0][y] = u[0][y]
    <2> SUFFICES ASSUME NEW y \in Labels PROVE B[0][y] = u[0][y]
        OBVIOUS
    <2>1. 0 \in 0 .. n - 1
        BY <1>1
    <2>2. B[0][y] = Exp(lt.node[0][y]) * 1
        BY <1>7, <2>1
    <2>3. u[0][y] = Exp(lt.node[0][y]) /\ u[0][y] \in Int
        BY <1>2, <2>1
    <2> QED
        BY <2>2, <2>3
<1>9. ASSUME NEW x \in 1 .. n - 1, NEW y \in Labels
      PROVE  B[x][y] = u[x][y] * SumFunction(Into(Labels, w, B[x - 1], x, y))
    <2>1. x \in 0 .. n - 1 /\ x # 0
        BY <1>1
    <2>2. B[x][y] = Exp(lt.node[x][y]) * FromLeft(lt, B, x, y)
        BY <1>7, <2>1
    <2> QED
        BY <1>2, <1>3, <2>1, <2>2
<1> DEFINE D == {x \in Nat : x <= n - 1 => B[x] \in V}
<1>10. 0 \in D
    <2>1. 0 \in 0 .. n - 1
        BY <1>1
    <2>2. B[0] = [y \in Labels |-> B[0][y]]
        BY <1>7, <2>1
    <2>3. \A y \in Labels : B[0][y] \in Int
        BY <1>2, <1>8, <2>1
    <2> QED
        BY <2>2, <2>3
<1>11. ASSUME NEW x \in D PROVE x + 1 \in D
    <2> SUFFICES ASSUME x + 1 <= n - 1 PROVE B[x + 1] \in V
        OBVIOUS
    <2> DEFINE z == x + 1
    <2>1. z \in 1 .. n - 1 /\ z \in 0 .. n - 1 /\ z - 1 = x /\ B[x] \in V
        BY <1>1
    <2> HIDE DEF z
    <2>2. B[z] = [y \in Labels |-> B[z][y]]
        BY <1>7, <2>1
    <2>3. \A y \in Labels : B[z][y] \in Int
        BY <1>4, <1>9, <2>1
    <2> QED
        BY <2>2, <2>3 DEF z
<1>12. D = Nat
    <2> HIDE DEF D
    <2>1. D \in SUBSET Nat
        BY DEF D
    <2> QED
        BY <1>10, <1>11, <2>1, NatSetInduction
<1>13. \A x \in 0 .. n - 1 : B[x] \in V
    <2> SUFFICES ASSUME NEW x \in 0 .. n - 1 PROVE B[x] \in V
        OBVIOUS
    <2>1. x \in Nat /\ x <= n - 1
        BY <1>1
    <2> QED
        BY <1>12, <2>1
<1>14. B \in [0 .. n - 1 -> V]
    <2>1. B = [x \in 0 .. n - 1 |-> B[x]]
        BY <1>1, <1>6 DEF IsAlpha, B
    <2> QED
        BY <1>13, <2>1
<1>15. Forward(n, Labels, u, w, B)
    BY <1>8, <1>9, <1>14 DEF Forward
<1> QED
    BY <1>15 DEF n, u, w, B

\* What calcBeta has of a node before the node's own exp.
Behind(lt) ==
    [x \in 0 .. lt.len - 1 |-> [y \in Labels |->
        IF x = lt.len - 1 THEN 1 ELSE FromRight(lt, Beta(lt), x, y)]]

\* q is u times c, label by label.
Multiplies(L, q, u, c) == \A l \in L : q[l] = u[l] * c[l]

\* Beta is a node's own exp times calcBeta's recursion.
LEMMA BetaBackward ==
    ASSUME NEW lt \in Lattices
    PROVE  /\ Backward(lt.len, Labels, ExpNode(lt), ExpPath(lt), Behind(lt))
           /\ \A x \in 0 .. lt.len - 1, y \in Labels :
                Beta(lt)[x][y] = ExpNode(lt)[x][y] * Behind(lt)[x][y]
<1> DEFINE n == lt.len
           u == ExpNode(lt)
           w == ExpPath(lt)
           V == [Labels -> Int]
<1>1. /\ Setting(n, Labels, u, w) /\ Tokens(lt) = 0 .. n - 1
      /\ n \in Nat \ {0} /\ IsFiniteSet(Labels)
      /\ u \in [0 .. n - 1 -> V] /\ w \in [1 .. n - 1 -> [Labels -> V]]
    BY LatticeSetting DEF Setting
<1>2. \A x \in 0 .. n - 1, y \in Labels : u[x][y] = Exp(lt.node[x][y]) /\ u[x][y] \in Int
    <2>1. \A x \in 0 .. n - 1, y \in Labels : u[x][y] = Exp(lt.node[x][y])
        BY DEF ExpNode
    <2> HIDE DEF u, n
    <2> QED
        BY <1>1, <2>1
<1>3. ASSUME NEW Q, NEW c, NEW x \in 1 .. n - 1, NEW y \in Labels,
             Multiplies(Labels, Q[x], u[x], c)
      PROVE  FromRight(lt, Q, x - 1, y) = SumFunction(OutOf(Labels, u, w, c, x, y))
    <2>1. \A r \in Labels : w[x][y][r] = Exp(lt.path[x][y][r])
        BY DEF ExpPath
    <2>2. (x - 1) + 1 = x
        BY <1>1
    <2> HIDE DEF w, u, n
    <2>3. [r \in Labels |-> Exp(lt.path[(x - 1) + 1][y][r]) * Q[(x - 1) + 1][r]]
            = OutOf(Labels, u, w, c, x, y)
        BY <1>3, <2>1, <2>2 DEF OutOf, Multiplies
    <2> QED
        BY <2>3 DEF FromRight
<1>4. ASSUME NEW f \in V, NEW x \in 1 .. n - 1, NEW y \in Labels
      PROVE  SumFunction(OutOf(Labels, u, w, f, x, y)) \in Int
    <2>1. \A r \in Labels : w[x][y][r] * (u[x][r] * f[r]) \in Int
        <3> SUFFICES ASSUME NEW r \in Labels PROVE w[x][y][r] * (u[x][r] * f[r]) \in Int
            OBVIOUS
        <3>1. x \in 0 .. n - 1
            BY <1>1
        <3> HIDE DEF w, n, u
        <3>2. u[x][r] \in Int
            BY <1>2, <3>1
        <3>3. w[x] \in [Labels -> V]
            BY <1>1
        <3>4. w[x][y][r] \in Int /\ f[r] \in Int
            BY <3>3
        <3> QED
            BY <3>2, <3>4
    <2> DEFINE q == OutOf(Labels, u, w, f, x, y)
    <2>2. q \in V
        BY <2>1 DEF OutOf
    <2> HIDE DEF q
    <2> QED
        BY <1>1, <2>2, SumInt DEF q
<1> HIDE DEF n, u, w
<1>5. \E q : IsBeta(lt, q)
    <2> DEFINE g == [d \in 1 .. n - 1 |-> [f \in V |->
                        [y \in Labels |-> SumFunction(OutOf(Labels, u, w, f, n - d, y))]]]
               one == [y \in Labels |-> 1]
    <2>1. g \in [1 .. n - 1 -> [V -> V]]
        <3>1. \A d \in 1 .. n - 1 : n - d \in 1 .. n - 1
            BY <1>1
        <3> QED
            BY <1>4, <3>1
    <2>2. one \in V /\ \A y \in Labels : one[y] = 1
        OBVIOUS
    <2>3. \A d \in 1 .. n - 1, f \in V :
            g[d][f] = [y \in Labels |-> SumFunction(OutOf(Labels, u, w, f, n - d, y))]
        OBVIOUS
    <2> HIDE DEF g, one
    <2>4. PICK C : Iterated(n, V, one, g, C)
        BY <1>1, <2>1, <2>2, Iterates
    <2>5. C \in [0 .. n - 1 -> V] /\ C[0] = one /\ \A d \in 1 .. n - 1 : C[d] = g[d][C[d - 1]]
        BY <2>4 DEF Iterated
    <2> DEFINE b == [x \in 0 .. n - 1 |-> C[n - 1 - x]]
               B == [x \in 0 .. n - 1 |-> [y \in Labels |-> u[x][y] * b[x][y]]]
    <2>6. \A x \in 0 .. n - 1 : n - 1 - x \in 0 .. n - 1
        BY <1>1
    <2>7. b \in [0 .. n - 1 -> V] /\ \A x \in 0 .. n - 1 : b[x] = C[n - 1 - x]
        BY <2>5, <2>6
    <2>8. \A x \in 0 .. n - 1, y \in Labels : B[x][y] = u[x][y] * b[x][y]
        OBVIOUS
    <2> HIDE DEF b
    <2>9. ASSUME NEW x \in 0 .. n - 1, NEW y \in Labels
          PROVE  b[x][y] = IF x = n - 1 THEN 1 ELSE FromRight(lt, B, x, y)
        <3>1. CASE x = n - 1
            <4>1. n - 1 - x = 0
                BY <1>1, <3>1
            <4>2. b[x] = one
                BY <2>5, <2>7, <4>1
            <4> QED
                BY <2>2, <3>1, <4>2
        <3>2. CASE x # n - 1
            <4> DEFINE z == x + 1
                       d == n - 1 - x
            <4>1. /\ z \in 1 .. n - 1 /\ z \in 0 .. n - 1 /\ d \in 1 .. n - 1 /\ n - d = z
                  /\ n - 1 - z = d - 1 /\ d - 1 \in 0 .. n - 1 /\ z - 1 = x
                BY <1>1, <3>2
            <4>2. b[x] = C[d]
                BY <2>7
            <4> HIDE DEF z, d
            <4>3. b[z] = C[d - 1] /\ C[d - 1] \in V
                BY <2>5, <2>7, <4>1
            <4>4. C[d] = [t \in Labels |-> SumFunction(OutOf(Labels, u, w, b[z], z, t))]
                <5>1. C[d] = g[d][b[z]] /\ b[z] \in V
                    BY <2>5, <4>1, <4>3
                <5>2. g[d][b[z]] = [t \in Labels |-> SumFunction(OutOf(Labels, u, w, b[z], n - d, t))]
                    BY <2>3, <4>1, <5>1
                <5> QED
                    BY <4>1, <5>1, <5>2
            <4>5. Multiplies(Labels, B[z], u[z], b[z])
                BY <2>8, <4>1 DEF Multiplies
            <4> HIDE DEF B
            <4>6. FromRight(lt, B, z - 1, y) = SumFunction(OutOf(Labels, u, w, b[z], z, y))
                BY <1>3, <4>1, <4>5
            <4> QED
                BY <3>2, <4>1, <4>2, <4>4, <4>6
        <3> QED
            BY <3>1, <3>2
    <2>10. B = [x \in 0 .. n - 1 |-> [y \in Labels |-> B[x][y]]]
        OBVIOUS
    <2> HIDE DEF B
    <2>11. \A x \in 0 .. n - 1, y \in Labels :
             B[x][y] = Exp(lt.node[x][y]) * (IF x = n - 1 THEN 1 ELSE FromRight(lt, B, x, y))
        <3> SUFFICES ASSUME NEW x \in 0 .. n - 1, NEW y \in Labels
             PROVE B[x][y] = Exp(lt.node[x][y]) * (IF x = n - 1 THEN 1 ELSE FromRight(lt, B, x, y))
            OBVIOUS
        <3>1. B[x][y] = u[x][y] * b[x][y] /\ u[x][y] = Exp(lt.node[x][y])
            BY <1>2, <2>8
        <3> QED
            BY <2>9, <3>1
    <2>12. IsBeta(lt, B)
        <3>1. ASSUME NEW x \in 0 .. n - 1
              PROVE  B[x] = [y \in Labels |->
                        Exp(lt.node[x][y]) * (IF x = n - 1 THEN 1 ELSE FromRight(lt, B, x, y))]
            <4>1. B[x] = [y \in Labels |-> B[x][y]]
                BY <2>10
            <4> QED
                BY <2>11, <4>1
        <3>2. B = [x \in 0 .. n - 1 |-> B[x]]
            BY <2>10
        <3>3. B = [x \in Tokens(lt) |-> [y \in Labels |->
                    Exp(lt.node[x][y]) * (IF x = n - 1 THEN 1 ELSE FromRight(lt, B, x, y))]]
            BY <1>1, <3>1, <3>2
        <3> QED
            BY <3>3, Zenon DEF IsBeta, n
    <2> QED
        BY <2>12
<1>6. IsBeta(lt, Beta(lt))
    BY <1>5, RecursionsMean, Zenon
<1> DEFINE B == Beta(lt)
           b == Behind(lt)
<1>7. \A x \in 0 .. n - 1, y \in Labels :
        b[x][y] = IF x = n - 1 THEN 1 ELSE FromRight(lt, B, x, y)
    BY DEF Behind, n
<1>8. b = [x \in 0 .. n - 1 |-> [y \in Labels |-> b[x][y]]]
    BY DEF Behind, n
<1> HIDE DEF B, b
<1>9. \A x \in 0 .. n - 1, y \in Labels : B[x][y] = u[x][y] * b[x][y]
    <2> SUFFICES ASSUME NEW x \in 0 .. n - 1, NEW y \in Labels PROVE B[x][y] = u[x][y] * b[x][y]
        OBVIOUS
    <2>1. B[x][y] = Exp(lt.node[x][y]) * (IF x = n - 1 THEN 1 ELSE FromRight(lt, B, x, y))
        <3>1. B = [z \in Tokens(lt) |-> [r \in Labels |->
                    Exp(lt.node[z][r]) * (IF z = n - 1 THEN 1 ELSE FromRight(lt, B, z, r))]]
            BY <1>6, Zenon DEF IsBeta, B, n
        <3>2. B[x] = [r \in Labels |->
                    Exp(lt.node[x][r]) * (IF x = n - 1 THEN 1 ELSE FromRight(lt, B, x, r))]
            BY <1>1, <3>1
        <3> QED
            BY <3>2
    <2> QED
        BY <1>2, <1>7, <2>1
<1>10. \A y \in Labels : b[n - 1][y] = 1
    <2>1. n - 1 \in 0 .. n - 1
        BY <1>1
    <2> QED
        BY <1>7, <2>1
<1>11. ASSUME NEW x \in 1 .. n - 1, NEW y \in Labels
       PROVE  b[x - 1][y] = SumFunction(OutOf(Labels, u, w, b[x], x, y))
    <2>1. x \in 0 .. n - 1 /\ x - 1 \in 0 .. n - 1 /\ x - 1 # n - 1
        BY <1>1
    <2>2. Multiplies(Labels, B[x], u[x], b[x])
        BY <1>9, <2>1 DEF Multiplies
    <2>3. FromRight(lt, B, x - 1, y) = SumFunction(OutOf(Labels, u, w, b[x], x, y))
        BY <1>3, <2>2, Zenon
    <2> QED
        BY <1>7, <2>1, <2>3
<1> DEFINE D == {d \in Nat : d <= n - 1 => b[n - 1 - d] \in V}
<1>12. 0 \in D
    <2>1. n - 1 \in 0 .. n - 1 /\ n - 1 - 0 = n - 1
        BY <1>1
    <2>2. b[n - 1] = [y \in Labels |-> b[n - 1][y]]
        BY <1>8, <2>1
    <2>3. b[n - 1] \in V
        BY <1>10, <2>2
    <2> QED
        BY <2>1, <2>3
<1>13. ASSUME NEW d \in D PROVE d + 1 \in D
    <2> SUFFICES ASSUME d + 1 <= n - 1 PROVE b[n - 1 - (d + 1)] \in V
        OBVIOUS
    <2> DEFINE z == n - 1 - d
    <2>1. z \in 1 .. n - 1 /\ z - 1 \in 0 .. n - 1 /\ z - 1 = n - 1 - (d + 1) /\ b[z] \in V
        BY <1>1
    <2> HIDE DEF z
    <2>2. b[z - 1] = [y \in Labels |-> b[z - 1][y]]
        BY <1>8, <2>1
    <2>3. \A y \in Labels : b[z - 1][y] \in Int
        BY <1>4, <1>11, <2>1
    <2>4. b[z - 1] \in V
        BY <2>2, <2>3
    <2> QED
        BY <2>1, <2>4
<1>14. D = Nat
    <2> HIDE DEF D
    <2>1. D \in SUBSET Nat
        BY DEF D
    <2> QED
        BY <1>12, <1>13, <2>1, NatSetInduction
<1>15. \A x \in 0 .. n - 1 : b[x] \in V
    <2> SUFFICES ASSUME NEW x \in 0 .. n - 1 PROVE b[x] \in V
        OBVIOUS
    <2>1. n - 1 - x \in Nat /\ n - 1 - x <= n - 1 /\ n - 1 - (n - 1 - x) = x
        BY <1>1
    <2>2. b[n - 1 - (n - 1 - x)] \in V
        BY <1>14, <2>1
    <2> QED
        BY <2>1, <2>2
<1>16. b \in [0 .. n - 1 -> V]
    BY <1>8, <1>15
<1>17. Backward(n, Labels, u, w, b)
    BY <1>10, <1>11, <1>16 DEF Backward
<1> QED
    BY <1>9, <1>17 DEF n, u, w, B, b

\* Weight is the product along a tagging.
LEMMA WeightProducts ==
    ASSUME NEW lt \in Lattices
    PROVE  Products(lt.len, Labels, ExpNode(lt), ExpPath(lt),
                    [t \in Taggings(lt) |-> Weights(lt, t)])
<1> DEFINE n == lt.len
           u == ExpNode(lt)
           w == ExpPath(lt)
           V == [Labels -> Int]
           X == [t \in Taggings(lt) |-> Weights(lt, t)]
<1>1. /\ Setting(n, Labels, u, w) /\ Tokens(lt) = 0 .. n - 1
      /\ n \in Nat \ {0}
      /\ u \in [0 .. n - 1 -> V] /\ w \in [1 .. n - 1 -> [Labels -> V]]
      /\ Taggings(lt) = [0 .. n - 1 -> Labels]
    BY LatticeSetting DEF Setting, Taggings
<1>2. \A x \in 0 .. n - 1, y \in Labels : u[x][y] = Exp(lt.node[x][y]) /\ u[x][y] \in Int
    <2>1. \A x \in 0 .. n - 1, y \in Labels : u[x][y] = Exp(lt.node[x][y])
        BY DEF ExpNode
    <2> HIDE DEF u, n
    <2> QED
        BY <1>1, <2>1
<1>3. \A x \in 1 .. n - 1, l, r \in Labels :
        w[x][l][r] = Exp(lt.path[x][l][r]) /\ w[x][l][r] \in Int
    <2>1. \A x \in 1 .. n - 1, l, r \in Labels : w[x][l][r] = Exp(lt.path[x][l][r])
        BY DEF ExpPath
    <2> HIDE DEF w, n
    <2> QED
        BY <1>1, <2>1
<1> HIDE DEF n, u, w
<1>4. ASSUME NEW t \in [0 .. n - 1 -> Labels]
      PROVE  /\ Weights(lt, t) \in [0 .. n - 1 -> Int]
             /\ Weights(lt, t)[0] = u[0][t[0]]
             /\ \A x \in 1 .. n - 1 :
                  Weights(lt, t)[x] = u[x][t[x]] * (w[x][t[x - 1]][t[x]] * Weights(lt, t)[x - 1])
    <2> DEFINE e(x) == u[x][t[x]]
               f(x) == w[x][t[x - 1]][t[x]]
    <2>1. \A x \in 0 .. n - 1 : t[x] \in Labels /\ e(x) \in Int /\ e(x) = Exp(lt.node[x][t[x]])
        BY <1>2
    <2>2. ASSUME NEW x \in 1 .. n - 1
          PROVE  /\ f(x) \in Int /\ f(x) = Exp(lt.path[x][t[x - 1]][t[x]])
                 /\ x \in 0 .. n - 1 /\ x - 1 \in 0 .. n - 1 /\ x # 0
        <3>1. x \in 0 .. n - 1 /\ x - 1 \in 0 .. n - 1 /\ x # 0
            BY <1>1
        <3> QED
            BY <1>3, <2>1, <3>1
    <2>3. \A x \in 0 .. n - 1 : x = 0 \/ x \in 1 .. n - 1
        BY <1>1
    <2>4. 0 \in 0 .. n - 1
        BY <1>1
    <2> HIDE DEF e, f
    <2>5. \E q : IsWeight(lt, t, q)
        <3> DEFINE g == [x \in 1 .. n - 1 |-> [m \in Int |-> e(x) * (f(x) * m)]]
        <3>1. \A x \in 1 .. n - 1, m \in Int : e(x) * (f(x) * m) \in Int
            <4> SUFFICES ASSUME NEW x \in 1 .. n - 1, NEW m \in Int
                         PROVE  e(x) * (f(x) * m) \in Int
                OBVIOUS
            <4>1. e(x) \in Int /\ f(x) \in Int
                BY <2>1, <2>2
            <4> QED
                BY <4>1
        <3>2. g \in [1 .. n - 1 -> [Int -> Int]]
            BY <3>1
        <3>3. \A x \in 1 .. n - 1, m \in Int : g[x][m] = e(x) * (f(x) * m)
            OBVIOUS
        <3> HIDE DEF g
        <3>4. e(0) \in Int
            BY <2>1, <2>4
        <3>5. PICK W : Iterated(n, Int, e(0), g, W)
            BY <1>1, <3>2, <3>4, Iterates
        <3>6. W \in [0 .. n - 1 -> Int] /\ W[0] = e(0) /\ \A x \in 1 .. n - 1 : W[x] = g[x][W[x - 1]]
            BY <3>5 DEF Iterated
        <3>7. ASSUME NEW x \in 0 .. n - 1
              PROVE  W[x] = Exp(lt.node[x][t[x]]) *
                        (IF x = 0 THEN 1 ELSE Exp(lt.path[x][t[x - 1]][t[x]]) * W[x - 1])
            <4>1. CASE x = 0
                <5>1. Exp(lt.node[x][t[x]]) \in Int /\ W[x] = Exp(lt.node[x][t[x]])
                    BY <2>1, <3>6, <4>1
                <5>2. Exp(lt.node[x][t[x]]) = Exp(lt.node[x][t[x]]) * 1
                    BY <5>1
                <5> QED
                    BY <4>1, <5>1, <5>2
            <4>2. CASE x \in 1 .. n - 1
                <5>1. W[x - 1] \in Int
                    BY <2>2, <3>6, <4>2
                <5>2. W[x] = e(x) * (f(x) * W[x - 1])
                    BY <3>3, <3>6, <4>2, <5>1
                <5> QED
                    BY <2>1, <2>2, <4>2, <5>2
            <4> QED
                BY <2>3, <4>1, <4>2
        <3>8. IsWeight(lt, t, W)
            BY <1>1, <3>6, <3>7 DEF IsWeight
        <3> QED
            BY <3>8
    <2>6. IsWeight(lt, t, Weights(lt, t))
        BY <2>5, Zenon DEF Weights
    <2> DEFINE W == Weights(lt, t)
    <2> HIDE DEF W
    <2>7. /\ W = [x \in 0 .. n - 1 |-> W[x]]
          /\ \A x \in 0 .. n - 1 :
               W[x] = Exp(lt.node[x][t[x]]) *
                        (IF x = 0 THEN 1 ELSE Exp(lt.path[x][t[x - 1]][t[x]]) * W[x - 1])
        BY <1>1, <2>6 DEF IsWeight, W
    <2>8. W[0] = e(0)
        <3>1. W[0] = Exp(lt.node[0][t[0]]) * 1
            BY <2>4, <2>7
        <3>2. e(0) = Exp(lt.node[0][t[0]]) /\ e(0) \in Int
            BY <2>1, <2>4
        <3> QED
            BY <3>1, <3>2
    <2>9. \A x \in 1 .. n - 1 : W[x] = e(x) * (f(x) * W[x - 1])
        <3> SUFFICES ASSUME NEW x \in 1 .. n - 1 PROVE W[x] = e(x) * (f(x) * W[x - 1])
            OBVIOUS
        <3>1. W[x] = Exp(lt.node[x][t[x]]) * (Exp(lt.path[x][t[x - 1]][t[x]]) * W[x - 1])
            BY <2>2, <2>7
        <3> QED
            BY <2>1, <2>2, <3>1
    <2> DEFINE D == {x \in Nat : x <= n - 1 => W[x] \in Int}
    <2>10. 0 \in D
        BY <2>1, <2>4, <2>8
    <2>11. ASSUME NEW x \in D PROVE x + 1 \in D
        <3> SUFFICES ASSUME x + 1 <= n - 1 PROVE W[x + 1] \in Int
            OBVIOUS
        <3> DEFINE z == x + 1
        <3>1. z \in 1 .. n - 1 /\ z - 1 = x /\ W[x] \in Int
            BY <1>1
        <3> HIDE DEF z
        <3>2. e(z) \in Int /\ f(z) \in Int
            BY <2>1, <2>2, <3>1
        <3>3. W[z] = e(z) * (f(z) * W[x])
            BY <2>9, <3>1
        <3>4. W[z] \in Int
            BY <3>1, <3>2, <3>3
        <3> QED
            BY <3>4 DEF z
    <2>12. D = Nat
        <3> HIDE DEF D
        <3>1. D \in SUBSET Nat
            BY DEF D
        <3> QED
            BY <2>10, <2>11, <3>1, NatSetInduction
    <2>13. \A x \in 0 .. n - 1 : W[x] \in Int
        <3> SUFFICES ASSUME NEW x \in 0 .. n - 1 PROVE W[x] \in Int
            OBVIOUS
        <3>1. x \in Nat /\ x <= n - 1
            BY <1>1
        <3> QED
            BY <2>12, <3>1
    <2>14. W \in [0 .. n - 1 -> Int]
        BY <2>7, <2>13
    <2> QED
        BY <2>8, <2>9, <2>14 DEF W, e, f
<1>5. \A t \in [0 .. n - 1 -> Labels] : X[t] = Weights(lt, t)
    BY <1>1
<1>6. X = [t \in [0 .. n - 1 -> Labels] |-> X[t]]
    BY <1>1
<1> HIDE DEF X
<1>7. X \in [[0 .. n - 1 -> Labels] -> [0 .. n - 1 -> Int]]
    BY <1>4, <1>5, <1>6
<1>8. Products(n, Labels, u, w, X)
    BY <1>4, <1>5, <1>7 DEF Products
<1> QED
    BY <1>8 DEF n, u, w, X

-----------------------------------------------------------------------------
(* From the expectations to the gradient. *)

\* The weights of the taggings in h; the places whose set holds t; and for
\* each place, the weight of t where the place holds t and not a, or the
\* other way round.
Held(q, h, T) == [t \in T |-> q[t] * (IF t \in h THEN 1 ELSE 0)]
Holding(H, S, t) == {x \in S : t \in H[x]}
RowsOf(q, H, a, S, T) ==
    [x \in S |-> [t \in T |-> q[t] * ((IF t \in H[x] THEN 1 ELSE 0) - (IF a \in H[x] THEN 1 ELSE 0))]]

\* The cell of a feature: places S, taggings T with weights q, the taggings
\* H[x] that have the feature at place x, the answer a, and the expectation
\* E[x], which is the weight of H[x].
Cells(S, T, q, H, a, E) ==
    /\ IsFiniteSet(S) /\ IsFiniteSet(T)
    /\ q \in [T -> Int] /\ H \in [S -> SUBSET T] /\ a \in T
    /\ E \in [S -> Int]
    /\ \A x \in S : E[x] = SumFunction(Held(q, H[x], T))

\* What a place adds to the cell, and a tagging.
LEMMA RowSums ==
    ASSUME NEW S, NEW T, NEW q, NEW H, NEW a, NEW E, Cells(S, T, q, H, a, E),
           NEW z, z = SumFunction(q), NEW g, g = [x \in S |-> E[x] - (IF a \in H[x] THEN z ELSE 0)]
    PROVE  RowsOf(q, H, a, S, T) \in [S -> [T -> Int]] /\ g = Rows(RowsOf(q, H, a, S, T), S)
<1> DEFINE F == RowsOf(q, H, a, S, T)
<1>1. /\ IsFiniteSet(S) /\ IsFiniteSet(T)
      /\ q \in [T -> Int] /\ H \in [S -> SUBSET T] /\ a \in T
      /\ E \in [S -> Int]
      /\ \A x \in S : E[x] = SumFunction(Held(q, H[x], T))
    BY DEF Cells
<1>2. z \in Int
    BY <1>1, SumInt
<1>3. ASSUME NEW x \in S PROVE F[x] \in [T -> Int] /\ SumFunction(F[x]) = g[x]
    <2> DEFINE h == H[x]
               k == F[x]
               e == IF a \in h THEN 1 ELSE 0
               f == Held(q, h, T)
               m == [t \in T |-> e * q[t]]
    <2>1. e \in Int /\ \A t \in T : q[t] \in Int
        BY <1>1
    <2>2. /\ \A t \in T : f[t] = q[t] * (IF t \in h THEN 1 ELSE 0)
          /\ f = [t \in T |-> f[t]]
        BY DEF Held
    <2>3. /\ \A t \in T : k[t] = q[t] * ((IF t \in h THEN 1 ELSE 0) - e)
          /\ k = [t \in T |-> k[t]]
        BY DEF RowsOf
    <2>4. m = [t \in T |-> m[t]] /\ \A t \in T : m[t] = e * q[t]
        OBVIOUS
    <2>5. E[x] = SumFunction(f) /\ g[x] = E[x] - (IF a \in h THEN z ELSE 0)
        BY <1>1
    <2>6. h = H[x]
        OBVIOUS
    <2> HIDE DEF h, k, f, m
    <2>7. \A t \in T : f[t] \in Int /\ k[t] \in Int /\ m[t] \in Int /\ k[t] = f[t] - m[t]
        <3> SUFFICES ASSUME NEW t \in T
                     PROVE  f[t] \in Int /\ k[t] \in Int /\ m[t] \in Int /\ k[t] = f[t] - m[t]
            OBVIOUS
        <3> DEFINE i1 == IF t \in h THEN 1 ELSE 0
        <3>1. i1 \in Int /\ e \in Int /\ q[t] \in Int
            BY <2>1
        <3>2. f[t] = q[t] * i1 /\ k[t] = q[t] * (i1 - e) /\ m[t] = e * q[t]
            BY <2>2, <2>3, <2>4
        <3> HIDE DEF i1, e
        <3>3. q[t] * (i1 - e) = q[t] * i1 - e * q[t] /\ q[t] * i1 \in Int /\ e * q[t] \in Int
              /\ q[t] * (i1 - e) \in Int
            BY <3>1
        <3> QED
            BY <3>2, <3>3
    <2>8. f \in [T -> Int] /\ k \in [T -> Int] /\ m \in [T -> Int]
        BY <2>2, <2>3, <2>4, <2>7
    <2>9. SumFunction(k) = SumFunction(f) - SumFunction(m)
        BY <1>1, <2>7, <2>8, SumMinus
    <2>10. SumFunction(m) = e * SumFunction(q)
        <3>1. Scaled(T, m, e, q)
            BY <1>1, <2>1, <2>4, <2>8 DEF Scaled
        <3> HIDE DEF e
        <3> QED
            BY <1>1, <3>1, SumTimes
    <2>11. e * z = IF a \in h THEN z ELSE 0
        BY <1>2
    <2>12. SumFunction(k) = g[x]
        BY <2>5, <2>9, <2>10, <2>11
    <2> QED
        BY <2>8, <2>12 DEF k
<1>4. F \in [S -> [T -> Int]]
    BY <1>3 DEF RowsOf
<1>5. g = Rows(F, S)
    BY <1>3 DEF Rows
<1> QED
    BY <1>4, <1>5

LEMMA ColumnSums ==
    ASSUME NEW S, NEW T, NEW q, NEW H, NEW a, NEW E, Cells(S, T, q, H, a, E),
           NEW t \in T
    PROVE  SumFunction(Along(RowsOf(q, H, a, S, T), S, t))
             = q[t] * (Cardinality(Holding(H, S, t)) - Cardinality(Holding(H, S, a)))
<1> DEFINE F == RowsOf(q, H, a, S, T)
           c == q[t]
           k == Along(F, S, t)
           d(r) == [x \in S |-> IF x \in Holding(H, S, r) THEN 1 ELSE 0]
           m == [x \in S |-> d(t)[x] - d(a)[x]]
<1>1. /\ IsFiniteSet(S) /\ q \in [T -> Int] /\ a \in T
    BY DEF Cells
<1>2. ASSUME NEW r
      PROVE  /\ d(r) \in [S -> Int] /\ \A x \in S : d(r)[x] = IF r \in H[x] THEN 1 ELSE 0
             /\ SumFunction(d(r)) = Cardinality(Holding(H, S, r)) /\ Cardinality(Holding(H, S, r)) \in Nat
    <2>1. Holding(H, S, r) \in SUBSET S
        BY DEF Holding
    <2>2. \A x \in S : x \in Holding(H, S, r) <=> r \in H[x]
        BY DEF Holding
    <2>3. d(r) \in [S -> Int] /\ \A x \in S : d(r)[x] = IF r \in H[x] THEN 1 ELSE 0
        BY <2>2
    <2>4. SumFunction(d(r)) = Cardinality(Holding(H, S, r)) /\ Cardinality(Holding(H, S, r)) \in Nat
        BY <1>1, <2>1, SumCounts
    <2> QED
        BY <2>3, <2>4
<1>3. d(t) \in [S -> Int] /\ d(a) \in [S -> Int]
    BY <1>2
<1> DEFINE dt == d(t)
           da == d(a)
<1>4. m \in [S -> Int] /\ \A x \in S : m[x] = dt[x] - da[x]
    <2>1. \A x \in S : d(t)[x] \in Int /\ d(a)[x] \in Int
        BY <1>3
    <2> HIDE DEF d
    <2> QED
        BY <2>1
<1>5. dt \in [S -> Int] /\ da \in [S -> Int]
    BY <1>3
<1>6. k = [x \in S |-> k[x]] /\ \A x \in S :
         k[x] = c * ((IF t \in H[x] THEN 1 ELSE 0) - (IF a \in H[x] THEN 1 ELSE 0))
    BY DEF Along, RowsOf
<1>7. \A x \in S : dt[x] = (IF t \in H[x] THEN 1 ELSE 0) /\ da[x] = (IF a \in H[x] THEN 1 ELSE 0)
    BY <1>2
<1>8. /\ SumFunction(dt) = Cardinality(Holding(H, S, t)) /\ Cardinality(Holding(H, S, t)) \in Nat
      /\ SumFunction(da) = Cardinality(Holding(H, S, a)) /\ Cardinality(Holding(H, S, a)) \in Nat
    BY <1>2
<1>9. c \in Int
    BY <1>1
<1> HIDE DEF dt, da, m, k, c
<1>10. SumFunction(m) = SumFunction(dt) - SumFunction(da)
    BY <1>1, <1>4, <1>5, SumMinus
<1>11. \A x \in S : k[x] = c * m[x] /\ k[x] \in Int
    <2> SUFFICES ASSUME NEW x \in S PROVE k[x] = c * m[x] /\ k[x] \in Int
        OBVIOUS
    <2>1. m[x] \in Int /\ m[x] = dt[x] - da[x]
        BY <1>4
    <2>2. k[x] = c * (dt[x] - da[x])
        BY <1>6, <1>7
    <2>3. c * m[x] \in Int
        BY <1>9, <2>1
    <2> QED
        BY <2>1, <2>2, <2>3
<1>12. Scaled(S, k, c, m)
    BY <1>4, <1>6, <1>9, <1>11 DEF Scaled
<1>13. SumFunction(k) = c * SumFunction(m)
    BY <1>1, <1>12, SumTimes
<1> QED
    BY <1>8, <1>10, <1>13 DEF k, c

\* So the cell is the same, place by place or tagging by tagging.
LEMMA CellSum ==
    ASSUME NEW S, NEW T, NEW q, NEW H, NEW a, NEW E, Cells(S, T, q, H, a, E),
           NEW z, z = SumFunction(q), NEW g, g = [x \in S |-> E[x] - (IF a \in H[x] THEN z ELSE 0)],
           NEW k, k = [t \in T |-> q[t] * (Cardinality(Holding(H, S, t)) - Cardinality(Holding(H, S, a)))]
    PROVE  SumFunction(g) = SumFunction(k)
<1> DEFINE F == RowsOf(q, H, a, S, T)
<1>1. F \in [S -> [T -> Int]] /\ g = Rows(F, S)
    BY RowSums
<1>2. IsFiniteSet(S) /\ IsFiniteSet(T)
    BY DEF Cells
<1>3. k = Columns(F, S, T)
    BY ColumnSums DEF Columns
<1> HIDE DEF F
<1>4. SumFunction(Rows(F, S)) = SumFunction(Columns(F, S, T))
    BY <1>1, <1>2, SumSwap
<1> QED
    BY <1>1, <1>3, <1>4

\* The weight of each tagging.
WeightOf(lt) == [t \in Taggings(lt) |-> Weight(lt, t)]

\* The taggings with a node, and with a path.
WithNode(lt, x, y) == {t \in Taggings(lt) : t[x] = y}
WithPath(lt, x, l, r) == {t \in Taggings(lt) : t[x - 1] = l /\ t[x] = r}

\* Z is the weight of all taggings, and NodeExpectation and PathExpectation
\* that of the taggings with the node and with the path.
LEMMA Expectations ==
    ASSUME NEW lt \in Lattices
    PROVE  /\ IsFiniteSet(Taggings(lt)) /\ WeightOf(lt) \in [Taggings(lt) -> Int]
           /\ Z(lt) = SumFunction(WeightOf(lt))
           /\ \A x \in Tokens(lt), y \in Labels :
                /\ NodeExpectation(lt, x, y)
                     = SumFunction(Held(WeightOf(lt), WithNode(lt, x, y), Taggings(lt)))
                /\ NodeExpectation(lt, x, y) \in Int
           /\ \A x \in 1 .. lt.len - 1, l, r \in Labels :
                /\ PathExpectation(lt, x, l, r)
                     = SumFunction(Held(WeightOf(lt), WithPath(lt, x, l, r), Taggings(lt)))
                /\ PathExpectation(lt, x, l, r) \in Int
<1> DEFINE n == lt.len
           L == Labels
           u == ExpNode(lt)
           w == ExpPath(lt)
           A == Alpha(lt)
           b == Behind(lt)
           X == [t \in Taggings(lt) |-> Weights(lt, t)]
           q == WeightOf(lt)
           T == Taggings(lt)
<1>1. /\ Setting(n, L, u, w) /\ Tokens(lt) = 0 .. n - 1 /\ 0 \in L
      /\ T = [0 .. n - 1 -> L]
    BY LatticeSetting DEF Taggings
<1>2. /\ n \in Nat \ {0} /\ n \in Nat /\ IsFiniteSet(L)
      /\ u \in [0 .. n - 1 -> [L -> Int]] /\ w \in [1 .. n - 1 -> [L -> [L -> Int]]]
    BY <1>1 DEF Setting
<1>3. Forward(n, L, u, w, A) /\ Backward(n, L, u, w, b) /\ Products(n, L, u, w, X)
    BY AlphaForward, BetaBackward, WeightProducts
<1>4. \A x \in 0 .. n - 1, y \in L :
        Beta(lt)[x][y] = u[x][y] * b[x][y] /\ u[x][y] = Exp(lt.node[x][y])
    <2>1. \A x \in 0 .. n - 1, y \in L : u[x][y] = Exp(lt.node[x][y])
        BY DEF ExpNode
    <2> QED
        BY <2>1, BetaBackward
<1>5. \A x \in 1 .. n - 1, l, r \in L : w[x][l][r] = Exp(lt.path[x][l][r])
    BY DEF ExpPath
<1>6. q \in [T -> Int] /\ \A t \in T : q[t] = X[t][n - 1]
    <2>1. \A t \in T : q[t] = X[t][n - 1]
        BY RecursionsMean DEF WeightOf
    <2>2. n - 1 \in 0 .. n - 1 /\ X \in [[0 .. n - 1 -> L] -> [0 .. n - 1 -> Int]]
        BY <1>2, <1>3 DEF Products
    <2>3. q = [t \in T |-> q[t]]
        BY DEF WeightOf
    <2> HIDE DEF q, X, T, n, L
    <2>4. \A t \in T : q[t] \in Int
        BY <1>1, <2>1, <2>2
    <2> QED
        BY <2>1, <2>3, <2>4
<1>7. IsFiniteSet(T)
    BY <1>1, <1>2, PaddedFinite
<1>8. \A x \in 0 .. n - 1, y \in L :
        A[x][y] \in Int /\ b[x][y] \in Int /\ u[x][y] \in Nat \ {0}
    <2>1. A \in [0 .. n - 1 -> [L -> Int]] /\ b \in [0 .. n - 1 -> [L -> Int]]
        BY <1>3 DEF Forward, Backward
    <2>2. \A x \in 0 .. n - 1, y \in L : u[x][y] \in Nat \ {0}
        <3>1. \A x \in Tokens(lt), y \in Labels : Exp(lt.node[x][y]) \in Nat \ {0}
            BY ExpAssumption
        <3> QED
            BY <1>1, <1>4, <3>1
    <2> HIDE DEF A, b, u, n, L
    <2> QED
        BY <2>1, <2>2
<1>9. ASSUME NEW c, NEW h, c = [t \in T |-> IF t \in h THEN 1 ELSE 0]
      PROVE  Scored(X, c, n, L) = Held(q, h, T)
    <2> HIDE DEF q, X, T, n, L
    <2> QED
        BY <1>1, <1>6, <1>9 DEF Scored, Held
<1> HIDE DEF n, L, u, w, A, b, X, q, T
<1>10. Z(lt) = SumFunction(q)
    <2> DEFINE c == Anything(n, L)
    <2>1. SumFunction(Scored(X, c, n, L)) = SumFunction(Both(u[0], b[0], L))
        BY <1>1, <1>3, Total
    <2>2. Scored(X, c, n, L) = q
        <3>1. \A t \in T : X[t][n - 1] * 1 = q[t]
            <4> SUFFICES ASSUME NEW t \in T PROVE X[t][n - 1] * 1 = q[t]
                OBVIOUS
            <4>1. q[t] \in Int /\ X[t][n - 1] = q[t]
                BY <1>6
            <4> QED
                BY <4>1
        <3>2. Scored(X, c, n, L) = [t \in T |-> q[t]]
            BY <1>1, <3>1 DEF Scored, Anything
        <3> QED
            BY <1>6, <3>2
    <2>3. Both(u[0], b[0], L) = [y \in Labels |-> Beta(lt)[0][y]]
        <3>1. 0 \in 0 .. n - 1
            BY <1>2
        <3>2. \A y \in L : Beta(lt)[0][y] = u[0][y] * b[0][y]
            BY <1>4, <3>1
        <3> QED
            BY <3>2 DEF Both, L
    <2> QED
        BY <2>1, <2>2, <2>3 DEF Z
<1>11. ASSUME NEW x \in 0 .. n - 1, NEW y \in L
       PROVE  /\ NodeExpectation(lt, x, y) = SumFunction(Held(q, WithNode(lt, x, y), T))
              /\ NodeExpectation(lt, x, y) \in Int
    <2> DEFINE c == [t \in T |-> IF t \in WithNode(lt, x, y) THEN 1 ELSE 0]
    <2>1. c = OnNode(n, L, x, y)
        BY <1>1 DEF WithNode, T, OnNode
    <2>2. Scored(X, c, n, L) = Held(q, WithNode(lt, x, y), T)
        BY <1>9
    <2> HIDE DEF c
    <2>3. SumFunction(Scored(X, c, n, L)) = A[x][y] * b[x][y]
        BY <1>1, <1>3, <2>1, NodeTotal
    <2>4. NodeExpectation(lt, x, y) = (A[x][y] * (u[x][y] * b[x][y])) \div u[x][y]
        BY <1>4 DEF NodeExpectation, A
    <2> DEFINE a1 == A[x][y]
               b1 == b[x][y]
               u1 == u[x][y]
    <2>5. a1 \in Int /\ b1 \in Int /\ u1 \in Nat \ {0}
        BY <1>8
    <2>6. NodeExpectation(lt, x, y) = (a1 * (u1 * b1)) \div u1
        BY <2>4
    <2> HIDE DEF a1, b1, u1
    <2>7. (a1 * (u1 * b1)) \div u1 = a1 * b1 /\ a1 * b1 \in Int
        <3>1. a1 * (u1 * b1) = u1 * (a1 * b1) /\ a1 * b1 \in Int
            BY <2>5
        <3> DEFINE m == a1 * b1
        <3>2. m \in Int
            BY <3>1
        <3> HIDE DEF m
        <3>3. (u1 * m) \div u1 = m
            BY <2>5, <3>2
        <3> QED
            BY <3>1, <3>3 DEF m
    <2> QED
        BY <2>2, <2>3, <2>6, <2>7 DEF a1, b1
<1>12. ASSUME NEW x \in 1 .. n - 1, NEW l \in L, NEW r \in L
       PROVE  /\ PathExpectation(lt, x, l, r) = SumFunction(Held(q, WithPath(lt, x, l, r), T))
              /\ PathExpectation(lt, x, l, r) \in Int
    <2> DEFINE c == [t \in T |-> IF t \in WithPath(lt, x, l, r) THEN 1 ELSE 0]
    <2>1. c = OnPath(n, L, x, l, r)
        BY <1>1 DEF WithPath, T, OnPath
    <2>2. Scored(X, c, n, L) = Held(q, WithPath(lt, x, l, r), T)
        BY <1>9
    <2> HIDE DEF c
    <2>3. SumFunction(Scored(X, c, n, L)) = A[x - 1][l] * (w[x][l][r] * (u[x][r] * b[x][r]))
        BY <1>1, <1>3, <2>1, PathTotal
    <2>0. x \in 0 .. n - 1 /\ x - 1 \in 0 .. n - 1
        BY <1>2
    <2>4. PathExpectation(lt, x, l, r) = A[x - 1][l] * w[x][l][r] * (u[x][r] * b[x][r])
        BY <1>4, <1>5, <2>0 DEF PathExpectation, A
    <2> DEFINE a1 == A[x - 1][l]
               b1 == b[x][r]
               u1 == u[x][r]
               w1 == w[x][l][r]
    <2>5. a1 \in Int /\ b1 \in Int /\ u1 \in Int /\ w1 \in Int
        <3>1. w[x] \in [L -> [L -> Int]]
            BY <1>2
        <3> QED
            BY <1>8, <2>0, <3>1
    <2>6. /\ PathExpectation(lt, x, l, r) = (a1 * w1) * (u1 * b1)
          /\ SumFunction(Scored(X, c, n, L)) = a1 * (w1 * (u1 * b1))
        BY <2>3, <2>4
    <2> HIDE DEF a1, b1, u1, w1
    <2>7. (a1 * w1) * (u1 * b1) = a1 * (w1 * (u1 * b1)) /\ (a1 * w1) * (u1 * b1) \in Int
        BY <2>5
    <2> QED
        BY <2>2, <2>6, <2>7
<1> QED
    BY <1>1, <1>6, <1>7, <1>10, <1>11, <1>12 DEF n, L, q, T

\* How often a tagging has a feature more than the answer, by its weight.
UnigramExcess(lt, answer, f, y) ==
    [t \in Taggings(lt) |->
        WeightOf(lt)[t] * (UnigramCount(lt, t, f, y) - UnigramCount(lt, answer, f, y))]
BigramExcess(lt, answer, l, r) ==
    [t \in Taggings(lt) |->
        WeightOf(lt)[t] * (BigramCount(lt, t, l, r) - BigramCount(lt, answer, l, r))]

\* The two kinds of cell.
LEMMA UnigramExact ==
    ASSUME NEW lt \in Lattices, NEW a \in Taggings(lt), NEW f, NEW y \in Labels
    PROVE  UnigramGradient(lt, a, f, y) = SumFunction(UnigramExcess(lt, a, f, y))
<1> DEFINE S == {x \in Tokens(lt) : Feature(x) = f}
           T == Taggings(lt)
           q == WeightOf(lt)
           H == [x \in S |-> WithNode(lt, x, y)]
           E == [x \in S |-> NodeExpectation(lt, x, y)]
           g == [x \in S |-> E[x] - (IF a \in H[x] THEN Z(lt) ELSE 0)]
           k == [t \in T |-> q[t] * (Cardinality(Holding(H, S, t)) - Cardinality(Holding(H, S, a)))]
<1>1. IsFiniteSet(S)
    <2>1. IsFiniteSet(Tokens(lt))
        BY LatticesAssumption, FS_Interval DEF Tokens
    <2> QED
        BY <2>1, FS_Subset
<1>2. /\ IsFiniteSet(T) /\ q \in [T -> Int] /\ Z(lt) = SumFunction(q)
      /\ \A x \in Tokens(lt) :
           /\ NodeExpectation(lt, x, y) = SumFunction(Held(q, WithNode(lt, x, y), T))
           /\ NodeExpectation(lt, x, y) \in Int
    BY Expectations
<1>3. \A t \in T : Holding(H, S, t) = {x \in Tokens(lt) : Feature(x) = f /\ t[x] = y}
    BY DEF Holding, WithNode
<1>4. g = [x \in {x \in Tokens(lt) : Feature(x) = f} |->
              NodeExpectation(lt, x, y) - (IF a[x] = y THEN Z(lt) ELSE 0)]
    BY DEF WithNode
<1>5. SumFunction(g) = UnigramGradient(lt, a, f, y)
    BY <1>4 DEF UnigramGradient
<1>6. k = UnigramExcess(lt, a, f, y)
    <2>1. \A t \in T : Cardinality(Holding(H, S, t)) = UnigramCount(lt, t, f, y)
        BY <1>3 DEF UnigramCount
    <2> HIDE DEF H, S
    <2> QED
        BY <2>1 DEF UnigramExcess
<1>7. Cells(S, T, q, H, a, E)
    <2>1. H \in [S -> SUBSET T]
        BY DEF WithNode
    <2>2. E \in [S -> Int] /\ \A x \in S : E[x] = SumFunction(Held(q, H[x], T))
        BY <1>2
    <2> HIDE DEF S, T, q, H, E
    <2>3. a \in T
        BY DEF T
    <2> QED
        BY <1>1, <1>2, <2>1, <2>2, <2>3 DEF Cells
<1>8. SumFunction(g) = SumFunction(k)
    <2> HIDE DEF S, T, q, H, E
    <2> QED
        BY <1>2, <1>7, CellSum
<1> QED
    BY <1>5, <1>6, <1>8

LEMMA BigramExact ==
    ASSUME NEW lt \in Lattices, NEW a \in Taggings(lt), NEW l \in Labels, NEW r \in Labels
    PROVE  BigramGradient(lt, a, l, r) = SumFunction(BigramExcess(lt, a, l, r))
<1> DEFINE S == 1 .. lt.len - 1
           T == Taggings(lt)
           q == WeightOf(lt)
           H == [x \in S |-> WithPath(lt, x, l, r)]
           E == [x \in S |-> PathExpectation(lt, x, l, r)]
           g == [x \in S |-> E[x] - (IF a \in H[x] THEN Z(lt) ELSE 0)]
           k == [t \in T |-> q[t] * (Cardinality(Holding(H, S, t)) - Cardinality(Holding(H, S, a)))]
<1>1. IsFiniteSet(S)
    BY LatticesAssumption, FS_Interval
<1>2. /\ IsFiniteSet(T) /\ q \in [T -> Int] /\ Z(lt) = SumFunction(q)
      /\ \A x \in S :
           /\ PathExpectation(lt, x, l, r) = SumFunction(Held(q, WithPath(lt, x, l, r), T))
           /\ PathExpectation(lt, x, l, r) \in Int
    BY Expectations
<1>3. \A t \in T : Holding(H, S, t) = {x \in S : t[x - 1] = l /\ t[x] = r}
    BY DEF Holding, WithPath
<1>4. g = [x \in 1 .. lt.len - 1 |->
              PathExpectation(lt, x, l, r) - (IF a[x - 1] = l /\ a[x] = r THEN Z(lt) ELSE 0)]
    BY DEF WithPath
<1>5. SumFunction(g) = BigramGradient(lt, a, l, r)
    BY <1>4 DEF BigramGradient
<1>6. k = BigramExcess(lt, a, l, r)
    <2>1. \A t \in T : Cardinality(Holding(H, S, t)) = BigramCount(lt, t, l, r)
        BY <1>3 DEF BigramCount
    <2> HIDE DEF H, S
    <2> QED
        BY <2>1 DEF BigramExcess
<1>7. Cells(S, T, q, H, a, E)
    <2>1. H \in [S -> SUBSET T]
        BY DEF WithPath
    <2>2. E \in [S -> Int] /\ \A x \in S : E[x] = SumFunction(Held(q, H[x], T))
        BY <1>2
    <2> HIDE DEF S, T, q, H, E
    <2>3. a \in T
        BY DEF T
    <2> QED
        BY <1>1, <1>2, <2>1, <2>2, <2>3 DEF Cells
<1>8. SumFunction(g) = SumFunction(k)
    <2> HIDE DEF S, T, q, H, E
    <2> QED
        BY <1>2, <1>7, CellSum
<1> QED
    BY <1>5, <1>6, <1>8

-----------------------------------------------------------------------------
(* The invariant of the search. *)

USE SizeAssumption, LatticesAssumption

Decoded == pc \in {"parsed", "ready", "search"}

\* A node is worth at least what each left neighbour offers, and no less than
\* itself at the first token.
ColumnBest(x) ==
    IF x = 0
    THEN bestCost[0] = lat.node[0]
    ELSE \A l, y \in Labels :
           bestCost[x - 1][l] + lat.path[x][l][y] + lat.node[x][y] <= bestCost[x][y]

\* gx counts the element's own node, fx what viterbi has found up to it.
Consistent(e) ==
    e.fx = e.gx + lat.node[At(e)][Head(e.seq)] - bestCost[At(e)][Head(e.seq)]

Types ==
    /\ pc \in {"viterbi", "parsed", "ready", "search"}
    /\ lat \in Lattices
    /\ i \in 0 .. lat.len
    /\ bestCost \in [Tokens(lat) -> [Labels -> Int]]
    /\ agenda \subseteq Element
    /\ cost \in Int

Filled == \A x \in Tokens(lat) : (pc = "viterbi" => x < i) => ColumnBest(x)

AgendaGood ==
    pc \in {"ready", "search"} =>
        \A e \in agenda :
            /\ At(e) \in Tokens(lat)
            /\ Consistent(e)
            /\ cost <= e.fx

IInv ==
    /\ Types
    /\ Decoded => i = lat.len
    /\ Filled
    /\ pc = "parsed" => \A y \in Labels : cost <= - bestCost[Last][y]
    /\ AgendaGood


-----------------------------------------------------------------------------
(* The lattice. *)

LEMMA LatticeTypes ==
    ASSUME NEW lt \in Lattices
    PROVE  /\ lt.len \in Nat \ {0}
           /\ \A x \in 0 .. lt.len - 1 : \A y \in Labels : lt.node[x][y] \in Int
           /\ \A x \in 0 .. lt.len - 1 : lt.node[x] \in [Labels -> Int]
           /\ \A x \in 1 .. lt.len - 1 : \A l, y \in Labels : lt.path[x][l][y] \in Int
OBVIOUS

\* The tables of viterbi hold numbers.
LEMMA TableTypes ==
    ASSUME Types
    PROVE  \A x \in Tokens(lat) : \A y \in Labels : bestCost[x][y] \in Int
BY DEF Types

\* An element's node is a node of the lattice, and so are its left neighbours.
LEMMA ElementTypes ==
    ASSUME Types, NEW e \in agenda, At(e) \in Tokens(lat)
    PROVE  /\ e.seq \in Seq(Labels) /\ Len(e.seq) \in 1 .. lat.len
           /\ Head(e.seq) \in Labels
           /\ e.gx \in Int /\ e.fx \in Int
           /\ lat.node[At(e)][Head(e.seq)] \in Int
           /\ bestCost[At(e)][Head(e.seq)] \in Int
<1>1. lat.len \in Nat \ {0}
    BY LatticeTypes DEF Types
<1>2. e.seq \in Seq(Labels) /\ e.gx \in Int /\ e.fx \in Int
    BY DEF Types, Element
<1>3. Len(e.seq) \in 1 .. lat.len
    BY <1>1, <1>2 DEF At, Tokens
<1>4. Head(e.seq) \in Labels
    BY <1>2, <1>3
<1>5. lat.node[At(e)][Head(e.seq)] \in Int
    BY <1>4, LatticeTypes DEF Types, Tokens
<1>6. bestCost[At(e)][Head(e.seq)] \in Int
    BY <1>4, TableTypes
<1> QED
    BY <1>2, <1>3, <1>4, <1>5, <1>6

(* What a tagging costs. *)

\* The scores of a tagging's nodes and of its paths.
Chosen(lt, y) == [x \in Tokens(lt) |-> lt.node[x][y[x]]]
Crossed(lt, y) == [x \in 1 .. lt.len - 1 |-> lt.path[x][y[x - 1]][y[x]]]

LEMMA ScoreTypes ==
    ASSUME NEW lt \in Lattices, NEW y \in [Tokens(lt) -> Labels]
    PROVE  /\ IsFiniteSet(Tokens(lt)) /\ Chosen(lt, y) \in [Tokens(lt) -> Int]
           /\ IsFiniteSet(1 .. lt.len - 1) /\ Crossed(lt, y) \in [1 .. lt.len - 1 -> Int]
<1>1. lt.len \in Nat \ {0}
    BY LatticeTypes
<1>2. IsFiniteSet(Tokens(lt)) /\ IsFiniteSet(1 .. lt.len - 1)
    BY <1>1, FS_Interval DEF Tokens
<1>3. Chosen(lt, y) \in [Tokens(lt) -> Int]
    BY <1>1, LatticeTypes DEF Tokens, Chosen
<1>4. ASSUME NEW x \in 1 .. lt.len - 1 PROVE lt.path[x][y[x - 1]][y[x]] \in Int
    <2>1. x \in Tokens(lt) /\ x - 1 \in Tokens(lt)
        BY <1>1 DEF Tokens
    <2>2. y[x - 1] \in Labels /\ y[x] \in Labels
        BY <2>1
    <2> QED
        BY <2>2, LatticeTypes
<1>5. Crossed(lt, y) \in [1 .. lt.len - 1 -> Int]
    BY <1>4 DEF Crossed
<1> QED
    BY <1>2, <1>3, <1>5

LEMMA CostSums ==
    ASSUME NEW lt \in Lattices, NEW y \in [Tokens(lt) -> Labels]
    PROVE  \E n, p :
             /\ IsSum(Tokens(lt), Chosen(lt, y), n)
             /\ IsSum(1 .. lt.len - 1, Crossed(lt, y), p)
             /\ Definition!CostOf(lt, y) = - n[Tokens(lt)] - p[1 .. lt.len - 1]
<1> DEFINE S == Tokens(lt)
           Q == 1 .. lt.len - 1
           n == CHOOSE n : n = [s \in SUBSET S |->
                  IF s = {} THEN 0
                  ELSE LET x == CHOOSE x \in s : TRUE
                       IN  lt.node[x][y[x]] + n[s \ {x}]]
           p == CHOOSE p : p = [s \in SUBSET Q |->
                  IF s = {} THEN 0
                  ELSE LET x == CHOOSE x \in s : TRUE
                       IN  lt.path[x][y[x - 1]][y[x]] + p[s \ {x}]]
<1>1. Definition!CostOf(lt, y) = - n[S] - p[Q]
    BY Zenon DEF Definition!CostOf, Definition!MapThenSumSet, Definition!MapThenFoldSet,
            Tokens, Definition!Tokens
<1>2. PICK m : IsSum(S, Chosen(lt, y), m)
    BY ScoreTypes, SumExists
<1>3. PICK q : IsSum(Q, Crossed(lt, y), q)
    BY ScoreTypes, SumExists
<1>4. IsSum(S, Chosen(lt, y), n)
    <2>1. m = [s \in SUBSET S |->
                  IF s = {} THEN 0
                  ELSE LET x == CHOOSE x \in s : TRUE
                       IN  lt.node[x][y[x]] + m[s \ {x}]]
      BY <1>2 DEF IsSum, Chosen, Pick
    <2>2. n = [s \in SUBSET S |->
                  IF s = {} THEN 0
                  ELSE LET x == CHOOSE x \in s : TRUE
                       IN  lt.node[x][y[x]] + n[s \ {x}]]
      BY <2>1, ZenonT(60)
    <2> QED BY <2>2 DEF IsSum, Chosen, Pick
<1>5. IsSum(Q, Crossed(lt, y), p)
    <2>1. q = [s \in SUBSET Q |->
                  IF s = {} THEN 0
                  ELSE LET x == CHOOSE x \in s : TRUE
                       IN  lt.path[x][y[x - 1]][y[x]] + q[s \ {x}]]
      BY <1>3 DEF IsSum, Crossed, Pick
    <2>2. p = [s \in SUBSET Q |->
                  IF s = {} THEN 0
                  ELSE LET x == CHOOSE x \in s : TRUE
                       IN  lt.path[x][y[x - 1]][y[x]] + p[s \ {x}]]
      BY <2>1, ZenonT(60)
    <2> QED BY <2>2 DEF IsSum, Crossed, Pick
<1> QED BY <1>1, <1>4, <1>5

\* A tagging's score up to and with each token; at the last one it is minus
\* what the tagging costs.
IsPrefix(lt, y, p) ==
    /\ p \in [Tokens(lt) -> Int]
    /\ p[0] = lt.node[0][y[0]]
    /\ \A x \in 1 .. lt.len - 1 :
         p[x] = p[x - 1] + lt.path[x][y[x - 1]][y[x]] + lt.node[x][y[x]]
    /\ Definition!CostOf(lt, y) = - p[lt.len - 1]

Prefix(lt, y) == CHOOSE p : IsPrefix(lt, y, p)

LEMMA PrefixDefined ==
    ASSUME NEW lt \in Lattices, NEW y \in [Tokens(lt) -> Labels]
    PROVE  IsPrefix(lt, y, Prefix(lt, y))
<1>1. PICK n, q : /\ IsSum(Tokens(lt), Chosen(lt, y), n)
                  /\ IsSum(1 .. lt.len - 1, Crossed(lt, y), q)
                  /\ Definition!CostOf(lt, y) = - n[Tokens(lt)] - q[1 .. lt.len - 1]
    BY CostSums
<1>2. lt.len \in Nat \ {0}
    BY LatticeTypes
<1> DEFINE p == [x \in Tokens(lt) |-> n[0 .. x] + q[1 .. x]]
<1>3. \A x \in Tokens(lt) : /\ 0 .. x \in SUBSET Tokens(lt)
                            /\ 1 .. x \in SUBSET (1 .. lt.len - 1)
    BY <1>2 DEF Tokens
<1>4. Additive(Tokens(lt), Chosen(lt, y), n)
    BY <1>1, ScoreTypes, SumAdditive
<1>5. Additive(1 .. lt.len - 1, Crossed(lt, y), q)
    BY <1>1, ScoreTypes, SumAdditive
<1>6. n[{}] = 0 /\ q[{}] = 0
    BY <1>4, <1>5 DEF Additive
<1>7. \A x \in Tokens(lt) : n[0 .. x] \in Int /\ q[1 .. x] \in Int
    BY <1>3, <1>4, <1>5 DEF Additive
<1>8. p[0] = lt.node[0][y[0]]
    <2>1. 0 \in Tokens(lt) /\ 0 .. 0 = {} \cup {0} /\ 1 .. 0 = {}
        BY <1>2 DEF Tokens
    <2>2. n[{} \cup {0}] = Chosen(lt, y)[0] + n[{}]
        BY <1>4, <2>1 DEF Additive
    <2>3. Chosen(lt, y)[0] = lt.node[0][y[0]] /\ Chosen(lt, y)[0] \in Int
        BY <2>1, ScoreTypes DEF Chosen
    <2>4. p[0] = Chosen(lt, y)[0] + 0 + 0
        BY <1>6, <2>1, <2>2
    <2> QED
        BY <2>3, <2>4
<1>9. ASSUME NEW x \in 1 .. lt.len - 1
      PROVE  p[x] = p[x - 1] + lt.path[x][y[x - 1]][y[x]] + lt.node[x][y[x]]
    <2>1. x \in Tokens(lt) /\ x - 1 \in Tokens(lt)
        BY <1>2 DEF Tokens
    <2>2. 0 .. x = (0 .. x - 1) \cup {x} /\ 1 .. x = (1 .. x - 1) \cup {x}
        BY <1>2
    <2>3. x \notin 0 .. x - 1 /\ x \notin 1 .. x - 1
        OBVIOUS
    <2>4. n[0 .. x] = Chosen(lt, y)[x] + n[0 .. x - 1]
        BY <1>3, <1>4, <2>1, <2>2, <2>3 DEF Additive
    <2>5. q[1 .. x] = Crossed(lt, y)[x] + q[1 .. x - 1]
        <3>1. 1 .. x - 1 \in SUBSET (1 .. lt.len - 1)
            BY <1>3, <2>1
        <3>2. q[(1 .. x - 1) \cup {x}] = Crossed(lt, y)[x] + q[1 .. x - 1]
            BY <1>5, <2>3, <3>1 DEF Additive
        <3> QED
            BY <2>2, <3>2
    <2>6. /\ Chosen(lt, y)[x] = lt.node[x][y[x]] /\ Chosen(lt, y)[x] \in Int
          /\ Crossed(lt, y)[x] = lt.path[x][y[x - 1]][y[x]] /\ Crossed(lt, y)[x] \in Int
        BY <2>1, ScoreTypes, ZenonT(60) DEF Chosen, Crossed
    <2>7. /\ p[x] = (Chosen(lt, y)[x] + n[0 .. x - 1]) + (Crossed(lt, y)[x] + q[1 .. x - 1])
          /\ p[x - 1] = n[0 .. x - 1] + q[1 .. x - 1]
        BY <2>1, <2>4, <2>5
    <2>8. n[0 .. x - 1] \in Int /\ q[1 .. x - 1] \in Int
        BY <1>7, <2>1
    <2>9. p[x] = p[x - 1] + Crossed(lt, y)[x] + Chosen(lt, y)[x]
        BY <2>6, <2>7, <2>8
    <2> QED
        BY <2>6, <2>9
<1>10. Definition!CostOf(lt, y) = - p[lt.len - 1]
    <2>1. lt.len - 1 \in Tokens(lt) /\ Tokens(lt) = 0 .. lt.len - 1
        BY <1>2 DEF Tokens
    <2>2. p[lt.len - 1] = n[Tokens(lt)] + q[1 .. lt.len - 1]
        BY <2>1
    <2>3. n[Tokens(lt)] \in Int /\ q[1 .. lt.len - 1] \in Int
        BY <1>7, <2>1
    <2> QED
        BY <1>1, <2>2, <2>3
<1>11. p \in [Tokens(lt) -> Int]
    BY <1>7
<1>12. IsPrefix(lt, y, p)
    <2> HIDE DEF p
    <2> QED
        BY <1>8, <1>9, <1>10, <1>11 DEF IsPrefix
<1> QED
    BY <1>12 DEF Prefix

\* It depends on the labels up to the token only.
LEMMA PrefixLocal ==
    ASSUME NEW lt \in Lattices,
           NEW y \in [Tokens(lt) -> Labels], NEW z \in [Tokens(lt) -> Labels],
           NEW x \in Tokens(lt), \A w \in 0 .. x : y[w] = z[w]
    PROVE  Prefix(lt, y)[x] = Prefix(lt, z)[x]
<1> DEFINE T == {k \in Nat : k <= x => Prefix(lt, y)[k] = Prefix(lt, z)[k]}
<1>1. lt.len \in Nat \ {0}
    BY LatticeTypes
<1>2. IsPrefix(lt, y, Prefix(lt, y)) /\ IsPrefix(lt, z, Prefix(lt, z))
    BY PrefixDefined
<1>3. x \in Nat /\ x <= lt.len - 1
    BY <1>1 DEF Tokens
<1>4. 0 \in T
    BY <1>2, <1>3 DEF IsPrefix
<1>5. ASSUME NEW k \in T PROVE k + 1 \in T
    <2> SUFFICES ASSUME k + 1 <= x
                 PROVE  Prefix(lt, y)[k + 1] = Prefix(lt, z)[k + 1]
        OBVIOUS
    <2>1. k \in Nat /\ Prefix(lt, y)[k] = Prefix(lt, z)[k]
        BY <1>3
    <2>2. y[k] = z[k] /\ y[k + 1] = z[k + 1]
        BY <1>3, <2>1
    <2>3. k + 1 \in 1 .. lt.len - 1 /\ (k + 1) - 1 = k
        BY <1>1, <1>3, <2>1
    <2> HIDE DEF T
    <2>4. \A p, v : IsPrefix(lt, v, p) =>
            p[k + 1] = p[k] + lt.path[k + 1][v[k]][v[k + 1]] + lt.node[k + 1][v[k + 1]]
        BY <2>3 DEF IsPrefix
    <2>5. /\ Prefix(lt, y)[k + 1] = Prefix(lt, y)[k] + lt.path[k + 1][y[k]][y[k + 1]]
                                    + lt.node[k + 1][y[k + 1]]
          /\ Prefix(lt, z)[k + 1] = Prefix(lt, z)[k] + lt.path[k + 1][z[k]][z[k + 1]]
                                    + lt.node[k + 1][z[k + 1]]
        BY <1>2, <2>4
    <2> QED
        BY <2>1, <2>2, <2>5
<1>6. T = Nat
    <2> HIDE DEF T
    <2>1. T \in SUBSET Nat
        BY DEF T
    <2> QED
        BY <1>4, <1>5, <2>1, NatSetInduction
<1> QED
    BY <1>3, <1>6

-----------------------------------------------------------------------------
(* viterbi. *)

LEMMA InitInvariant == Init => IInv
<1> SUFFICES ASSUME Init PROVE IInv
    OBVIOUS
<1>1. lat \in Lattices /\ lat.len \in Nat \ {0} /\ pc = "viterbi" /\ i = 0
    BY LatticeTypes DEF Init
<1>2. bestCost \in [Tokens(lat) -> [Labels -> Int]]
    BY DEF Init, Zeros
<1>3. Types
    BY <1>1, <1>2 DEF Init, Types
<1>4. Filled
    BY <1>1 DEF Filled, Tokens
<1> QED
    BY <1>1, <1>3, <1>4 DEF IInv, Decoded, AgendaGood

LEMMA FirstColumnStep == IInv /\ FirstColumn => IInv'
<1> SUFFICES ASSUME IInv, FirstColumn PROVE IInv'
    OBVIOUS
<1>1. /\ pc = "viterbi" /\ pc' = pc /\ i = 0 /\ i' = 1 /\ lat' = lat
      /\ agenda' = agenda /\ cost' = cost
      /\ bestCost' = [bestCost EXCEPT ![0] = lat.node[0]]
    BY DEF FirstColumn
<1>2. lat.len \in Nat \ {0} /\ lat.node[0] \in [Labels -> Int]
    BY LatticeTypes DEF IInv, Types
<1>3. bestCost' \in [Tokens(lat) -> [Labels -> Int]] /\ bestCost'[0] = lat.node[0]
    BY <1>1, <1>2 DEF IInv, Types, Tokens
<1>4. Types'
    BY <1>1, <1>2, <1>3 DEF IInv, Types, Tokens
<1>5. Filled'
    BY <1>1, <1>2, <1>3 DEF Filled, ColumnBest, Tokens
<1> QED
    BY <1>1, <1>4, <1>5 DEF IInv, Decoded, AgendaGood

LEMMA ColumnStep == IInv /\ Column => IInv'
<1> SUFFICES ASSUME IInv, Column PROVE IInv'
    OBVIOUS
<1>1. /\ pc = "viterbi" /\ pc' = pc /\ i \in 1 .. lat.len - 1 /\ i' = i + 1
      /\ lat' = lat /\ agenda' = agenda /\ cost' = cost
    BY DEF Column
<1>2. PICK best \in [Labels -> Labels] :
        /\ \A y \in Labels : FirstBest(Reach(y), best[y])
        /\ bestCost' =
             [bestCost EXCEPT ![i] = [y \in Labels |-> Reach(y)[best[y]]]]
    BY DEF Column
<1>3. lat.len \in Nat \ {0}
    BY LatticeTypes DEF IInv, Types
<1>4. i \in Tokens(lat) /\ i - 1 \in Tokens(lat)
    BY <1>1, <1>3 DEF Tokens
<1>5. \A l, y \in Labels :
        /\ Reach(y)[l] = bestCost[i - 1][l] + lat.path[i][l][y] + lat.node[i][y]
        /\ Reach(y)[l] \in Int
    <2> SUFFICES ASSUME NEW l \in Labels, NEW y \in Labels
                 PROVE  /\ Reach(y)[l] = bestCost[i - 1][l] + lat.path[i][l][y] + lat.node[i][y]
                        /\ Reach(y)[l] \in Int
        OBVIOUS
    <2>1. bestCost[i - 1][l] \in Int
        BY <1>4, TableTypes DEF IInv
    <2>2. lat.path[i][l][y] \in Int /\ lat.node[i][y] \in Int
        BY <1>1, <1>4, LatticeTypes DEF IInv, Types, Tokens
    <2> QED
        BY <2>1, <2>2 DEF Reach
<1>6. bestCost' \in [Tokens(lat) -> [Labels -> Int]]
    <2>1. [y \in Labels |-> Reach(y)[best[y]]] \in [Labels -> Int]
        BY <1>5
    <2> QED
        BY <1>2, <1>4, <2>1 DEF IInv, Types
<1>7. /\ \A x \in Tokens(lat) : x # i => bestCost'[x] = bestCost[x]
      /\ \A y \in Labels : bestCost'[i][y] = Reach(y)[best[y]]
    BY <1>2, <1>4 DEF IInv, Types
<1>8. Types'
    BY <1>1, <1>3, <1>6 DEF IInv, Types
<1>9. ASSUME NEW x \in Tokens(lat), x < i
      PROVE  ColumnBest(x)'
    <2>1. ColumnBest(x) /\ x # i /\ bestCost'[x] = bestCost[x]
        BY <1>1, <1>7, <1>9 DEF IInv, Filled, Tokens
    <2>2. x # 0 => x - 1 \in Tokens(lat) /\ bestCost'[x - 1] = bestCost[x - 1]
        BY <1>1, <1>3, <1>7, <1>9 DEF Tokens
    <2>3. CASE x = 0
        BY <1>1, <2>1, <2>3 DEF ColumnBest
    <2>4. CASE x # 0
        BY <1>1, <2>1, <2>2, <2>4 DEF ColumnBest
    <2> QED
        BY <2>3, <2>4
<1>10. ASSUME NEW x \in Tokens(lat), x = i
       PROVE  ColumnBest(x)'
    <2>1. i # 0 /\ bestCost'[i - 1] = bestCost[i - 1]
        BY <1>1, <1>4, <1>7
    <2>2. \A l, y \in Labels : Reach(y)[l] <= bestCost'[i][y]
        BY <1>2, <1>7 DEF FirstBest
    <2>3. \A l, y \in Labels :
            bestCost'[i - 1][l] + lat'.path[i][l][y] + lat'.node[i][y] <= bestCost'[i][y]
        BY <1>1, <1>5, <2>1, <2>2
    <2> QED
        BY <1>10, <2>1, <2>3 DEF ColumnBest
<1>11. Filled'
    <2>1. \A x \in Tokens(lat) : x < i + 1 => x < i \/ x = i
        BY <1>1 DEF Tokens
    <2>2. \A x \in Tokens(lat) : x < i' => ColumnBest(x)'
        BY <1>1, <1>9, <1>10, <2>1
    <2> QED
        BY <1>1, <2>2 DEF Filled, Tokens
<1> QED
    BY <1>1, <1>8, <1>11 DEF IInv, Decoded, AgendaGood

LEMMA BacktrackStep == IInv /\ Backtrack => IInv'
<1> SUFFICES ASSUME IInv, Backtrack PROVE IInv'
    OBVIOUS
<1>1. /\ pc = "viterbi" /\ pc' = "parsed" /\ i = lat.len /\ lat' = lat
      /\ i' = i /\ bestCost' = bestCost /\ agenda' = agenda
    BY DEF Backtrack
<1>2. PICK y \in Labels :
        FirstBest(bestCost[Last], y) /\ cost' = - bestCost[Last][y]
    BY DEF Backtrack, Last
<1>3. lat.len \in Nat \ {0} /\ Last \in Tokens(lat)
    BY LatticeTypes DEF IInv, Types, Last, Tokens
<1>4. \A z \in Labels : bestCost[Last][z] \in Int /\ bestCost[Last][z] <= bestCost[Last][y]
    BY <1>2, <1>3, TableTypes DEF IInv, FirstBest
<1>5. cost' \in Int /\ \A z \in Labels : cost' <= - bestCost[Last][z]
    BY <1>2, <1>4
<1>6. Types'
    BY <1>1, <1>5 DEF IInv, Types
<1>7. Filled'
    BY <1>1, <1>3 DEF IInv, Filled, ColumnBest, Tokens
<1>8. Last' = Last
    BY <1>1 DEF Last
<1>9. \A z \in Labels : cost' <= - bestCost'[Last'][z]
    BY <1>1, <1>5, <1>8
<1> QED
    BY <1>1, <1>6, <1>7, <1>9 DEF IInv, Decoded, AgendaGood

-----------------------------------------------------------------------------
(* next. *)

\* What viterbi left stays, and so does the sentence.
Settled == pc' # "viterbi" /\ UNCHANGED <<lat, i, bestCost>>

LEMMA SettledStep ==
    ASSUME IInv, Decoded, Settled, pc' \in {"parsed", "ready", "search"},
           agenda' \subseteq Element, cost' \in Int
    PROVE  Types' /\ (Decoded => i = lat.len)' /\ Filled'
<1>1. lat' = lat /\ i' = i /\ bestCost' = bestCost
    BY DEF Settled
<1>2. Types'
    BY <1>1 DEF IInv, Types
<1>3. Filled'
    BY <1>1 DEF IInv, Filled, ColumnBest, Decoded, Tokens
<1> QED
    BY <1>1, <1>2, <1>3 DEF IInv, Decoded

\* The elements initNbest starts with.
LEMMA EosGood ==
    ASSUME IInv, pc = "parsed", NEW y \in Labels
    PROVE  /\ Eos(y) \in Element
           /\ At(Eos(y)) \in Tokens(lat)
           /\ Consistent(Eos(y))
           /\ cost <= Eos(y).fx
<1> DEFINE e == Eos(y)
<1>1. e = [seq |-> <<y>>, gx |-> - lat.node[Last][y], fx |-> - bestCost[Last][y]]
    BY DEF Eos
<1>2. lat.len \in Nat \ {0} /\ Last \in Tokens(lat)
    BY LatticeTypes DEF IInv, Types, Last, Tokens
<1>3. lat.node[Last][y] \in Int /\ bestCost[Last][y] \in Int
    BY <1>2, LatticeTypes, TableTypes DEF IInv, Types, Tokens
<1>4. e \in Element
    BY <1>1, <1>3 DEF Element
<1>5. Len(e.seq) = 1 /\ Head(e.seq) = y
    BY <1>1
<1>6. At(e) = Last
    BY <1>2, <1>5 DEF At, Last
<1>7. Consistent(e)
    BY <1>1, <1>3, <1>5, <1>6 DEF Consistent
<1>8. cost <= e.fx
    BY <1>1 DEF IInv
<1> QED
    BY <1>2, <1>4, <1>6, <1>7, <1>8

LEMMA InitNbestStep == IInv /\ InitNbest => IInv'
<1> SUFFICES ASSUME IInv, InitNbest PROVE IInv'
    OBVIOUS
<1>1. /\ pc = "parsed" /\ pc' = "ready" /\ agenda' = {Eos(y) : y \in Labels}
      /\ UNCHANGED <<lat, i, bestCost, cost>>
    BY DEF InitNbest
<1>2. agenda' \subseteq Element
    BY <1>1, EosGood
<1>3. Types' /\ (Decoded => i = lat.len)' /\ Filled'
    BY <1>1, <1>2, SettledStep DEF Settled, Decoded, IInv, Types
<1>4. \A e \in agenda' : At(e) \in Tokens(lat) /\ Consistent(e) /\ cost <= e.fx
    BY <1>1, EosGood
<1>5. AgendaGood'
    BY <1>1, <1>4 DEF AgendaGood, At, Tokens, Consistent
<1> QED
    BY <1>1, <1>3, <1>5 DEF IInv

\* A new element is good, and costs no less than the one it extends.
LEMMA ExtendGood ==
    ASSUME IInv, pc = "search", NEW top \in agenda, At(top) # 0, NEW l \in Labels
    PROVE  /\ Extend(top, l) \in Element
           /\ At(Extend(top, l)) \in Tokens(lat)
           /\ Consistent(Extend(top, l))
           /\ cost <= Extend(top, l).fx
<1> DEFINE e == Extend(top, l)
           x == At(top)
           h == Head(top.seq)
<1>1. /\ x \in Tokens(lat) /\ x # 0 /\ Consistent(top) /\ cost <= top.fx
      /\ cost \in Int
    BY DEF IInv, AgendaGood, Types
<1>2. /\ top.seq \in Seq(Labels) /\ Len(top.seq) \in 1 .. lat.len /\ h \in Labels
      /\ top.gx \in Int /\ top.fx \in Int
      /\ lat.node[x][h] \in Int /\ bestCost[x][h] \in Int
    BY <1>1, ElementTypes DEF IInv
<1>3. lat.len \in Nat \ {0} /\ x \in 1 .. lat.len - 1 /\ x - 1 \in Tokens(lat)
    <2>1. lat.len \in Nat \ {0}
        BY LatticeTypes DEF IInv, Types
    <2> QED
        BY <1>1, <2>1 DEF Tokens
<1>4. lat.path[x][l][h] \in Int /\ lat.node[x - 1][l] \in Int /\ bestCost[x - 1][l] \in Int
    <2>1. lat.path[x][l][h] \in Int
        BY <1>2, <1>3, LatticeTypes DEF IInv, Types
    <2>2. lat.node[x - 1][l] \in Int
        BY <1>3, LatticeTypes DEF IInv, Types, Tokens
    <2>3. bestCost[x - 1][l] \in Int
        BY <1>3, TableTypes DEF IInv
    <2> QED
        BY <2>1, <2>2, <2>3
<1>5. bestCost[x - 1][l] + lat.path[x][l][h] + lat.node[x][h] <= bestCost[x][h]
    <2>1. ColumnBest(x)
        BY <1>1 DEF IInv, Filled
    <2> QED
        BY <1>1, <1>2, <2>1 DEF ColumnBest
<1>6. /\ e.seq = <<l>> \o top.seq
      /\ e.gx = top.gx - lat.node[x - 1][l] - lat.path[x][l][h]
      /\ e.fx = top.gx - bestCost[x - 1][l] - lat.path[x][l][h]
    BY DEF Extend
<1>7. /\ e.seq \in Seq(Labels) /\ Len(e.seq) = Len(top.seq) + 1 /\ Head(e.seq) = l
    BY <1>2, <1>6
<1>8. At(e) = x - 1
    BY <1>2, <1>3, <1>7 DEF At
<1>9. e \in Element
    <2>1. e = [seq |-> e.seq, gx |-> e.gx, fx |-> e.fx]
        BY DEF Extend
    <2>2. e.gx \in Int /\ e.fx \in Int
        BY <1>2, <1>4, <1>6, SMTT(30)
    <2> QED
        BY <1>7, <2>1, <2>2 DEF Element
<1>10. Consistent(e)
    <2>1. e.fx = e.gx + lat.node[x - 1][l] - bestCost[x - 1][l]
        BY <1>2, <1>4, <1>6, SMTT(30)
    <2> QED
        BY <1>7, <1>8, <2>1 DEF Consistent
<1>11. cost <= e.fx
    <2>1. top.fx = top.gx + lat.node[x][h] - bestCost[x][h]
        BY <1>1 DEF Consistent
    <2>2. \A c, g, f, n, b, p, m \in Int :
            c <= f /\ f = g + n - b /\ m + p + n <= b => c <= g - m - p
        OBVIOUS
    <2>3. cost <= top.gx - bestCost[x - 1][l] - lat.path[x][l][h]
        BY <1>1, <1>2, <1>4, <1>5, <2>1, <2>2, Zenon
    <2> QED
        BY <1>6, <2>3
<1> QED
    BY <1>3, <1>8, <1>9, <1>10, <1>11

LEMMA ExpandStep ==
    ASSUME IInv, NEW top \in Tops, Expand(top)
    PROVE  IInv'
<1>1. /\ pc = "search" /\ pc' = pc /\ At(top) # 0 /\ top \in agenda
      /\ agenda' = (agenda \ {top}) \cup {Extend(top, l) : l \in Labels}
      /\ UNCHANGED <<lat, i, bestCost, cost>>
    BY DEF Expand, Tops
<1>2. \A e \in agenda' :
        e \in Element /\ At(e) \in Tokens(lat) /\ Consistent(e) /\ cost <= e.fx
    <2> SUFFICES ASSUME NEW e \in agenda'
                 PROVE  e \in Element /\ At(e) \in Tokens(lat) /\ Consistent(e) /\ cost <= e.fx
        OBVIOUS
    <2>1. CASE e \in agenda
        BY <1>1, <2>1 DEF IInv, AgendaGood, Types
    <2>2. CASE \E l \in Labels : e = Extend(top, l)
        BY <1>1, <2>2, ExtendGood
    <2> QED
        BY <1>1, <2>1, <2>2
<1>3. Types' /\ (Decoded => i = lat.len)' /\ Filled'
    BY <1>1, <1>2, SettledStep DEF Settled, Decoded, IInv, Types
<1>4. AgendaGood'
    BY <1>1, <1>2 DEF AgendaGood, At, Tokens, Consistent
<1> QED
    BY <1>1, <1>3, <1>4 DEF IInv

\* What next() reports is what the agenda was ordered by.
LEMMA FoundCost ==
    ASSUME IInv, pc = "search", NEW top \in Tops, At(top) = 0
    PROVE  /\ top.gx = top.fx /\ top.gx \in Int /\ cost <= top.gx
           /\ \A e \in agenda : top.gx <= e.fx
<1>1. /\ top \in agenda /\ At(top) \in Tokens(lat) /\ Consistent(top) /\ cost <= top.fx
      /\ \A e \in agenda : top.fx <= e.fx
    BY DEF Tops, IInv, AgendaGood
<1>2. /\ top.gx \in Int /\ top.fx \in Int
      /\ lat.node[At(top)][Head(top.seq)] \in Int
    BY <1>1, ElementTypes DEF IInv
<1>3. bestCost[At(top)] = lat.node[At(top)]
    BY <1>1 DEF IInv, Filled, ColumnBest
<1>4. top.gx = top.fx
    BY <1>1, <1>2, <1>3 DEF Consistent
<1> QED
    BY <1>1, <1>2, <1>4

LEMMA FoundStep ==
    ASSUME IInv, NEW top \in Tops, Found(top)
    PROVE  IInv'
<1>1. /\ pc = "search" /\ pc' = "ready" /\ At(top) = 0
      /\ agenda' = agenda \ {top} /\ cost' = top.gx
      /\ UNCHANGED <<lat, i, bestCost>>
    BY DEF Found
<1>2. cost' \in Int /\ \A e \in agenda : cost' <= e.fx
    BY <1>1, FoundCost
<1>3. agenda' \subseteq Element
    BY <1>1 DEF IInv, Types
<1>4. Types' /\ (Decoded => i = lat.len)' /\ Filled'
    BY <1>1, <1>2, <1>3, SettledStep DEF Settled, Decoded
<1>5. AgendaGood'
    BY <1>1, <1>2 DEF IInv, AgendaGood, At, Tokens, Consistent
<1> QED
    BY <1>1, <1>4, <1>5 DEF IInv

LEMMA QuietStep == IInv /\ (Call \/ Exhausted) => IInv'
<1> SUFFICES ASSUME IInv, Call \/ Exhausted PROVE IInv'
    OBVIOUS
<1>1. /\ pc \in {"ready", "search"} /\ pc' \in {"ready", "search"}
      /\ UNCHANGED <<lat, i, bestCost, agenda, cost>>
    BY DEF Call, Exhausted
<1>2. Types' /\ (Decoded => i = lat.len)' /\ Filled'
    BY <1>1, SettledStep DEF Settled, Decoded, IInv, Types
<1>3. AgendaGood'
    BY <1>1 DEF IInv, AgendaGood, At, Tokens, Consistent
<1> QED
    BY <1>1, <1>2, <1>3 DEF IInv

LEMMA NewSentenceStep == IInv /\ NewSentence => IInv'
<1> SUFFICES ASSUME IInv, NewSentence PROVE IInv'
    OBVIOUS
<1>1. /\ pc' = "viterbi" /\ lat' \in Lattices /\ i' = 0 /\ cost' = 0
      /\ bestCost' = Zeros(lat') /\ agenda' = agenda
    BY DEF NewSentence
<1>2. lat'.len \in Nat \ {0}
    BY <1>1, LatticeTypes
<1>3. bestCost' \in [Tokens(lat') -> [Labels -> Int]]
    BY <1>1 DEF Zeros
<1>4. Types'
    BY <1>1, <1>2, <1>3 DEF IInv, Types
<1>5. Filled'
    BY <1>1 DEF Filled, Tokens
<1> QED
    BY <1>1, <1>4, <1>5 DEF IInv, Decoded, AgendaGood

LEMMA StepInvariant == IInv /\ [Next]_vars => IInv'
<1> SUFFICES ASSUME IInv, [Next]_vars PROVE IInv'
    OBVIOUS
<1>1. CASE Decode
    BY <1>1, FirstColumnStep, ColumnStep, BacktrackStep, InitNbestStep DEF Decode
<1>2. CASE Call \/ Exhausted
    BY <1>2, QuietStep
<1>3. ASSUME NEW top \in Tops, Expand(top) \/ Found(top) PROVE IInv'
    BY <1>3, ExpandStep, FoundStep
<1>4. CASE NewSentence
    BY <1>4, NewSentenceStep
<1>5. CASE UNCHANGED vars
    BY <1>5 DEF vars, IInv, Types, Decoded, Filled, ColumnBest, AgendaGood, At,
                Tokens, Consistent, Last
<1> QED
    BY <1>1, <1>2, <1>3, <1>4, <1>5 DEF Next, Search

(***************************************************************************)
(* The n-best list is sorted: no call of next() reports a lower cost than  *)
(* the call before it, nor than parse() did, for every number of labels    *)
(* and every sentence.                                                     *)
(***************************************************************************)
THEOREM Ascending == Spec => CostsAscend
<1>1. IInv /\ [Next]_vars => [pc = "search" => cost' >= cost]_vars
    <2> SUFFICES ASSUME IInv, [Next]_vars, pc = "search" PROVE cost' >= cost
        BY DEF vars
    <2>1. cost \in Int
        BY DEF IInv, Types
    <2>2. ASSUME NEW top \in Tops, Found(top) PROVE cost' >= cost
        <3>1. At(top) = 0 /\ cost' = top.gx
            BY <2>2 DEF Found
        <3>2. cost <= top.gx /\ top.gx \in Int
            BY <3>1, FoundCost
        <3> QED
            BY <2>1, <3>1, <3>2
    <2>3. CASE cost' = cost
        BY <2>1, <2>3
    <2>4. cost' = cost \/ \E top \in Tops : Found(top)
        BY DEF Next, Decode, Search, FirstColumn, Column, Backtrack, InitNbest, Call,
               Exhausted, Expand, NewSentence, vars
    <2> QED
        BY <2>2, <2>3, <2>4
<1> QED
    BY InitInvariant, StepInvariant, <1>1, PTL DEF Spec, CostsAscend

-----------------------------------------------------------------------------
(* The search returns the best taggings. *)


\* prev leads to a left neighbour that the node owes its score to.
Traced(x) ==
    x # 0 =>
        \A y \in Labels :
            bestCost[x][y] = bestCost[x - 1][prev[x][y]]
                               + lat.path[x][prev[x][y]][y] + lat.node[x][y]

\* What an element's chain costs: any tagging that ends like it costs gx, but
\* for the tokens before the element's node.
Weighed(e) ==
    \A t \in Taggings(lat) : Extends(t, e) =>
        Definition!CostOf(lat, t) = e.gx + lat.node[At(e)][t[At(e)]] - Prefix(lat, t)[At(e)]

Exclusive(d, e) == d # e => \A t \in Taggings(lat) : ~(Extends(t, d) /\ Extends(t, e))

Exact ==
    /\ TypeOK
    /\ \A x \in Tokens(lat) : (pc = "viterbi" => x < i) => Traced(x)
    /\ pc = "viterbi" => cost = 0 /\ found = FALSE
    /\ pc = "parsed" => cost = Definition!CostOf(lat, result) /\ found = FALSE
    /\ pc \in {"ready", "search"} =>
         /\ \A e \in agenda : Weighed(e)
         /\ \A d, e \in agenda : Exclusive(d, e)

\* No tagging scores more up to a token than viterbi says.
LEMMA BestBounds ==
    ASSUME IInv, Decoded, NEW t \in Taggings(lat), NEW x \in Tokens(lat)
    PROVE  Prefix(lat, t)[x] <= bestCost[x][t[x]]
<1> DEFINE p == Prefix(lat, t)
           T == {k \in Nat : k < lat.len => p[k] <= bestCost[k][t[k]]}
<1>1. lat \in Lattices /\ lat.len \in Nat \ {0}
    BY LatticeTypes DEF IInv, Types
<1>2. IsPrefix(lat, t, p)
    BY <1>1, PrefixDefined DEF Taggings
<1>3. \A k \in Tokens(lat) : ColumnBest(k) /\ t[k] \in Labels /\ p[k] \in Int
    BY <1>2 DEF IInv, Filled, Decoded, Taggings, IsPrefix
<1>4. \A k \in Tokens(lat) : \A y \in Labels : bestCost[k][y] \in Int
    BY TableTypes DEF IInv
<1> HIDE DEF p
<1>5. 0 \in T
    <2>1. 0 \in Tokens(lat)
        BY <1>1 DEF Tokens
    <2>2. p[0] = bestCost[0][t[0]]
        BY <1>2, <1>3, <2>1 DEF IsPrefix, ColumnBest
    <2>3. p[0] \in Int
        BY <1>3, <2>1
    <2> QED
        BY <2>2, <2>3
<1>6. ASSUME NEW k \in T PROVE k + 1 \in T
    <2> SUFFICES ASSUME k + 1 < lat.len PROVE p[k + 1] <= bestCost[k + 1][t[k + 1]]
        OBVIOUS
    <2>1. k \in Nat /\ p[k] <= bestCost[k][t[k]]
        BY <1>1
    <2> HIDE DEF T
    <2> DEFINE w == k + 1
    <2>2. w \in 1 .. lat.len - 1 /\ w # 0 /\ w \in Tokens(lat) /\ k \in Tokens(lat) /\ w - 1 = k
        BY <1>1, <2>1 DEF Tokens
    <2> HIDE DEF w
    <2>3. p[w] = p[k] + lat.path[w][t[k]][t[w]] + lat.node[w][t[w]]
        BY <1>2, <2>2 DEF IsPrefix
    <2>4. t[k] \in Labels /\ t[w] \in Labels /\ p[k] \in Int
        BY <1>3, <2>2
    <2>5. bestCost[k][t[k]] + lat.path[w][t[k]][t[w]] + lat.node[w][t[w]] <= bestCost[w][t[w]]
        BY <1>3, <2>2, <2>4 DEF ColumnBest
    <2>6. lat.path[w][t[k]][t[w]] \in Int /\ lat.node[w][t[w]] \in Int
        BY <1>1, <2>2, <2>4, LatticeTypes DEF Tokens
    <2>7. bestCost[k][t[k]] \in Int /\ bestCost[w][t[w]] \in Int
        BY <1>4, <2>2, <2>4
    <2>8. p[w] <= bestCost[w][t[w]]
        BY <2>1, <2>3, <2>4, <2>5, <2>6, <2>7
    <2> QED
        BY <2>8 DEF w
<1>7. T = Nat
    <2> HIDE DEF T
    <2>1. T \in SUBSET Nat
        BY DEF T
    <2> QED
        BY <1>5, <1>6, <2>1, NatSetInduction
<1>8. x \in Nat /\ x < lat.len
    BY <1>1 DEF Tokens
<1>9. p[x] <= bestCost[x][t[x]]
    BY <1>7, <1>8
<1> QED
    BY <1>9 DEF p

\* A tagging that follows prev up to a token scores what viterbi says.
LEMMA FollowsPrev ==
    ASSUME IInv, Exact, i = lat.len, NEW t \in Taggings(lat), NEW x \in Tokens(lat),
           \A w \in 1 .. x : t[w - 1] = prev[w][t[w]]
    PROVE  Prefix(lat, t)[x] = bestCost[x][t[x]]
<1> DEFINE p == Prefix(lat, t)
           T == {k \in Nat : k <= x => p[k] = bestCost[k][t[k]]}
<1>1. lat \in Lattices /\ lat.len \in Nat \ {0}
    BY LatticeTypes DEF IInv, Types
<1>2. IsPrefix(lat, t, p)
    BY <1>1, PrefixDefined DEF Taggings
<1>3. \A k \in Tokens(lat) : ColumnBest(k) /\ Traced(k) /\ t[k] \in Labels
    <2>1. \A k \in Tokens(lat) : k < i
        BY <1>1 DEF Tokens
    <2> QED
        BY <2>1 DEF IInv, Filled, Exact, Taggings
<1>4. x \in Nat /\ x < lat.len
    BY <1>1 DEF Tokens
<1> HIDE DEF p
<1>5. 0 \in T
    <2>1. 0 \in Tokens(lat)
        BY <1>1 DEF Tokens
    <2>2. p[0] = bestCost[0][t[0]]
        BY <1>2, <1>3, <2>1 DEF IsPrefix, ColumnBest
    <2> QED
        BY <2>2
<1>6. ASSUME NEW k \in T PROVE k + 1 \in T
    <2> SUFFICES ASSUME k + 1 <= x PROVE p[k + 1] = bestCost[k + 1][t[k + 1]]
        OBVIOUS
    <2>1. k \in Nat /\ p[k] = bestCost[k][t[k]]
        BY <1>4
    <2> HIDE DEF T
    <2> DEFINE w == k + 1
    <2>2. /\ w \in 1 .. lat.len - 1 /\ w # 0 /\ w \in 1 .. x
          /\ w \in Tokens(lat) /\ k \in Tokens(lat) /\ w - 1 = k
        BY <1>1, <1>4, <2>1 DEF Tokens
    <2> HIDE DEF w
    <2>3. p[w] = p[k] + lat.path[w][t[k]][t[w]] + lat.node[w][t[w]]
        BY <1>2, <2>2 DEF IsPrefix
    <2>4. t[k] = prev[w][t[w]] /\ t[w] \in Labels
        BY <1>3, <2>2
    <2>5. bestCost[w][t[w]] = bestCost[k][t[k]] + lat.path[w][t[k]][t[w]] + lat.node[w][t[w]]
        <3>1. bestCost[w][t[w]] = bestCost[w - 1][prev[w][t[w]]]
                + lat.path[w][prev[w][t[w]]][t[w]] + lat.node[w][t[w]]
            BY <1>3, <2>2, <2>4 DEF Traced
        <3> QED
            BY <2>2, <2>4, <3>1
    <2>6. p[w] = bestCost[w][t[w]]
        BY <2>1, <2>3, <2>5
    <2> QED
        BY <2>6 DEF w
<1>7. T = Nat
    <2> HIDE DEF T
    <2>1. T \in SUBSET Nat
        BY DEF T
    <2> QED
        BY <1>5, <1>6, <2>1, NatSetInduction
<1>8. p[x] = bestCost[x][t[x]]
    BY <1>4, <1>7
<1> QED
    BY <1>8 DEF p

\* The chain of prev pointers is well defined, from the last token back.
LEMMA ChainDefined ==
    ASSUME IInv, Exact, NEW y \in Labels
    PROVE  /\ Chain(y) \in Taggings(lat)
           /\ Chain(y)[Last] = y
           /\ \A x \in 1 .. Last : Chain(y)[x - 1] = prev[x][Chain(y)[x]]
<1> DEFINE Good(k, f) ==
               /\ f \in [Last - k .. Last -> Labels]
               /\ f[Last] = y
               /\ \A x \in Last - k .. Last - 1 : f[x] = prev[x + 1][f[x + 1]]
           T == {k \in Nat : k <= Last => \E f : Good(k, f)}
<1>1. lat.len \in Nat \ {0} /\ Last \in Nat /\ Last = lat.len - 1 /\ Tokens(lat) = 0 .. Last
    BY LatticeTypes DEF IInv, Types, Last, Tokens
<1>2. \A x \in 0 .. Last : \A z \in Labels : prev[x][z] \in Labels
    <2>1. prev \in [Tokens(lat) -> [Labels -> Labels]]
        BY DEF Exact, TypeOK
    <2> QED
        BY <1>1, <2>1
<1>3. 0 \in T
    <2> DEFINE f == [x \in Last - 0 .. Last |-> y]
    <2>1. Good(0, f)
        BY <1>1
    <2> QED
        BY <2>1
<1>4. ASSUME NEW k \in T PROVE k + 1 \in T
    <2> SUFFICES ASSUME k + 1 <= Last PROVE \E f : Good(k + 1, f)
        OBVIOUS
    <2>1. k \in Nat /\ k <= Last
        BY <1>1
    <2>2. PICK f : Good(k, f)
        BY <2>1
    <2> HIDE DEF T
    <2> DEFINE j == Last - (k + 1)
               h == [x \in j .. Last |-> IF x = j THEN prev[j + 1][f[j + 1]] ELSE f[x]]
    <2>3. /\ j \in 0 .. Last /\ j + 1 \in 0 .. Last /\ j + 1 = Last - k /\ j # Last
          /\ j .. Last = {j} \cup (Last - k .. Last)
        BY <1>1, <2>1, SMTT(30)
    <2> HIDE DEF j
    <2>4. \A x \in Last - k .. Last : f[x] \in Labels /\ x \in j .. Last /\ x # j
        BY <1>1, <2>1, <2>2, <2>3
    <2>5. j + 1 \in Last - k .. Last /\ prev[j + 1][f[j + 1]] \in Labels
        BY <1>1, <1>2, <2>1, <2>3, <2>4
    <2>6. h \in [j .. Last -> Labels]
        BY <2>3, <2>4, <2>5
    <2>7. \A x \in Last - k .. Last : h[x] = f[x]
        BY <2>4
    <2>8. h[j] = prev[j + 1][f[j + 1]]
        BY <1>1, <2>3
    <2> HIDE DEF h
    <2>9. h[Last] = y
        BY <1>1, <2>1, <2>2, <2>7
    <2>10. ASSUME NEW x \in j .. Last - 1 PROVE h[x] = prev[x + 1][h[x + 1]]
        <3>1. x + 1 \in Last - k .. Last /\ h[x + 1] = f[x + 1]
            <4>1. x + 1 \in j + 1 .. Last
                BY <1>1, <2>3
            <4>2. x + 1 \in Last - k .. Last
                BY <2>3, <4>1
            <4> QED
                BY <2>7, <4>2
        <3>2. CASE x = j
            BY <2>8, <3>1, <3>2
        <3>3. CASE x # j
            <4>1. x \in Last - k .. Last - 1
                BY <1>1, <2>1, <2>3, <3>3
            <4>2. x \in Last - k .. Last /\ h[x] = f[x]
                BY <1>1, <2>1, <2>7, <4>1
            <4> QED
                BY <2>2, <3>1, <4>1, <4>2
        <3> QED
            BY <3>2, <3>3
    <2>11. Good(k + 1, h)
        BY <2>6, <2>9, <2>10 DEF j
    <2> HIDE DEF Good
    <2> QED
        BY <2>11
<1>5. T = Nat
    <2> HIDE DEF T
    <2>1. T \in SUBSET Nat
        BY DEF T
    <2> QED
        BY <1>3, <1>4, <2>1, NatSetInduction
<1>6. PICK f : Good(Last, f)
    <2>1. Last \in T
        BY <1>1, <1>5
    <2> HIDE DEF Good
    <2> QED
        BY <1>1, <2>1
<1>7. f = [x \in Tokens(lat) |-> IF x = lat.len - 1 THEN y ELSE prev[x + 1][f[x + 1]]]
    <2>1. f \in [Tokens(lat) -> Labels]
        BY <1>1, <1>6
    <2>2. ASSUME NEW x \in Tokens(lat)
          PROVE  f[x] = IF x = lat.len - 1 THEN y ELSE prev[x + 1][f[x + 1]]
        <3>1. x = Last \/ x \in Last - Last .. Last - 1
            BY <1>1
        <3> QED
            BY <1>1, <1>6, <3>1
    <2> QED
        BY <2>1, <2>2
<1> DEFINE c == Chain(y)
<1>8. c = [x \in Tokens(lat) |-> IF x = lat.len - 1 THEN y ELSE prev[x + 1][c[x + 1]]]
    BY <1>7, Zenon DEF Chain
<1> HIDE DEF c, T
<1> DEFINE U == {k \in Nat : k <= Last => c[Last - k] \in Labels}
<1>9. \A x \in 0 .. Last : c[x] = IF x = Last THEN y ELSE prev[x + 1][c[x + 1]]
    BY <1>1, <1>8
<1>10. 0 \in U
    BY <1>1, <1>9
<1>11. ASSUME NEW k \in U PROVE k + 1 \in U
    <2> SUFFICES ASSUME k + 1 <= Last PROVE c[Last - (k + 1)] \in Labels
        OBVIOUS
    <2>1. k \in Nat /\ c[Last - k] \in Labels
        BY <1>1
    <2> DEFINE j == Last - (k + 1)
    <2>2. j \in 0 .. Last /\ j # Last /\ j + 1 = Last - k /\ j + 1 \in 0 .. Last
        BY <1>1, <2>1, SMTT(30)
    <2> HIDE DEF j, U
    <2>3. c[j] = prev[j + 1][c[j + 1]]
        BY <1>9, <2>2
    <2>4. c[j] \in Labels
        BY <1>2, <2>1, <2>2, <2>3
    <2> QED
        BY <2>4 DEF j
<1>12. U = Nat
    <2> HIDE DEF U
    <2>1. U \in SUBSET Nat
        BY DEF U
    <2> QED
        BY <1>10, <1>11, <2>1, NatSetInduction
<1>13. \A x \in 0 .. Last : c[x] \in Labels
    <2> SUFFICES ASSUME NEW x \in 0 .. Last PROVE c[x] \in Labels
        OBVIOUS
    <2>1. Last - x \in Nat /\ Last - x <= Last /\ Last - (Last - x) = x
        BY <1>1, SMTT(30)
    <2>2. Last - x \in U
        BY <1>12, <2>1
    <2> QED
        BY <2>1, <2>2
<1>14. c \in Taggings(lat)
    BY <1>1, <1>8, <1>13 DEF Taggings
<1>15. c[Last] = y
    BY <1>1, <1>9
<1>16. \A x \in 1 .. Last : c[x - 1] = prev[x][c[x]]
    <2> SUFFICES ASSUME NEW x \in 1 .. Last PROVE c[x - 1] = prev[x][c[x]]
        OBVIOUS
    <2>1. x - 1 \in 0 .. Last /\ x - 1 # Last /\ (x - 1) + 1 = x
        BY <1>1
    <2> QED
        BY <1>9, <2>1
<1> QED
    BY <1>14, <1>15, <1>16 DEF c

\* Whatever label a token has, some tagging is as good there as viterbi says.
LEMMA BestReached ==
    ASSUME IInv, Exact, i = lat.len, NEW x \in Tokens(lat), NEW y \in Labels
    PROVE  \E t \in Taggings(lat) : t[x] = y /\ Prefix(lat, t)[x] = bestCost[x][y]
<1> DEFINE Good(k, z, t) ==
               /\ t \in Taggings(lat)
               /\ t[k] = z
               /\ \A w \in 1 .. k : t[w - 1] = prev[w][t[w]]
           T == {k \in Nat : k < lat.len => \A z \in Labels : \E t : Good(k, z, t)}
<1>1. lat \in Lattices /\ lat.len \in Nat \ {0}
    BY LatticeTypes DEF IInv, Types
<1>2. 0 \in T
    <2> SUFFICES ASSUME NEW z \in Labels PROVE \E t : Good(0, z, t)
        OBVIOUS
    <2>1. Good(0, z, [w \in Tokens(lat) |-> z])
        BY <1>1 DEF Tokens, Taggings
    <2> QED
        BY <2>1
<1>3. ASSUME NEW k \in T PROVE k + 1 \in T
    <2> SUFFICES ASSUME k + 1 < lat.len, NEW z \in Labels PROVE \E t : Good(k + 1, z, t)
        OBVIOUS
    <2>1. k \in Nat /\ k < lat.len /\ k + 1 \in Tokens(lat)
        BY <1>1 DEF Tokens
    <2>2. prev[k + 1][z] \in Labels
        BY <2>1 DEF Exact, TypeOK
    <2>3. PICK u : Good(k, prev[k + 1][z], u)
        BY <2>1, <2>2
    <2> HIDE DEF T
    <2> DEFINE t == [u EXCEPT ![k + 1] = z]
    <2>4. t \in Taggings(lat) /\ t[k + 1] = z /\ \A w \in Tokens(lat) : w # k + 1 => t[w] = u[w]
        BY <2>1, <2>3 DEF Taggings
    <2> HIDE DEF t
    <2>5. ASSUME NEW w \in 1 .. k + 1 PROVE t[w - 1] = prev[w][t[w]]
        <3>1. w - 1 \in Tokens(lat) /\ w - 1 # k + 1 /\ t[w - 1] = u[w - 1]
            BY <1>1, <2>1, <2>4 DEF Tokens
        <3>2. CASE w = k + 1
            <4>1. w - 1 = k /\ u[k] = prev[k + 1][z]
                BY <2>1, <2>3, <3>2
            <4> QED
                BY <2>4, <3>1, <3>2, <4>1
        <3>3. CASE w # k + 1
            <4>1. w \in 1 .. k /\ w \in Tokens(lat)
                BY <1>1, <2>1, <3>3 DEF Tokens
            <4>2. t[w] = u[w] /\ u[w - 1] = prev[w][u[w]]
                BY <2>3, <2>4, <3>3, <4>1
            <4> QED
                BY <3>1, <4>2
        <3> QED
            BY <3>2, <3>3
    <2>6. Good(k + 1, z, t)
        BY <2>4, <2>5
    <2> HIDE DEF Good
    <2> QED
        BY <2>6
<1>4. T = Nat
    <2> HIDE DEF T
    <2>1. T \in SUBSET Nat
        BY DEF T
    <2> QED
        BY <1>2, <1>3, <2>1, NatSetInduction
<1>5. x \in Nat /\ x < lat.len
    BY <1>1 DEF Tokens
<1>6. PICK t : Good(x, y, t)
    BY <1>4, <1>5
<1>7. t \in Taggings(lat) /\ t[x] = y /\ Prefix(lat, t)[x] = bestCost[x][t[x]]
    BY <1>6, FollowsPrev
<1> QED
    BY <1>7

\* What is left of TypeOK.
RestTypes ==
    /\ prev \in [Tokens(lat) -> [Labels -> Labels]]
    /\ result \in Taggings(lat)
    /\ found \in BOOLEAN

LEMMA AllTypes ==
    /\ IInv /\ RestTypes => TypeOK
    /\ IInv' /\ RestTypes' => TypeOK'
BY DEF IInv, Types, AgendaGood, RestTypes, TypeOK, Taggings

LEMMA ZeroTypes ==
    ASSUME NEW lt \in Lattices
    PROVE  /\ Zeros(lt) \in [Tokens(lt) -> [Labels -> Labels]]
           /\ [x \in Tokens(lt) |-> 0] \in Taggings(lt)
<1>1. 0 \in Labels
    BY DEF Labels
<1> QED
    BY <1>1 DEF Zeros, Taggings

LEMMA InitExact == Init => Exact
<1> SUFFICES ASSUME Init PROVE Exact
    OBVIOUS
<1>1. lat \in Lattices /\ pc = "viterbi" /\ i = 0 /\ cost = 0 /\ found = FALSE
    BY DEF Init
<1>2. RestTypes
    BY <1>1, ZeroTypes DEF Init, RestTypes
<1>3. TypeOK
    BY <1>2, InitInvariant, AllTypes
<1>4. \A x \in Tokens(lat) : ~(x < i)
    BY <1>1, LatticeTypes DEF Tokens
<1> QED
    BY <1>1, <1>3, <1>4 DEF Exact

LEMMA FirstColumnExact == IInv /\ IInv' /\ Exact /\ FirstColumn => Exact'
<1> SUFFICES ASSUME IInv, IInv', Exact, FirstColumn PROVE Exact'
    OBVIOUS
<1>1. /\ pc = "viterbi" /\ pc' = pc /\ i' = 1
      /\ UNCHANGED <<lat, prev, result, cost, found>>
    BY DEF FirstColumn
<1>2. TypeOK'
    <2>1. RestTypes'
        BY <1>1 DEF Exact, TypeOK, RestTypes, Tokens, Taggings
    <2> QED
        BY <2>1, AllTypes
<1>3. \A x \in Tokens(lat') : x < i' => Traced(x)'
    <2>1. \A x \in Tokens(lat') : x < i' => x = 0
        BY <1>1, LatticeTypes DEF Tokens, IInv, Types
    <2> QED
        BY <2>1 DEF Traced
<1> QED
    BY <1>1, <1>2, <1>3 DEF Exact

LEMMA ColumnExact == IInv /\ IInv' /\ Exact /\ Column => Exact'
<1> SUFFICES ASSUME IInv, IInv', Exact, Column PROVE Exact'
    OBVIOUS
<1>1. /\ pc = "viterbi" /\ pc' = pc /\ i \in 1 .. lat.len - 1 /\ i' = i + 1
      /\ UNCHANGED <<lat, result, cost, found>>
    BY DEF Column
<1>2. PICK best \in [Labels -> Labels] :
        /\ prev' = [prev EXCEPT ![i] = best]
        /\ bestCost' = [bestCost EXCEPT ![i] = [y \in Labels |-> Reach(y)[best[y]]]]
    BY DEF Column
<1>3. i \in Tokens(lat)
    BY <1>1, LatticeTypes DEF Tokens, IInv, Types
<1>4. /\ prev \in [Tokens(lat) -> [Labels -> Labels]]
      /\ bestCost \in [Tokens(lat) -> [Labels -> Int]]
    BY DEF Exact, TypeOK
<1>5. /\ \A x \in Tokens(lat) : x # i => prev'[x] = prev[x] /\ bestCost'[x] = bestCost[x]
      /\ prev'[i] = best
      /\ \A y \in Labels : bestCost'[i][y] = Reach(y)[best[y]]
    BY <1>2, <1>3, <1>4
<1>6. TypeOK'
    <2>1. prev' \in [Tokens(lat) -> [Labels -> Labels]]
        BY <1>2, <1>3, <1>4
    <2>2. RestTypes'
        BY <1>1, <2>1 DEF Exact, TypeOK, RestTypes, Tokens, Taggings
    <2> QED
        BY <2>2, AllTypes
<1>7. ASSUME NEW x \in Tokens(lat), x < i PROVE Traced(x)'
    <2>1. Traced(x) /\ x # i /\ prev'[x] = prev[x] /\ bestCost'[x] = bestCost[x]
        BY <1>1, <1>5, <1>7, LatticeTypes DEF Exact, Tokens, IInv, Types
    <2>2. x # 0 => bestCost'[x - 1] = bestCost[x - 1]
        BY <1>1, <1>3, <1>5, <1>7, LatticeTypes DEF Tokens, IInv, Types
    <2> QED
        BY <1>1, <2>1, <2>2 DEF Traced
<1>8. ASSUME NEW x \in Tokens(lat), x = i PROVE Traced(x)'
    <2>1. bestCost'[i - 1] = bestCost[i - 1]
        BY <1>1, <1>3, <1>5, LatticeTypes DEF Tokens, IInv, Types
    <2>2. ASSUME NEW y \in Labels
          PROVE  bestCost'[i][y] = bestCost'[i - 1][prev'[i][y]]
                                     + lat.path[i][prev'[i][y]][y] + lat.node[i][y]
        <3>1. best[y] \in Labels
            OBVIOUS
        <3>2. Reach(y)[best[y]] = bestCost[i - 1][best[y]] + lat.path[i][best[y]][y]
                                    + lat.node[i][y]
            BY <3>1 DEF Reach
        <3> QED
            BY <1>5, <2>1, <3>2
    <2> QED
        BY <1>1, <1>8, <2>2 DEF Traced
<1>9. \A x \in Tokens(lat) : x < i + 1 => x < i \/ x = i
    BY <1>1, LatticeTypes DEF Tokens, IInv, Types
<1>10. \A x \in Tokens(lat') : x < i' => Traced(x)'
    BY <1>1, <1>7, <1>8, <1>9
<1> QED
    BY <1>1, <1>6, <1>10 DEF Exact

LEMMA BacktrackExact == IInv /\ IInv' /\ Exact /\ Backtrack => Exact'
<1> SUFFICES ASSUME IInv, IInv', Exact, Backtrack PROVE Exact'
    OBVIOUS
<1>1. /\ pc = "viterbi" /\ pc' = "parsed" /\ i = lat.len
      /\ UNCHANGED <<lat, i, bestCost, prev, found>>
    BY DEF Backtrack
<1>2. PICK y \in Labels : result' = Chain(y) /\ cost' = - bestCost[Last][y]
    BY DEF Backtrack, Last
<1>3. lat \in Lattices /\ lat.len \in Nat \ {0} /\ Last \in Tokens(lat) /\ Last = lat.len - 1
    BY LatticeTypes DEF IInv, Types, Last, Tokens
<1>4. /\ Chain(y) \in Taggings(lat) /\ Chain(y)[Last] = y
      /\ \A x \in 1 .. Last : Chain(y)[x - 1] = prev[x][Chain(y)[x]]
    BY ChainDefined
<1>5. Prefix(lat, Chain(y))[Last] = bestCost[Last][y]
    BY <1>1, <1>3, <1>4, FollowsPrev
<1>6. Definition!CostOf(lat, Chain(y)) = - bestCost[Last][y]
    <2>1. IsPrefix(lat, Chain(y), Prefix(lat, Chain(y)))
        BY <1>3, <1>4, PrefixDefined DEF Taggings
    <2> QED
        BY <1>3, <1>5, <2>1 DEF IsPrefix
<1>7. TypeOK'
    <2>1. RestTypes'
        BY <1>1, <1>2, <1>4 DEF Exact, TypeOK, RestTypes, Tokens, Taggings
    <2> QED
        BY <2>1, AllTypes
<1>8. \A x \in Tokens(lat) : Traced(x)
    <2>1. \A x \in Tokens(lat) : x < i
        BY <1>1, <1>3 DEF Tokens
    <2> QED
        BY <2>1 DEF Exact
<1>9. \A x \in Tokens(lat') : Traced(x)'
    BY <1>1, <1>8 DEF Traced
<1>10. cost' = Definition!CostOf(lat', result')
    BY <1>1, <1>2, <1>6
<1>11. found' = FALSE
    BY <1>1 DEF Exact
<1> QED
    BY <1>1, <1>7, <1>9, <1>10, <1>11 DEF Exact

\* Once a sentence is decoded, only the agenda has to be looked at.
LEMMA SearchExact ==
    ASSUME IInv, IInv', Exact, Decoded, pc' \in {"ready", "search"},
           UNCHANGED <<lat, bestCost, prev>>,
           result' \in Taggings(lat), found' \in BOOLEAN,
           \A e \in agenda' : Weighed(e),
           \A d, e \in agenda' : Exclusive(d, e)
    PROVE  Exact'
<1>1. TypeOK'
    <2>1. RestTypes'
        BY DEF Exact, TypeOK, RestTypes, Tokens, Taggings
    <2> QED
        BY <2>1, AllTypes
<1>2. \A x \in Tokens(lat) : Traced(x)
    BY DEF Exact, Decoded
<1>3. \A x \in Tokens(lat') : Traced(x)'
    BY <1>2 DEF Traced
<1>4. \A e \in agenda' : Weighed(e)'
    BY DEF Weighed, Extends, At, Taggings, Tokens
<1>5. ASSUME NEW d \in agenda', NEW e \in agenda' PROVE Exclusive(d, e)'
    <2>1. Exclusive(d, e)
        OBVIOUS
    <2> QED
        BY <2>1 DEF Exclusive, Extends, At, Taggings, Tokens
<1> QED
    BY <1>1, <1>3, <1>4, <1>5 DEF Exact

\* The taggings that end like an element at the last token.
LEMMA EosExtends ==
    ASSUME IInv, pc = "parsed", NEW y \in Labels, NEW t \in Taggings(lat)
    PROVE  Extends(t, Eos(y)) <=> t[Last] = y
<1>1. Eos(y).seq = <<y>> /\ At(Eos(y)) = Last /\ Last \in Nat
    BY LatticeTypes DEF IInv, Types, Eos, At, Last
<1> QED
    BY <1>1 DEF Extends

LEMMA EosWeighed ==
    ASSUME IInv, Exact, pc = "parsed", NEW y \in Labels
    PROVE  Weighed(Eos(y))
<1> DEFINE e == Eos(y)
<1>1. e.gx = - lat.node[Last][y] /\ At(e) = Last /\ Last = lat.len - 1
    BY LatticeTypes DEF IInv, Types, Eos, At, Last
<1>2. lat \in Lattices /\ lat.len \in Nat \ {0} /\ Last \in Tokens(lat)
    BY LatticeTypes DEF IInv, Types, Last, Tokens
<1>3. lat.node[Last][y] \in Int
    BY <1>2, LatticeTypes DEF Tokens
<1> SUFFICES ASSUME NEW t \in Taggings(lat), Extends(t, e)
             PROVE  Definition!CostOf(lat, t)
                      = e.gx + lat.node[At(e)][t[At(e)]] - Prefix(lat, t)[At(e)]
    BY DEF Weighed
<1>4. t[Last] = y
    BY EosExtends
<1>5. IsPrefix(lat, t, Prefix(lat, t))
    BY <1>2, PrefixDefined DEF Taggings
<1>6. Prefix(lat, t)[Last] \in Int
    BY <1>2, <1>5 DEF IsPrefix
<1>7. Definition!CostOf(lat, t) = - Prefix(lat, t)[Last]
    BY <1>1, <1>5 DEF IsPrefix
<1> HIDE DEF e
<1> QED
    BY <1>1, <1>3, <1>4, <1>6, <1>7

LEMMA InitNbestExact == IInv /\ IInv' /\ Exact /\ InitNbest => Exact'
<1> SUFFICES ASSUME IInv, IInv', Exact, InitNbest PROVE Exact'
    OBVIOUS
<1>1. /\ pc = "parsed" /\ pc' = "ready" /\ agenda' = {Eos(y) : y \in Labels} /\ found' = TRUE
      /\ UNCHANGED <<lat, i, bestCost, prev, result, cost>>
    BY DEF InitNbest
<1>2. \A e \in agenda' : Weighed(e)
    BY <1>1, EosWeighed
<1>3. ASSUME NEW d \in agenda', NEW e \in agenda' PROVE Exclusive(d, e)
    <2>1. PICK y \in Labels : d = Eos(y)
        BY <1>1
    <2>2. PICK z \in Labels : e = Eos(z)
        BY <1>1
    <2>3. d # e => y # z
        BY <2>1, <2>2
    <2> QED
        BY <1>1, <2>1, <2>2, <2>3, EosExtends DEF Exclusive
<1>4. result' \in Taggings(lat)
    BY <1>1 DEF Exact, TypeOK, Taggings
<1> QED
    BY <1>1, <1>2, <1>3, <1>4, SearchExact DEF Decoded

\* The taggings that end like a new element, and what they cost.
LEMMA ExtendExtends ==
    ASSUME IInv, pc = "search", NEW top \in agenda, At(top) # 0, NEW l \in Labels,
           NEW t \in Taggings(lat)
    PROVE  Extends(t, Extend(top, l)) <=> Extends(t, top) /\ t[At(top) - 1] = l
<1> DEFINE e == Extend(top, l)
           x == At(top)
<1>1. x \in Tokens(lat) /\ top.seq \in Seq(Labels) /\ Len(top.seq) \in Nat
    BY ElementTypes DEF IInv, AgendaGood
<1>2. x \in Int /\ lat.len \in Nat \ {0}
    BY <1>1, LatticeTypes DEF IInv, Types, Tokens
<1>3. /\ e.seq = <<l>> \o top.seq /\ Len(e.seq) = Len(top.seq) + 1
      /\ e.seq[1] = l /\ \A j \in 1 .. Len(top.seq) : e.seq[j + 1] = top.seq[j]
    BY <1>1 DEF Extend
<1>4. At(e) = x - 1
    BY <1>1, <1>2, <1>3 DEF At
<1> HIDE DEF e, x
<1>5. Extends(t, e) <=> \A j \in 1 .. Len(top.seq) + 1 : t[(x - 1) + j - 1] = e.seq[j]
    BY <1>3, <1>4 DEF Extends
<1>6. Extends(t, top) <=> \A j \in 1 .. Len(top.seq) : t[x + j - 1] = top.seq[j]
    BY DEF Extends, x
<1>7. ASSUME Extends(t, e) PROVE Extends(t, top) /\ t[x - 1] = l
    <2>1. t[(x - 1) + 1 - 1] = e.seq[1] /\ (x - 1) + 1 - 1 = x - 1
        BY <1>1, <1>2, <1>5, <1>7
    <2>2. ASSUME NEW j \in 1 .. Len(top.seq) PROVE t[x + j - 1] = top.seq[j]
        <3>1. j + 1 \in 1 .. Len(top.seq) + 1 /\ (x - 1) + (j + 1) - 1 = x + j - 1
            BY <1>1, <1>2
        <3>2. t[(x - 1) + (j + 1) - 1] = e.seq[j + 1]
            BY <1>5, <1>7, <3>1
        <3> QED
            BY <1>3, <3>1, <3>2
    <2> QED
        BY <1>3, <1>6, <2>1, <2>2
<1>8. ASSUME Extends(t, top), t[x - 1] = l PROVE Extends(t, e)
    <2> SUFFICES ASSUME NEW j \in 1 .. Len(top.seq) + 1 PROVE t[(x - 1) + j - 1] = e.seq[j]
        BY <1>5
    <2>1. CASE j = 1
        <3>1. (x - 1) + j - 1 = x - 1
            BY <1>2, <2>1
        <3> QED
            BY <1>3, <1>8, <2>1, <3>1
    <2>2. CASE j # 1
        <3> DEFINE k == j - 1
        <3>1. k \in 1 .. Len(top.seq) /\ k + 1 = j /\ x + k - 1 = (x - 1) + j - 1
            BY <1>1, <1>2, <2>2
        <3> HIDE DEF k
        <3>2. t[x + k - 1] = top.seq[k] /\ e.seq[k + 1] = top.seq[k]
            BY <1>3, <1>6, <1>8, <3>1
        <3> QED
            BY <3>1, <3>2
    <2> QED
        BY <2>1, <2>2
<1> QED
    BY <1>7, <1>8 DEF e, x

\* A tagging has an element's first label at the element's token.
LEMMA AtHead ==
    ASSUME IInv, pc \in {"ready", "search"}, NEW e \in agenda,
           NEW t \in Taggings(lat), Extends(t, e)
    PROVE  t[At(e)] = Head(e.seq)
<1>1. /\ At(e) \in Tokens(lat) /\ e.seq \in Seq(Labels) /\ Len(e.seq) \in 1 .. lat.len
      /\ lat.len \in Nat \ {0}
    BY ElementTypes, LatticeTypes DEF IInv, AgendaGood, Types
<1>2. 1 \in 1 .. Len(e.seq) /\ At(e) + 1 - 1 = At(e)
    BY <1>1 DEF Tokens
<1>3. t[At(e)] = e.seq[1]
    BY <1>2 DEF Extends
<1> QED
    BY <1>1, <1>3

LEMMA ExtendWeighed ==
    ASSUME IInv, Exact, pc = "search", NEW top \in agenda, At(top) # 0, NEW l \in Labels
    PROVE  Weighed(Extend(top, l))
<1> DEFINE e == Extend(top, l)
           x == At(top)
           h == Head(top.seq)
<1>1. /\ x \in Tokens(lat) /\ Weighed(top)
      /\ top.seq \in Seq(Labels) /\ h \in Labels /\ top.gx \in Int
    BY ElementTypes DEF IInv, AgendaGood, Exact
<1>2. lat \in Lattices /\ lat.len \in Nat \ {0} /\ x \in 1 .. lat.len - 1 /\ x - 1 \in Tokens(lat)
    BY <1>1, LatticeTypes DEF IInv, Types, Tokens
<1>3. e.gx = top.gx - lat.node[x - 1][l] - lat.path[x][l][h]
    BY DEF Extend
<1>4. At(e) = x - 1
    BY <1>1, <1>2 DEF At, Extend
<1>5. lat.node[x - 1][l] \in Int /\ lat.path[x][l][h] \in Int /\ lat.node[x][h] \in Int
    BY <1>1, <1>2, LatticeTypes DEF Tokens
<1> SUFFICES ASSUME NEW t \in Taggings(lat), Extends(t, e)
             PROVE  Definition!CostOf(lat, t)
                      = e.gx + lat.node[At(e)][t[At(e)]] - Prefix(lat, t)[At(e)]
    BY DEF Weighed
<1>6. Extends(t, top) /\ t[x - 1] = l
    BY ExtendExtends
<1>7. t[x] = h
    BY <1>6, AtHead
<1>8. Definition!CostOf(lat, t) = top.gx + lat.node[x][h] - Prefix(lat, t)[x]
    BY <1>1, <1>6, <1>7 DEF Weighed
<1>9. IsPrefix(lat, t, Prefix(lat, t))
    BY <1>2, PrefixDefined DEF Taggings
<1>10. /\ Prefix(lat, t)[x - 1] \in Int
       /\ Prefix(lat, t)[x] = Prefix(lat, t)[x - 1] + lat.path[x][l][h] + lat.node[x][h]
    <2>1. Prefix(lat, t)[x] = Prefix(lat, t)[x - 1] + lat.path[x][t[x - 1]][t[x]]
                                + lat.node[x][t[x]]
        BY <1>2, <1>9 DEF IsPrefix
    <2>2. Prefix(lat, t)[x - 1] \in Int
        BY <1>2, <1>9 DEF IsPrefix
    <2> QED
        BY <1>6, <1>7, <2>1, <2>2
<1>11. Definition!CostOf(lat, t) = e.gx + lat.node[x - 1][l] - Prefix(lat, t)[x - 1]
    <2> HIDE DEF e, x, h
    <2> QED
        BY <1>1, <1>3, <1>5, <1>8, <1>10
<1> QED
    BY <1>4, <1>6, <1>11

LEMMA ExpandExact ==
    ASSUME IInv, IInv', Exact, NEW top \in Tops, Expand(top)
    PROVE  Exact'
<1>1. /\ pc = "search" /\ pc' = pc /\ At(top) # 0 /\ top \in agenda
      /\ agenda' = (agenda \ {top}) \cup {Extend(top, l) : l \in Labels}
      /\ UNCHANGED <<lat, bestCost, prev, result, found>>
    BY DEF Expand, Tops
<1>2. ASSUME NEW e \in agenda' PROVE Weighed(e)
    BY <1>1, <1>2, ExtendWeighed DEF Exact
<1>3. ASSUME NEW d \in agenda', NEW e \in agenda' PROVE Exclusive(d, e)
    <2>1. \A c \in agenda : Exclusive(top, c) /\ Exclusive(c, top) /\ \A b \in agenda : Exclusive(b, c)
        BY <1>1 DEF Exact
    <2>2. \A l \in Labels : \A t \in Taggings(lat) :
            Extends(t, Extend(top, l)) => Extends(t, top) /\ t[At(top) - 1] = l
        BY <1>1, ExtendExtends
    <2>3. CASE d \in agenda \ {top} /\ e \in agenda \ {top}
        BY <2>1, <2>3
    <2>4. CASE d \in agenda \ {top} /\ \E l \in Labels : e = Extend(top, l)
        BY <2>1, <2>2, <2>4 DEF Exclusive
    <2>5. CASE e \in agenda \ {top} /\ \E l \in Labels : d = Extend(top, l)
        BY <2>1, <2>2, <2>5 DEF Exclusive
    <2>6. ASSUME NEW l \in Labels, NEW m \in Labels, d = Extend(top, l), e = Extend(top, m)
          PROVE  Exclusive(d, e)
        BY <2>2, <2>6 DEF Exclusive
    <2> QED
        BY <1>1, <2>3, <2>4, <2>5, <2>6
<1>4. result' \in Taggings(lat) /\ found' \in BOOLEAN
    BY <1>1 DEF Exact, TypeOK, Taggings
<1> QED
    BY <1>1, <1>2, <1>3, <1>4, SearchExact DEF Decoded

LEMMA QuietExact == IInv /\ IInv' /\ Exact /\ (Call \/ Exhausted) => Exact'
<1> SUFFICES ASSUME IInv, IInv', Exact, Call \/ Exhausted PROVE Exact'
    OBVIOUS
<1>1. /\ pc \in {"ready", "search"} /\ pc' \in {"ready", "search"}
      /\ UNCHANGED <<lat, bestCost, prev, agenda, result>>
      /\ found' \in {found, FALSE}
    BY DEF Call, Exhausted
<1>2. result' \in Taggings(lat) /\ found' \in BOOLEAN
    BY <1>1 DEF Exact, TypeOK, Taggings
<1>3. /\ \A e \in agenda' : Weighed(e)
      /\ \A d, e \in agenda' : Exclusive(d, e)
    BY <1>1 DEF Exact
<1> QED
    BY <1>1, <1>2, <1>3, SearchExact DEF Decoded

LEMMA NewSentenceExact == IInv /\ IInv' /\ NewSentence => Exact'
<1> SUFFICES ASSUME IInv, IInv', NewSentence PROVE Exact'
    OBVIOUS
<1>1. /\ pc' = "viterbi" /\ lat' \in Lattices /\ i' = 0 /\ cost' = 0 /\ found' = FALSE
      /\ prev' = Zeros(lat') /\ result' = [x \in Tokens(lat') |-> 0]
    BY DEF NewSentence
<1>2. RestTypes'
    BY <1>1, ZeroTypes DEF RestTypes
<1>3. TypeOK'
    BY <1>2, AllTypes
<1>4. \A x \in Tokens(lat') : ~(x < i')
    BY <1>1, LatticeTypes DEF Tokens
<1> QED
    BY <1>1, <1>3, <1>4 DEF Exact

\* fx is a bound on what the taggings that end like an element cost.
LEMMA CostAtLeast ==
    ASSUME IInv, Exact, pc \in {"ready", "search"}, NEW e \in agenda,
           NEW t \in Taggings(lat), Extends(t, e)
    PROVE  Definition!CostOf(lat, t) \in Int /\ e.fx <= Definition!CostOf(lat, t)
<1> DEFINE x == At(e)
           h == Head(e.seq)
           p == Prefix(lat, t)
<1>1. /\ x \in Tokens(lat) /\ h \in Labels /\ e.gx \in Int /\ e.fx \in Int
      /\ lat.node[x][h] \in Int /\ bestCost[x][h] \in Int
    BY ElementTypes DEF IInv, AgendaGood
<1>2. t[x] = h
    BY AtHead
<1>3. Definition!CostOf(lat, t) = e.gx + lat.node[x][h] - p[x]
    BY <1>2 DEF Exact, Weighed
<1>4. p[x] \in Int
    BY <1>1, PrefixDefined DEF IInv, Types, Taggings, IsPrefix
<1>5. p[x] <= bestCost[x][h]
    BY <1>1, <1>2, BestBounds DEF Decoded
<1>6. e.fx = e.gx + lat.node[x][h] - bestCost[x][h]
    BY DEF IInv, AgendaGood, Consistent
<1> HIDE DEF x, h, p
<1> QED
    BY <1>1, <1>3, <1>4, <1>5, <1>6

\* And one of them costs fx.
LEMMA CostReached ==
    ASSUME IInv, Exact, pc \in {"ready", "search"}, NEW e \in agenda
    PROVE  \E t \in Taggings(lat) : Extends(t, e) /\ Definition!CostOf(lat, t) = e.fx
<1> DEFINE x == At(e)
           h == Head(e.seq)
<1>1. /\ x \in Tokens(lat) /\ h \in Labels /\ e.gx \in Int /\ e.fx \in Int
      /\ lat.node[x][h] \in Int /\ bestCost[x][h] \in Int
      /\ e.seq \in Seq(Labels) /\ Len(e.seq) \in 1 .. lat.len
    BY ElementTypes DEF IInv, AgendaGood
<1>2. lat \in Lattices /\ lat.len \in Nat \ {0} /\ x = lat.len - Len(e.seq) /\ h = e.seq[1]
    BY <1>1, LatticeTypes DEF IInv, Types, At
<1>3. i = lat.len
    BY DEF IInv, Decoded
<1>12. x \in Nat /\ x < lat.len /\ Len(e.seq) \in Nat /\ lat.len \in Nat
    BY <1>1, <1>2 DEF Tokens
<1>13. /\ \A w \in Tokens(lat) : ~(w < x) => w - x + 1 \in 1 .. Len(e.seq)
       /\ \A j \in 1 .. Len(e.seq) :
            x + j - 1 \in Tokens(lat) /\ ~(x + j - 1 < x) /\ (x + j - 1) - x + 1 = j
    <2> DEFINE n == lat.len
               m == Len(e.seq)
    <2>1. x \in Nat /\ n \in Nat /\ m \in Nat /\ x = n - m
        BY <1>2, <1>12
    <2> HIDE DEF n, m
    <2>2. /\ \A w \in 0 .. n - 1 : ~(w < x) => w - x + 1 \in 1 .. m
          /\ \A j \in 1 .. m :
                x + j - 1 \in 0 .. n - 1 /\ ~(x + j - 1 < x) /\ (x + j - 1) - x + 1 = j
        BY <2>1
    <2> QED
        BY <2>2 DEF n, m, Tokens
<1>4. PICK u \in Taggings(lat) : u[x] = h /\ Prefix(lat, u)[x] = bestCost[x][h]
    BY <1>1, <1>3, BestReached
<1> DEFINE t == [w \in Tokens(lat) |-> IF w < x THEN u[w] ELSE e.seq[w - x + 1]]
<1> HIDE DEF x, h
<1>5. t \in Taggings(lat)
    <2> SUFFICES ASSUME NEW w \in Tokens(lat)
                 PROVE  (IF w < x THEN u[w] ELSE e.seq[w - x + 1]) \in Labels
        BY DEF Taggings
    <2>1. CASE w < x
        BY <2>1 DEF Taggings
    <2>2. CASE ~(w < x)
        <3>1. w - x + 1 \in 1 .. Len(e.seq)
            BY <1>13, <2>2 DEF Tokens
        <3> QED
            BY <1>1, <2>2, <3>1
    <2> QED
        BY <2>1, <2>2
<1>6. Extends(t, e)
    <2> SUFFICES ASSUME NEW j \in 1 .. Len(e.seq) PROVE t[x + j - 1] = e.seq[j]
        BY DEF Extends, x
    <2>1. /\ x + j - 1 \in Tokens(lat) /\ ~(x + j - 1 < x) /\ (x + j - 1) - x + 1 = j
        BY <1>13
    <2> QED
        BY <2>1
<1>7. \A w \in 0 .. x : t[w] = u[w]
    <2> SUFFICES ASSUME NEW w \in 0 .. x PROVE t[w] = u[w]
        OBVIOUS
    <2>1. w \in Tokens(lat) /\ x \in Tokens(lat)
        BY <1>1, <1>2 DEF Tokens
    <2>2. CASE w < x
        BY <2>1, <2>2
    <2>3. CASE w = x
        <3>1. ~(x < x) /\ x - x + 1 = 1
            BY <1>1, <1>2
        <3> QED
            BY <1>2, <1>4, <2>1, <2>3, <3>1
    <2> QED
        BY <1>1, <1>2, <2>2, <2>3 DEF Tokens
<1> HIDE DEF t
<1>8. Prefix(lat, t)[x] = bestCost[x][h]
    <2>1. Prefix(lat, t)[x] = Prefix(lat, u)[x]
        <3>1. t \in [Tokens(lat) -> Labels] /\ u \in [Tokens(lat) -> Labels]
            BY <1>5 DEF Taggings
        <3>2. ASSUME NEW y \in [Tokens(lat) -> Labels], NEW z \in [Tokens(lat) -> Labels],
                     NEW v \in Tokens(lat), \A w \in 0 .. v : y[w] = z[w]
              PROVE  Prefix(lat, y)[v] = Prefix(lat, z)[v]
            BY <1>2, <3>2, PrefixLocal
        <3> QED
            BY <1>1, <1>7, <3>1, <3>2, Zenon
    <2> QED
        BY <1>4, <2>1
<1>9. t[x] = h
    BY <1>5, <1>6, AtHead DEF x, h
<1>10. Definition!CostOf(lat, t) = e.gx + lat.node[x][h] - bestCost[x][h]
    BY <1>5, <1>6, <1>8, <1>9 DEF Exact, Weighed, x
<1>11. e.fx = e.gx + lat.node[x][h] - bestCost[x][h]
    BY DEF IInv, AgendaGood, Consistent, x, h
<1> QED
    BY <1>5, <1>6, <1>10, <1>11

\* A tagging that is complete: it ends like itself alone, and is the cheapest
\* of all that are still to come.
LEMMA FoundTagging ==
    ASSUME IInv, Exact, pc = "search", NEW top \in Tops, At(top) = 0,
           NEW r, r = [x \in Tokens(lat) |-> top.seq[x + 1]]
    PROVE  /\ r \in Taggings(lat)
           /\ \A t \in Taggings(lat) : Extends(t, top) <=> t = r
           /\ Definition!CostOf(lat, r) = top.gx
           /\ \A t \in Taggings(lat) : Pending(t) =>
                Definition!CostOf(lat, r) <= Definition!CostOf(lat, t)
<1>1. /\ top \in agenda /\ \A e \in agenda : top.fx <= e.fx
      /\ At(top) \in Tokens(lat)
    BY DEF Tops, IInv, AgendaGood
<1>2. /\ top.seq \in Seq(Labels) /\ Len(top.seq) \in 1 .. lat.len
      /\ Head(top.seq) \in Labels /\ top.gx \in Int /\ top.fx \in Int
      /\ lat.node[At(top)][Head(top.seq)] \in Int
    BY <1>1, ElementTypes DEF IInv
<1>3. lat.len \in Nat \ {0} /\ Len(top.seq) = lat.len
    BY <1>2, LatticeTypes DEF IInv, Types, At
<1>4. r \in Taggings(lat)
    <2>1. \A x \in Tokens(lat) : x + 1 \in 1 .. Len(top.seq)
        BY <1>3 DEF Tokens
    <2> QED
        BY <1>2, <2>1 DEF Taggings
<1>5. ASSUME NEW t \in Taggings(lat) PROVE Extends(t, top) <=> t = r
    <2>1. Extends(t, top) <=> \A j \in 1 .. lat.len : t[0 + j - 1] = top.seq[j]
        BY <1>3 DEF Extends
    <2>2. ASSUME Extends(t, top) PROVE t = r
        <3>1. ASSUME NEW x \in Tokens(lat) PROVE t[x] = r[x]
            <4>1. x + 1 \in 1 .. lat.len /\ 0 + (x + 1) - 1 = x
                BY <1>3 DEF Tokens
            <4>2. t[0 + (x + 1) - 1] = top.seq[x + 1]
                BY <2>1, <2>2, <4>1
            <4> QED
                BY <4>1, <4>2
        <3> QED
            BY <1>4, <3>1 DEF Taggings
    <2>3. ASSUME t = r PROVE Extends(t, top)
        <3> SUFFICES ASSUME NEW j \in 1 .. lat.len PROVE t[0 + j - 1] = top.seq[j]
            BY <2>1
        <3>1. 0 + j - 1 \in Tokens(lat) /\ (0 + j - 1) + 1 = j
            BY <1>3 DEF Tokens
        <3> QED
            BY <2>3, <3>1
    <2> QED
        BY <2>2, <2>3
<1>6. Definition!CostOf(lat, r) = top.gx
    <2>1. Extends(r, top)
        BY <1>4, <1>5
    <2>2. r[0] = Head(top.seq)
        BY <1>1, <1>4, <2>1, AtHead
    <2>3. IsPrefix(lat, r, Prefix(lat, r))
        BY <1>4, PrefixDefined DEF Taggings, IInv, Types
    <2>4. Prefix(lat, r)[0] = lat.node[0][Head(top.seq)]
        BY <2>2, <2>3 DEF IsPrefix
    <2>5. Definition!CostOf(lat, r) = top.gx + lat.node[0][Head(top.seq)] - Prefix(lat, r)[0]
        BY <1>1, <1>4, <2>1, <2>2 DEF Exact, Weighed
    <2> QED
        BY <1>2, <2>4, <2>5
<1>7. top.gx = top.fx
    BY FoundCost
<1>8. ASSUME NEW t \in Taggings(lat), Pending(t)
      PROVE  Definition!CostOf(lat, r) <= Definition!CostOf(lat, t)
    <2>1. PICK e \in agenda : Extends(t, e)
        BY <1>8 DEF Pending
    <2>2. e.fx <= Definition!CostOf(lat, t) /\ Definition!CostOf(lat, t) \in Int
        BY <2>1, CostAtLeast
    <2>3. e.fx \in Int /\ top.fx <= e.fx
        BY <1>1 DEF IInv, Types, Element
    <2> QED
        BY <1>2, <1>6, <1>7, <2>2, <2>3
<1> QED
    BY <1>4, <1>5, <1>6, <1>8

LEMMA FoundExact ==
    ASSUME IInv, IInv', Exact, NEW top \in Tops, Found(top)
    PROVE  Exact'
<1>1. /\ pc = "search" /\ pc' = "ready" /\ At(top) = 0
      /\ agenda' = agenda \ {top} /\ found' = TRUE
      /\ result' = [x \in Tokens(lat) |-> top.seq[x + 1]]
      /\ UNCHANGED <<lat, i, bestCost, prev>>
    BY DEF Found
<1>2. result' \in Taggings(lat)
    BY <1>1, FoundTagging
<1>3. /\ \A e \in agenda' : Weighed(e)
      /\ \A d, e \in agenda' : Exclusive(d, e)
    BY <1>1 DEF Exact
<1> QED
    BY <1>1, <1>2, <1>3, SearchExact DEF Decoded

LEMMA StepExact == IInv /\ Exact /\ [Next]_vars => Exact'
<1> SUFFICES ASSUME IInv, Exact, [Next]_vars PROVE Exact'
    OBVIOUS
<1>1. IInv'
    BY StepInvariant
<1>2. CASE Decode
    BY <1>1, <1>2, FirstColumnExact, ColumnExact, BacktrackExact, InitNbestExact DEF Decode
<1>3. CASE Call \/ Exhausted
    BY <1>1, <1>3, QuietExact
<1>4. ASSUME NEW top \in Tops, Expand(top) \/ Found(top) PROVE Exact'
    BY <1>1, <1>4, ExpandExact, FoundExact
<1>5. CASE NewSentence
    BY <1>1, <1>5, NewSentenceExact
<1>6. CASE UNCHANGED vars
    <2>1. /\ UNCHANGED <<pc, lat, i, bestCost, prev, agenda, result, cost, found>>
        BY <1>6 DEF vars
    <2>2. CASE pc \in {"ready", "search"}
        <3>1. /\ result' \in Taggings(lat) /\ found' \in BOOLEAN
              /\ \A e \in agenda' : Weighed(e)
              /\ \A d, e \in agenda' : Exclusive(d, e)
            BY <2>1, <2>2 DEF Exact, TypeOK, Taggings
        <3> QED
            BY <1>1, <2>1, <2>2, <3>1, SearchExact DEF Decoded
    <2>3. CASE pc \notin {"ready", "search"}
        <3>1. TypeOK'
            <4>1. RestTypes'
                BY <2>1 DEF Exact, TypeOK, RestTypes, Tokens, Taggings
            <4> QED
                BY <1>1, <4>1, AllTypes
        <3>2. \A x \in Tokens(lat') : (pc' = "viterbi" => x < i') => Traced(x)'
            BY <2>1 DEF Exact, Traced, Tokens
        <3>3. pc' = "parsed" => cost' = Definition!CostOf(lat', result') /\ found' = FALSE
            BY <2>1 DEF Exact
        <3> QED
            BY <2>1, <2>3, <3>1, <3>2, <3>3 DEF Exact
    <2> QED
        BY <2>2, <2>3
<1> QED
    BY <1>2, <1>3, <1>4, <1>5, <1>6 DEF Next, Search

(***************************************************************************)
(* The tables of viterbi, the agenda and the result keep their types, for  *)
(* every lattice; an element's node is always one of the lattice at hand.  *)
(***************************************************************************)
THEOREM TypeCorrect == Spec => []TypeOK
<1>1. Exact => TypeOK
    BY DEF Exact
<1> QED
    BY InitInvariant, InitExact, StepInvariant, StepExact, <1>1, PTL DEF Spec

(***************************************************************************)
(* The estimate that orders the agenda is exact for every lattice: each    *)
(* element's fx is the least cost of a tagging that ends like it.          *)
(***************************************************************************)
THEOREM Estimates == Spec => []EstimatesExact
<1>1. IInv /\ Exact => EstimatesExact
    <2> SUFFICES ASSUME IInv, Exact, pc \in {"ready", "search"}, NEW e \in agenda
                 PROVE  LET ends == {y \in Taggings(lat) : Extends(y, e)} IN
                        /\ \A y \in ends : e.fx <= Definition!CostOf(lat, y)
                        /\ \E y \in ends : e.fx = Definition!CostOf(lat, y)
        BY DEF EstimatesExact, Taggings
    <2>1. \A y \in Taggings(lat) : Extends(y, e) => e.fx <= Definition!CostOf(lat, y)
        BY CostAtLeast
    <2>2. \E y \in Taggings(lat) : Extends(y, e) /\ Definition!CostOf(lat, y) = e.fx
        BY CostReached
    <2> QED
        BY <2>1, <2>2
<1> QED
    BY InitInvariant, InitExact, StepInvariant, StepExact, <1>1, PTL DEF Spec

-----------------------------------------------------------------------------
(* The search implements the definition of the n best taggings. *)

\* What next() has still to return.
Left == {y \in Taggings(lat) : Pending(y)}

\* Before the first answer the definition waits; then both say the same.
LEMMA Mapped ==
    /\ \A lt : Definition!Taggings(lt) = Taggings(lt)
    /\ \A lt, Y : Definition!Cheapest(lt, Y) =
         {y \in Y : \A z \in Y : Definition!CostOf(lt, y) <= Definition!CostOf(lt, z)}
BY DEF Definition!Taggings, Definition!Tokens, Definition!Labels, Definition!Cheapest,
       Taggings, Tokens, Labels

\* What viterbi returns is a cheapest tagging, and every tagging is to come.
LEMMA ParseRefines == IInv /\ Exact /\ InitNbest => Definition!Parse
<1> SUFFICES ASSUME IInv, Exact, InitNbest PROVE Definition!Parse
    OBVIOUS
<1>1. /\ pc = "parsed" /\ pc' = "ready" /\ agenda' = {Eos(y) : y \in Labels} /\ found' = TRUE
      /\ UNCHANGED <<lat, result, cost>>
    BY DEF InitNbest
<1>2. result \in Taggings(lat) /\ cost = Definition!CostOf(lat, result) /\ cost \in Int
    BY <1>1 DEF Exact, TypeOK, Taggings
<1>3. lat \in Lattices /\ lat.len \in Nat \ {0} /\ Last \in Tokens(lat) /\ Last = lat.len - 1
    BY LatticeTypes DEF IInv, Types, Tokens, Last
<1>4. ASSUME NEW t \in Taggings(lat) PROVE cost <= Definition!CostOf(lat, t)
    <2>1. t[Last] \in Labels
        BY <1>3 DEF Taggings
    <2>2. cost <= - bestCost[Last][t[Last]] /\ bestCost[Last][t[Last]] \in Int
        BY <1>1, <1>3, <2>1, TableTypes DEF IInv
    <2>3. Prefix(lat, t)[Last] <= bestCost[Last][t[Last]]
        BY <1>1, <1>3, BestBounds DEF Decoded
    <2>4. Prefix(lat, t)[Last] \in Int /\ Definition!CostOf(lat, t) = - Prefix(lat, t)[Last]
        BY <1>3, PrefixDefined DEF Taggings, IsPrefix
    <2> QED
        BY <1>2, <2>2, <2>3, <2>4
<1>5. ASSUME NEW t \in Taggings(lat) PROVE Pending(t)'
    <2>1. t[Last] \in Labels
        BY <1>3 DEF Taggings
    <2>2. Eos(t[Last]) \in agenda' /\ Extends(t, Eos(t[Last]))
        BY <1>1, <2>1, EosExtends
    <2>3. At(Eos(t[Last]))' = At(Eos(t[Last]))
        BY <1>1 DEF At, Eos, Last
    <2> QED
        BY <1>1, <2>2, <2>3 DEF Pending, Extends, At
<1>6. {y \in [Tokens(lat') -> Labels] : Pending(y)'} = Taggings(lat)
    BY <1>1, <1>5 DEF Taggings
<1>7. result' \in Definition!Cheapest(lat, Taggings(lat))
    BY <1>1, <1>2, <1>4, Mapped
<1> QED
    BY <1>1, <1>2, <1>6, <1>7, Mapped DEF Definition!Parse

\* What next() returns is a cheapest tagging of those to come, and it does not
\* come again.
LEMMA FoundRefines ==
    ASSUME IInv, Exact, NEW top \in Tops, Found(top)
    PROVE  Definition!NextFound
<1>1. /\ pc = "search" /\ pc' = "ready" /\ At(top) = 0
      /\ agenda' = agenda \ {top} /\ found' = TRUE /\ cost' = top.gx
      /\ result' = [x \in Tokens(lat) |-> top.seq[x + 1]]
      /\ UNCHANGED lat
    BY DEF Found
<1> DEFINE r == [x \in Tokens(lat) |-> top.seq[x + 1]]
<1>2. /\ r \in Taggings(lat)
      /\ \A t \in Taggings(lat) : Extends(t, top) <=> t = r
      /\ Definition!CostOf(lat, r) = top.gx
      /\ \A t \in Taggings(lat) : Pending(t) =>
           Definition!CostOf(lat, r) <= Definition!CostOf(lat, t)
    BY <1>1, FoundTagging
<1>3. result' = r
    BY <1>1
<1> HIDE DEF r
<1>4. top \in agenda
    BY DEF Tops
<1>5. r \in Left
    BY <1>2, <1>4 DEF Left, Pending
<1>6. ASSUME NEW t \in Taggings(lat) PROVE Pending(t)' <=> Pending(t) /\ t # r
    <2>1. Pending(t)' <=> \E e \in agenda \ {top} : Extends(t, e)
        BY <1>1 DEF Pending, Extends, At
    <2>2. ASSUME NEW e \in agenda \ {top}, Extends(t, e) PROVE t # r
        BY <1>1, <1>2, <1>4, <2>2 DEF Exact, Exclusive
    <2>3. ASSUME NEW e \in agenda, Extends(t, e), t # r PROVE e \in agenda \ {top}
        BY <1>2, <2>3
    <2> QED
        BY <2>1, <2>2, <2>3 DEF Pending
<1>7. {y \in [Tokens(lat') -> Labels] : Pending(y)'} = Left \ {r}
    BY <1>1, <1>6 DEF Taggings, Left
<1>8. r \in Definition!Cheapest(lat, Left)
    BY <1>2, <1>5, Mapped DEF Left
<1> QED
    BY <1>1, <1>2, <1>3, <1>5, <1>7, <1>8 DEF Definition!NextFound, Left, Taggings

\* An element is replaced by ends of the same taggings.
LEMMA ExpandRefines ==
    ASSUME IInv, Exact, NEW top \in Tops, Expand(top)
    PROVE  UNCHANGED Definition!vars
<1>1. /\ pc = "search" /\ At(top) # 0
      /\ agenda' = (agenda \ {top}) \cup {Extend(top, l) : l \in Labels}
      /\ UNCHANGED <<pc, lat, i, bestCost, prev, result, cost, found>>
    BY DEF Expand
<1>2. top \in agenda /\ At(top) \in Tokens(lat) /\ At(top) - 1 \in Tokens(lat)
    <2>1. top \in agenda /\ At(top) \in Tokens(lat)
        BY <1>1 DEF Tops, IInv, AgendaGood
    <2> QED
        BY <1>1, <2>1, LatticeTypes DEF IInv, Types, Tokens
<1>3. ASSUME NEW t \in Taggings(lat) PROVE Pending(t)' <=> Pending(t)
    <2>1. Pending(t)' <=> \E e \in agenda' : Extends(t, e)
        BY <1>1 DEF Pending, Extends, At
    <2>2. t[At(top) - 1] \in Labels
        BY <1>2 DEF Taggings
    <2>3. \A l \in Labels :
            Extends(t, Extend(top, l)) <=> Extends(t, top) /\ t[At(top) - 1] = l
        BY <1>1, <1>2, ExtendExtends
    <2>4. (\E l \in Labels : Extends(t, Extend(top, l))) <=> Extends(t, top)
        BY <2>2, <2>3
    <2> QED
        BY <1>1, <1>2, <2>1, <2>4 DEF Pending
<1>4. {y \in [Tokens(lat') -> Labels] : Pending(y)'}
        = {y \in [Tokens(lat) -> Labels] : Pending(y)}
    BY <1>1, <1>3 DEF Taggings
<1> QED
    BY <1>1, <1>4 DEF Definition!vars

\* An empty agenda has nothing to come.
LEMMA ExhaustedRefines == Exhausted => Definition!NoneLeft
<1> SUFFICES ASSUME Exhausted PROVE Definition!NoneLeft
    OBVIOUS
<1>1. /\ pc = "search" /\ pc' = "ready" /\ agenda = {} /\ agenda' = {} /\ found' = FALSE
      /\ UNCHANGED <<lat, result, cost>>
    BY DEF Exhausted
<1>2. /\ {y \in [Tokens(lat) -> Labels] : Pending(y)} = {}
      /\ {y \in [Tokens(lat') -> Labels] : Pending(y)'} = {}
    BY <1>1 DEF Pending
<1> QED
    BY <1>1, <1>2 DEF Definition!NoneLeft

LEMMA NewSentenceRefines == NewSentence => Definition!NewSentence
BY DEF NewSentence, Definition!NewSentence, Definition!Begun, Definition!Nothing

\* Nothing is heard of viterbi before it ends, nor of a call of next().
LEMMA QuietRefines ==
    FirstColumn \/ Column \/ Backtrack \/ Call \/ UNCHANGED vars => UNCHANGED Definition!vars
<1>1. FirstColumn \/ Column \/ Backtrack => UNCHANGED Definition!vars
    BY DEF FirstColumn, Column, Backtrack, Definition!vars
<1>2. Call \/ UNCHANGED vars => UNCHANGED Definition!vars
    <2> SUFFICES ASSUME Call \/ UNCHANGED vars PROVE UNCHANGED Definition!vars
        OBVIOUS
    <2>1. /\ UNCHANGED <<lat, agenda, result, cost, found>>
          /\ pc' \in {"viterbi", "parsed"} <=> pc \in {"viterbi", "parsed"}
        BY DEF Call, vars
    <2>2. {y \in [Tokens(lat') -> Labels] : Pending(y)'}
            = {y \in [Tokens(lat) -> Labels] : Pending(y)}
        BY <2>1 DEF Pending, Extends, At
    <2> QED
        BY <2>1, <2>2 DEF Definition!vars
<1> QED
    BY <1>1, <1>2

LEMMA StepRefines == IInv /\ Exact /\ [Next]_vars => [Definition!Next]_(Definition!vars)
<1> SUFFICES ASSUME IInv, Exact, [Next]_vars
             PROVE  Definition!Next \/ UNCHANGED Definition!vars
    OBVIOUS
<1>1. CASE InitNbest
    BY <1>1, ParseRefines DEF Definition!Next
<1>2. CASE FirstColumn \/ Column \/ Backtrack \/ Call \/ UNCHANGED vars
    BY <1>2, QuietRefines
<1>3. ASSUME NEW top \in Tops, Expand(top) PROVE UNCHANGED Definition!vars
    BY <1>3, ExpandRefines
<1>4. ASSUME NEW top \in Tops, Found(top) PROVE Definition!Next
    BY <1>4, FoundRefines DEF Definition!Next
<1>5. CASE Exhausted
    BY <1>5, ExhaustedRefines DEF Definition!Next
<1>6. CASE NewSentence
    BY <1>6, NewSentenceRefines DEF Definition!Next
<1> QED
    BY <1>1, <1>2, <1>3, <1>4, <1>5, <1>6 DEF Next, Decode, Search

(***************************************************************************)
(* parse() and next() implement the definition of the n best taggings, for *)
(* every number of labels and every lattice: parse() finds a tagging of    *)
(* least cost, and the calls of next() return every tagging once, in the   *)
(* order of what they cost, and then none.                                 *)
(***************************************************************************)
THEOREM Enumerates == Spec => EnumeratesBest
<1>1. Init => Definition!Init
    BY DEF Init, Definition!Init, Definition!Begun, Definition!Nothing
<1> QED
    BY InitInvariant, InitExact, StepInvariant, StepExact, StepRefines, <1>1,
       PTL DEF Spec, EnumeratesBest, Definition!Spec

-----------------------------------------------------------------------------
(***************************************************************************)
(* Each cell of the gradient that forwardbackward() and gradient() compute *)
(* for a sentence is the expected number of its feature minus the number   *)
(* in the answer, for every number of labels, every lattice, every answer  *)
(* and whatever positive numbers the exps are.                             *)
(***************************************************************************)
THEOREM GradientIsExact == Spec => []GradientIsExpectation
<1>1. IInv => GradientIsExpectation
    <2> SUFFICES ASSUME IInv PROVE GradientIsExpectation
        OBVIOUS
    <2>1. lat \in Lattices
        BY DEF IInv, Types
    <2>2. \A answer \in Taggings(lat), f \in {0, 1}, y \in Labels :
            UnigramGradient(lat, answer, f, y) = SumFunction(UnigramExcess(lat, answer, f, y))
        BY <2>1, UnigramExact
    <2>3. \A answer \in Taggings(lat), l, r \in Labels :
            BigramGradient(lat, answer, l, r) = SumFunction(BigramExcess(lat, answer, l, r))
        BY <2>1, BigramExact
    <2> QED
        BY <2>2, <2>3 DEF GradientIsExpectation, UnigramExcess, BigramExcess, WeightOf
<1> QED
    BY InitInvariant, StepInvariant, <1>1, PTL DEF Spec

=============================================================================
