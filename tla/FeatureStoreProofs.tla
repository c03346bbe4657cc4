------------------------- MODULE FeatureStoreProofs -------------------------
(***************************************************************************)
(* What a trained model's features are, for every set of templates, number *)
(* of labels, option -f and training data: no two share a weight, -f keeps *)
(* exactly the keys that are often enough, and every sentence finds its    *)
(* own rows, under the numbers the keys have now.                          *)
(*                                                                         *)
(* While features are added the blocks of the dictionary tile 0..maxid-1.  *)
(* While shrink renumbers, that is broken, because old and new numbers mix *)
(* in one map; what holds instead is that the keys the loop has passed     *)
(* tile 0..new_maxid-1 (Passed), and when all are passed this is the       *)
(* dictionary's tiling again.                                              *)
(*                                                                         *)
(* Behind the rows are the keys they were collected from (Recorded) and,   *)
(* while shrink is at work, the dictionary from before it: old2new leads   *)
(* from its numbers to the present ones for every key that is passed       *)
(* (Renaming), and the rows are in the old numbers until the second loop   *)
(* has rewritten them (Held).  No row reaches into another (Memory).       *)
(*                                                                         *)
(* Ids and Renumbered go through a sequence with a fold; what they make of *)
(* one element more (ThroughAppend) follows by induction over the numbers, *)
(* which rests on every set of numbers having a least one.                 *)
(***************************************************************************)
EXTENDS FeatureStore, FiniteSetTheorems, TLAPS

-----------------------------------------------------------------------------
(* Induction over numbers and over sequences. *)

\* Every set of numbers has a least one.
LEMMA LeastNat ==
    ASSUME NEW T \in SUBSET Nat, T # {}
    PROVE \E n \in T : \A m \in T : n <= m
<1> DEFINE B == {0 .. n : n \in T}
<1>1. B \subseteq FiniteSubsetsOf(Nat)
  <2>1. \A n \in T : IsFiniteSet(0 .. n) /\ 0 .. n \in SUBSET Nat
    BY FS_Interval
  <2> QED BY <2>1 DEF FiniteSubsetsOf
<1>2. B # {}
  OBVIOUS
<1>3. IsWellFoundedOn(StrictSubsetOrdering(Nat), FiniteSubsetsOf(Nat))
  BY FS_StrictSubsetOrderingWellFounded
<1> HIDE DEF B
<1>4. PICK b \in B : \A c \in B : ~(<<c, b>> \in StrictSubsetOrdering(Nat))
  BY <1>1, <1>2, <1>3, WFMin, Zenon
<1>5. PICK n \in T : b = 0 .. n
  BY DEF B
<1>6. ASSUME NEW m \in T, m < n PROVE FALSE
  <2>1. 0 .. m \in B
    BY DEF B
  <2>2. 0 .. m \subseteq 0 .. n /\ 0 .. m # 0 .. n
    <3>1. n \in 0 .. n /\ n \notin 0 .. m
      BY <1>6
    <3>2. 0 .. m \subseteq 0 .. n
      BY <1>6
    <3> QED BY <3>1, <3>2
  <2>3. <<0 .. m, 0 .. n>> \in StrictSubsetOrdering(Nat)
    <3>1. 0 .. m \in SUBSET Nat /\ 0 .. n \in SUBSET Nat
      OBVIOUS
    <3> QED BY <2>2, <3>1 DEF StrictSubsetOrdering
  <2> QED BY <1>4, <1>5, <2>1, <2>3
<1> QED BY <1>5, <1>6

\* A set with 0 and every number's successor has them all.
LEMMA NatSetInduction ==
    ASSUME NEW T \in SUBSET Nat, 0 \in T, \A n \in T : n + 1 \in T
    PROVE  T = Nat
<1>1. SUFFICES ASSUME Nat \ T # {} PROVE FALSE
    OBVIOUS
<1>2. PICK n \in Nat \ T : \A m \in Nat \ T : n <= m
    BY <1>1, LeastNat
<1>3. n - 1 \in Nat /\ n - 1 \notin Nat \ T
    BY <1>2
<1> QED
    BY <1>2, <1>3

\* The sequences over S are what appending makes of the empty one.
LEMMA SeqInduction ==
    ASSUME NEW S, NEW T \in SUBSET Seq(S), << >> \in T,
           \A s \in T, x \in S : Append(s, x) \in T
    PROVE  T = Seq(S)
<1> DEFINE N == {n \in Nat : \A s \in Seq(S) : Len(s) = n => s \in T}
<1>1. 0 \in N
    OBVIOUS
<1>2. ASSUME NEW n \in N PROVE n + 1 \in N
    <2> SUFFICES ASSUME NEW s \in Seq(S), Len(s) = n + 1 PROVE s \in T
        OBVIOUS
    <2> DEFINE r == [k \in 1 .. n |-> s[k]]
    <2>1. n \in Nat /\ \A k \in 1 .. n + 1 : s[k] \in S
        OBVIOUS
    <2>2. r \in Seq(S) /\ Len(r) = n
        BY <2>1
    <2>3. s = Append(r, s[n + 1])
        BY <2>1, <2>2
    <2>4. r \in T
        BY <2>2
    <2>5. s[n + 1] \in S
        BY <2>1
    <2> HIDE DEF r, N
    <2> QED
        BY <2>3, <2>4, <2>5
<1>3. N = Nat
    <2> HIDE DEF N
    <2>1. N \in SUBSET Nat
        BY DEF N
    <2> QED
        BY <1>1, <1>2, <2>1, NatSetInduction
<1>4. \A s \in Seq(S) : Len(s) \in N
    <2> HIDE DEF N
    <2> QED
        BY <1>3
<1>5. \A s \in Seq(S) : s \in T
    BY <1>4
<1> QED
    BY <1>5

-----------------------------------------------------------------------------
(* What a map makes of a sequence. *)

LEMMA Greatest ==
    ASSUME NEW n \in Nat, NEW t \in SUBSET (1 .. n), t # {}
    PROVE  /\ Max(t) \in t
           /\ \A k \in t : k <= Max(t)
<1> DEFINE U == {n - k : k \in t}
<1>1. U \in SUBSET Nat /\ U # {}
    <2>1. \A k \in t : k \in 1 .. n /\ n - k \in Nat
        OBVIOUS
    <2> QED
        BY <2>1
<1>2. PICK u \in U : \A v \in U : u <= v
    BY <1>1, LeastNat
<1>3. PICK k \in t : u = n - k
    BY <1>2
<1>4. \A j \in t : k >= j
    <2> SUFFICES ASSUME NEW j \in t PROVE k >= j
        OBVIOUS
    <2>1. n - j \in U /\ j \in 1 .. n /\ k \in 1 .. n
        OBVIOUS
    <2> QED
        BY <1>2, <1>3, <2>1
<1>5. /\ Max(t) \in t /\ \A j \in t : Max(t) >= j
    BY <1>4 DEF Max
<1> QED
    BY <1>5

\* The fold, with its value for every set of positions.
Grow(m, s, it, t) ==
    IF t = {} THEN << >>
    ELSE IF s[Max(t)] \in DOMAIN m
         THEN Append(it[t \ {Max(t)}], m[s[Max(t)]])
         ELSE it[t \ {Max(t)}]

IsFold(m, s, it) == it = [t \in SUBSET (1 .. Len(s)) |-> Grow(m, s, it, t)]

LEMMA FoldExists ==
    ASSUME NEW m, NEW S, NEW s \in Seq(S)
    PROVE  \E it : IsFold(m, s, it)
<1> DEFINE T == {k \in Nat : \E it : it = [t \in SUBSET (1 .. k) |-> Grow(m, s, it, t)]}
<1>1. 0 \in T
    <2> DEFINE it == [t \in SUBSET (1 .. 0) |-> << >>]
    <2>1. \A t \in SUBSET (1 .. 0) : Grow(m, s, it, t) = << >>
        BY DEF Grow
    <2>2. it = [t \in SUBSET (1 .. 0) |-> Grow(m, s, it, t)]
        BY <2>1
    <2> QED
        BY <2>2
<1>2. ASSUME NEW k \in T PROVE k + 1 \in T
    <2>1. PICK it : it = [t \in SUBSET (1 .. k) |-> Grow(m, s, it, t)]
        OBVIOUS
    <2> DEFINE h == [t \in SUBSET (1 .. k + 1) |-> Grow(m, s, it, t)]
    <2>2. ASSUME NEW t \in SUBSET (1 .. k + 1), t # {}
          PROVE  t \ {Max(t)} \in SUBSET (1 .. k)
        <3>1. k \in Nat /\ k + 1 \in Nat
            OBVIOUS
        <3>2. Max(t) \in t /\ \A j \in t : j <= Max(t)
            BY <2>2, <3>1, Greatest
        <3>3. ASSUME NEW j \in t \ {Max(t)} PROVE j \in 1 .. k
            <4>1. j \in 1 .. k + 1 /\ Max(t) \in 1 .. k + 1 /\ j <= Max(t) /\ j # Max(t)
                BY <3>2
            <4> QED
                BY <3>1, <4>1
        <3> QED
            BY <3>3
    <2>3. ASSUME NEW t \in SUBSET (1 .. k) PROVE h[t] = it[t]
        <3>1. t \in SUBSET (1 .. k + 1)
            OBVIOUS
        <3>2. it[t] = Grow(m, s, it, t)
            BY <2>1
        <3> QED
            BY <3>1, <3>2
    <2>4. ASSUME NEW t \in SUBSET (1 .. k + 1) PROVE h[t] = Grow(m, s, h, t)
        <3>1. h[t] = Grow(m, s, it, t)
            OBVIOUS
        <3> HIDE DEF h
        <3> QED
            BY <2>2, <2>3, <3>1 DEF Grow
    <2>5. h = [t \in SUBSET (1 .. k + 1) |-> Grow(m, s, h, t)]
        <3> DEFINE g == [t \in SUBSET (1 .. k + 1) |-> Grow(m, s, h, t)]
        <3>1. \A t \in SUBSET (1 .. k + 1) : h[t] = g[t]
            BY <2>4
        <3> QED
            BY <3>1
    <2> HIDE DEF h
    <2>6. k + 1 \in Nat
        OBVIOUS
    <2> QED
        BY <2>5, <2>6
<1>3. T = Nat
    <2> HIDE DEF T
    <2>1. T \in SUBSET Nat
        BY DEF T
    <2> QED
        BY <1>1, <1>2, <2>1, NatSetInduction
<1>4. Len(s) \in T
    <2>1. Len(s) \in Nat
        OBVIOUS
    <2> HIDE DEF T
    <2> QED
        BY <1>3, <2>1
<1> QED
    BY <1>4 DEF IsFold

LEMMA ThroughFolds ==
    ASSUME NEW m, NEW S, NEW s \in Seq(S)
    PROVE  \E it : IsFold(m, s, it) /\ Through(m, s) = it[1 .. Len(s)]
<1> DEFINE D == DOMAIN s
           it == CHOOSE it : it = [t \in SUBSET D |->
                   IF t = {} THEN << >>
                   ELSE LET x == Max(t)
                        IN  IF s[x] \in DOMAIN m
                            THEN Append(it[t \ {x}], m[s[x]])
                            ELSE it[t \ {x}]]
<1>1. Through(m, s) = it[D]
    BY Zenon DEF Through, FoldLeft, MapThenFoldSet
<1>2. D = 1 .. Len(s)
    OBVIOUS
<1>3. PICK f : IsFold(m, s, f)
    BY FoldExists
<1>4. f = [t \in SUBSET D |->
                   IF t = {} THEN << >>
                   ELSE LET x == Max(t)
                        IN  IF s[x] \in DOMAIN m
                            THEN Append(f[t \ {x}], m[s[x]])
                            ELSE f[t \ {x}]]
    BY <1>2, <1>3, Zenon DEF IsFold, Grow
<1>5. it = [t \in SUBSET D |->
                   IF t = {} THEN << >>
                   ELSE LET x == Max(t)
                        IN  IF s[x] \in DOMAIN m
                            THEN Append(it[t \ {x}], m[s[x]])
                            ELSE it[t \ {x}]]
    BY <1>4, Zenon
<1>6. IsFold(m, s, it)
    BY <1>2, <1>5, Zenon DEF IsFold, Grow
<1> QED
    BY <1>1, <1>2, <1>6

\* One position more takes one step more.
LEMMA FoldSteps ==
    ASSUME NEW m, NEW S, NEW s \in Seq(S), NEW it, IsFold(m, s, it), NEW k \in 0 .. Len(s) - 1
    PROVE  it[1 .. k + 1] = IF s[k + 1] \in DOMAIN m
                            THEN Append(it[1 .. k], m[s[k + 1]])
                            ELSE it[1 .. k]
<1> DEFINE t == 1 .. k + 1
<1>1. Len(s) \in Nat /\ k \in Nat /\ k + 1 \in t
    OBVIOUS
<1>2. t \in SUBSET (1 .. Len(s)) /\ t # {} /\ k + 1 \in Nat
    BY <1>1
<1>3. Max(t) \in t /\ k + 1 <= Max(t)
    BY <1>1, <1>2, Greatest
<1>4. Max(t) = k + 1
    BY <1>1, <1>3
<1>5. t \ {Max(t)} = 1 .. k
    BY <1>1, <1>4
<1>6. it[t] = Grow(m, s, it, t)
    BY <1>2 DEF IsFold
<1> QED
    BY <1>2, <1>4, <1>5, <1>6 DEF Grow

LEMMA ThroughEmpty == \A m : Through(m, << >>) = << >>
<1> SUFFICES ASSUME NEW m PROVE Through(m, << >>) = << >>
    OBVIOUS
<1>1. << >> \in Seq({}) /\ Len(<< >>) = 0
    OBVIOUS
<1>2. PICK it : IsFold(m, << >>, it) /\ Through(m, << >>) = it[1 .. 0]
    BY <1>1, ThroughFolds
<1>3. 1 .. 0 = {} /\ {} \in SUBSET (1 .. Len(<< >>))
    BY <1>1
<1> QED
    BY <1>2, <1>3 DEF IsFold, Grow

\* The loop's step: an element that the map does not know is left out.
LEMMA ThroughAppend ==
    ASSUME NEW m, NEW S, NEW s \in Seq(S), NEW x \in S
    PROVE  Through(m, Append(s, x)) =
             IF x \in DOMAIN m THEN Append(Through(m, s), m[x]) ELSE Through(m, s)
<1> DEFINE r == Append(s, x)
           n == Len(s)
<1>1. /\ r \in Seq(S) /\ n \in Nat /\ Len(r) = n + 1 /\ r[n + 1] = x
      /\ \A k \in 1 .. n : r[k] = s[k]
    OBVIOUS
<1> HIDE DEF r
<1>2. PICK g : IsFold(m, s, g) /\ Through(m, s) = g[1 .. n]
    BY ThroughFolds
<1>3. PICK h : IsFold(m, r, h) /\ Through(m, r) = h[1 .. n + 1]
    BY <1>1, ThroughFolds
<1> DEFINE T == {k \in Nat : k <= n => h[1 .. k] = g[1 .. k]}
<1> HIDE DEF n
<1>4. n = Len(s)
    BY DEF n
<1>5. 0 \in T
    <2>1. 1 .. 0 = {} /\ {} \in SUBSET (1 .. n) /\ {} \in SUBSET (1 .. n + 1)
        OBVIOUS
    <2>2. h[{}] = << >> /\ g[{}] = << >>
        BY <1>1, <1>2, <1>3, <1>4, <2>1 DEF IsFold, Grow
    <2> QED
        BY <2>1, <2>2
<1>6. ASSUME NEW k \in T PROVE k + 1 \in T
    <2> SUFFICES ASSUME k + 1 <= n PROVE h[1 .. k + 1] = g[1 .. k + 1]
        OBVIOUS
    <2>1. k \in Nat /\ h[1 .. k] = g[1 .. k]
        BY <1>1
    <2>2. k \in 0 .. n - 1 /\ k \in 0 .. (n + 1) - 1 /\ r[k + 1] = s[k + 1]
        BY <1>1, <2>1
    <2>3. h[1 .. k + 1] = IF r[k + 1] \in DOMAIN m
                          THEN Append(h[1 .. k], m[r[k + 1]]) ELSE h[1 .. k]
        <3>1. k \in 0 .. Len(r) - 1
            BY <1>1, <2>2
        <3> QED
            BY <1>1, <1>3, <3>1, FoldSteps
    <2>4. g[1 .. k + 1] = IF s[k + 1] \in DOMAIN m
                          THEN Append(g[1 .. k], m[s[k + 1]]) ELSE g[1 .. k]
        <3>1. k \in 0 .. Len(s) - 1
            BY <1>4, <2>2
        <3> QED
            BY <1>2, <3>1, FoldSteps
    <2> HIDE DEF T
    <2> QED
        BY <2>1, <2>2, <2>3, <2>4
<1>7. T = Nat
    <2> HIDE DEF T
    <2>1. T \in SUBSET Nat
        BY DEF T
    <2> QED
        BY <1>5, <1>6, <2>1, NatSetInduction
<1>8. h[1 .. n] = g[1 .. n]
    <2>1. n \in T
        <3> HIDE DEF T
        <3> QED
            BY <1>1, <1>7
    <2> QED
        BY <1>1, <2>1
<1>9. h[1 .. n + 1] = IF r[n + 1] \in DOMAIN m
                      THEN Append(h[1 .. n], m[r[n + 1]]) ELSE h[1 .. n]
    <2>1. n \in 0 .. Len(r) - 1
        BY <1>1
    <2> QED
        BY <1>1, <1>3, <2>1, FoldSteps
<1> QED
    BY <1>1, <1>2, <1>3, <1>8, <1>9 DEF r

\* It makes no more of a sequence than the sequence has.
LEMMA ThroughTypes ==
    ASSUME NEW S, NEW m, \A x \in DOMAIN m : m[x] \in Nat
    PROVE  \A s \in Seq(S) : Through(m, s) \in Seq(Nat) /\ Len(Through(m, s)) <= Len(s)
<1> DEFINE T == {s \in Seq(S) : Through(m, s) \in Seq(Nat) /\ Len(Through(m, s)) <= Len(s)}
<1>1. << >> \in T
    <2>1. << >> \in Seq(S) /\ << >> \in Seq(Nat) /\ Len(<< >>) = 0
        OBVIOUS
    <2>2. Through(m, << >>) = << >>
        BY ThroughEmpty
    <2>3. Through(m, << >>) \in Seq(Nat) /\ Len(Through(m, << >>)) = Len(<< >>)
        BY <2>1, <2>2, Zenon
    <2> QED
        BY <2>1, <2>3
<1>2. ASSUME NEW s \in T, NEW x \in S PROVE Append(s, x) \in T
    <2>1. s \in Seq(S) /\ Through(m, s) \in Seq(Nat) /\ Len(Through(m, s)) <= Len(s)
        OBVIOUS
    <2>2. Append(s, x) \in Seq(S) /\ Len(Append(s, x)) = Len(s) + 1 /\ Len(s) \in Nat
        BY <2>1
    <2>3. CASE x \in DOMAIN m
        <3>1. Through(m, Append(s, x)) = Append(Through(m, s), m[x]) /\ m[x] \in Nat
            BY <2>1, <2>3, ThroughAppend
        <3>2. /\ Append(Through(m, s), m[x]) \in Seq(Nat)
              /\ Len(Append(Through(m, s), m[x])) = Len(Through(m, s)) + 1
            BY <2>1, <3>1
        <3> QED
            BY <2>1, <2>2, <3>1, <3>2
    <2>4. CASE x \notin DOMAIN m
        BY <2>1, <2>2, <2>4, ThroughAppend
    <2> QED
        BY <2>3, <2>4
<1>3. T = Seq(S)
    <2> HIDE DEF T
    <2>1. T \in SUBSET Seq(S)
        BY DEF T
    <2> QED
        BY <1>1, <1>2, <2>1, SeqInduction
<1> QED
    BY <1>3

\* Maps that agree on a sequence's elements make the same of it.
LEMMA ThroughAgree ==
    ASSUME NEW S, NEW m, NEW n
    PROVE  \A s \in Seq(S) :
             (\A j \in 1 .. Len(s) : /\ s[j] \in DOMAIN m <=> s[j] \in DOMAIN n
                                     /\ s[j] \in DOMAIN m => m[s[j]] = n[s[j]])
             => Through(m, s) = Through(n, s)
<1> DEFINE Same(x) == /\ x \in DOMAIN m <=> x \in DOMAIN n
                      /\ x \in DOMAIN m => m[x] = n[x]
           T == {s \in Seq(S) :
                   (\A j \in 1 .. Len(s) : Same(s[j])) => Through(m, s) = Through(n, s)}
<1>1. << >> \in T
    BY ThroughEmpty
<1>2. ASSUME NEW s \in T, NEW x \in S PROVE Append(s, x) \in T
    <2>1. s \in Seq(S) /\ Append(s, x) \in Seq(S)
        OBVIOUS
    <2> DEFINE r == Append(s, x)
    <2>2. /\ Len(s) + 1 \in 1 .. Len(r) /\ r[Len(s) + 1] = x
          /\ \A j \in 1 .. Len(s) : j \in 1 .. Len(r) /\ r[j] = s[j]
        BY <2>1
    <2> HIDE DEF r
    <2>3. ASSUME \A j \in 1 .. Len(r) : Same(r[j]) PROVE Through(m, r) = Through(n, r)
        <3>1. Same(x) /\ \A j \in 1 .. Len(s) : Same(s[j])
            BY <2>2, <2>3
        <3>2. Through(m, s) = Through(n, s)
            BY <3>1
        <3>3. /\ Through(m, r) = IF x \in DOMAIN m THEN Append(Through(m, s), m[x])
                                                   ELSE Through(m, s)
              /\ Through(n, r) = IF x \in DOMAIN n THEN Append(Through(n, s), n[x])
                                                   ELSE Through(n, s)
            BY <2>1, ThroughAppend DEF r
        <3> QED
            BY <3>1, <3>2, <3>3
    <2> QED
        BY <2>1, <2>3 DEF r
<1>3. T = Seq(S)
    <2> HIDE DEF T
    <2>1. T \in SUBSET Seq(S)
        BY DEF T
    <2> QED
        BY <1>1, <1>2, <2>1, SeqInduction
<1> QED
    BY <1>3

\* On S, the map b is m with n after it.
Composes(b, n, m, S) ==
    /\ \A x \in DOMAIN m : m[x] \in Nat
    /\ \A x \in S : x \in DOMAIN b <=> x \in DOMAIN m /\ m[x] \in DOMAIN n
    /\ \A x \in S : x \in DOMAIN b => b[x] = n[m[x]]

\* Two maps one after the other make what one map makes.
LEMMA ThroughTwice ==
    ASSUME NEW S, NEW m, NEW n, NEW b, Composes(b, n, m, S)
    PROVE  \A s \in Seq(S) : Through(n, Through(m, s)) = Through(b, s)
<1> USE DEF Composes
<1> DEFINE T == {s \in Seq(S) : Through(n, Through(m, s)) = Through(b, s)}
<1>1. << >> \in T
    BY ThroughEmpty
<1>2. ASSUME NEW s \in T, NEW x \in S PROVE Append(s, x) \in T
    <2> DEFINE q == Through(m, s)
    <2>1. s \in Seq(S) /\ Append(s, x) \in Seq(S) /\ Through(n, q) = Through(b, s)
        OBVIOUS
    <2>2. q \in Seq(Nat)
        BY <2>1, ThroughTypes
    <2>3. /\ Through(m, Append(s, x)) = IF x \in DOMAIN m THEN Append(q, m[x]) ELSE q
          /\ Through(b, Append(s, x)) = IF x \in DOMAIN b THEN Append(Through(b, s), b[x])
                                                          ELSE Through(b, s)
        BY <2>1, ThroughAppend
    <2> HIDE DEF q
    <2>4. CASE x \notin DOMAIN m
        BY <2>1, <2>3, <2>4
    <2>5. CASE x \in DOMAIN m
        <3>1. m[x] \in Nat /\ Through(m, Append(s, x)) = Append(q, m[x])
            BY <2>3, <2>5
        <3>2. Through(n, Append(q, m[x])) =
                IF m[x] \in DOMAIN n THEN Append(Through(n, q), n[m[x]]) ELSE Through(n, q)
            <4>1. ASSUME NEW p \in Seq(Nat), NEW y \in Nat
                  PROVE  Through(n, Append(p, y)) =
                           IF y \in DOMAIN n THEN Append(Through(n, p), n[y]) ELSE Through(n, p)
                BY ThroughAppend
            <4> QED
                BY <2>2, <3>1, <4>1
        <3> QED
            BY <2>1, <2>3, <2>5, <3>1, <3>2
    <2> QED
        BY <2>4, <2>5
<1>3. T = Seq(S)
    <2> HIDE DEF T
    <2>1. T \in SUBSET Seq(S)
        BY DEF T
    <2> QED
        BY <1>1, <1>2, <2>1, SeqInduction
<1> QED
    BY <1>3

-----------------------------------------------------------------------------
(* The blocks of weight indices. *)

USE KeysAssumption, NumbersAssumption

\* Under the ids d, the blocks of the keys in S that have one tile 0 .. m-1.
Tiled(d, S, m) ==
    /\ \A f \in 0 .. m - 1 : \E x \in S :
         d[x] # NoId /\ d[x] <= f /\ f < d[x] + Width(x)
    /\ \A x, y \in S :
         x # y /\ d[x] # NoId /\ d[y] # NoId =>
           d[x] + Width(x) <= d[y] \/ d[y] + Width(y) <= d[x]
    /\ \A x \in S : d[x] # NoId => d[x] + Width(x) <= m

Dictionaries == [Keys -> {NoId} \cup Nat]

\* The keys shrink's loop has passed.
Passed == {KeyOrder[p] : p \in 1 .. pos - 1}

IdTypes ==
    /\ id \in Dictionaries
    /\ maxid \in Nat
    /\ new_maxid \in Nat
    /\ pos \in Nat \ {0}
    /\ pc \in {"read", "build", "failed", "renumber", "rows", "ready"}
    /\ pc \in {"read", "build"} => pos = 1 /\ new_maxid = 0

IInv ==
    /\ IdTypes
    /\ pc \in {"read", "build", "failed", "ready"} => Tiled(id, Keys, maxid)
    /\ pc = "renumber" => pos <= Len(KeyOrder) + 1 /\ Tiled(id, Passed, new_maxid)
    /\ pc = "rows" => Tiled(id, Keys, new_maxid)

\* Every key owns at least one index.
LEMMA WidthPositive == \A x \in Keys : Width(x) \in Nat \ {0}
<1>1. L * L \in Nat \ {0}
    OBVIOUS
<1> QED
    BY <1>1 DEF Width

\* NoId is no number.
LEMMA NoIdNegative == NoId \in Int /\ NoId < 0
BY DEF NoId

\* A key that gets the next block extends the tiling by it.
LEMMA TiledExtends ==
    ASSUME NEW d \in Dictionaries, NEW S \in SUBSET Keys, NEW x \in Keys, NEW m \in Nat,
           Tiled(d, S, m), x \notin S \/ d[x] = NoId
    PROVE  Tiled([d EXCEPT ![x] = m], S \cup {x}, m + Width(x))
<1> DEFINE e == [d EXCEPT ![x] = m]
<1>1. e[x] = m /\ \A y \in Keys : y # x => e[y] = d[y]
    BY DEF Dictionaries
<1>2. Width(x) \in Nat \ {0}
    BY WidthPositive
<1>3. \A y \in S : y # x /\ d[y] # NoId =>
        d[y] \in Nat /\ Width(y) \in Nat /\ d[y] + Width(y) <= m
    BY WidthPositive DEF Tiled, Dictionaries
<1> HIDE DEF e
<1>4. ASSUME NEW f \in 0 .. (m + Width(x)) - 1
      PROVE  \E y \in S \cup {x} : e[y] # NoId /\ e[y] <= f /\ f < e[y] + Width(y)
    <2>1. CASE f < m
        <3>1. PICK y \in S : d[y] # NoId /\ d[y] <= f /\ f < d[y] + Width(y)
            BY <1>2, <2>1 DEF Tiled
        <3>2. y # x
            BY <2>1, <3>1
        <3> QED
            BY <1>1, <3>1, <3>2
    <2>2. CASE f >= m
        <3>1. e[x] # NoId /\ e[x] <= f /\ f < e[x] + Width(x)
            BY <1>1, <1>2, <2>2, NoIdNegative, SMTT(30)
        <3>2. x \in S \cup {x}
            OBVIOUS
        <3> QED
            BY <3>1, <3>2
    <2> QED
        BY <1>2, <2>1, <2>2
<1>5. ASSUME NEW y \in S \cup {x}, NEW z \in S \cup {x},
             y # z, e[y] # NoId, e[z] # NoId
      PROVE  e[y] + Width(y) <= e[z] \/ e[z] + Width(z) <= e[y]
    <2>1. CASE y # x /\ z # x
        BY <1>1, <1>5, <2>1 DEF Tiled
    <2>2. CASE y = x
        BY <1>1, <1>3, <1>5, <2>2
    <2>3. CASE z = x
        BY <1>1, <1>3, <1>5, <2>3
    <2> QED
        BY <2>1, <2>2, <2>3
<1> HIDE KeysAssumption, NumbersAssumption
<1>6. ASSUME NEW y \in S \cup {x}, e[y] # NoId
      PROVE  e[y] + Width(y) <= m + Width(x)
    <2>1. CASE y = x
        BY <1>1, <1>2, <2>1
    <2>2. CASE y # x
        <3>1. e[y] \in Nat /\ e[y] + Width(y) <= m /\ Width(y) \in Nat
            BY <1>1, <1>3, <1>6, <2>2
        <3> QED
            BY <1>2, <3>1
    <2> QED
        BY <2>1, <2>2
<1>7. Tiled(e, S \cup {x}, m + Width(x))
    <2>1. \A f \in 0 .. (m + Width(x)) - 1 : \E y \in S \cup {x} :
            e[y] # NoId /\ e[y] <= f /\ f < e[y] + Width(y)
        BY <1>4, Zenon
    <2>2. \A y, z \in S \cup {x} : y # z /\ e[y] # NoId /\ e[z] # NoId =>
            e[y] + Width(y) <= e[z] \/ e[z] + Width(z) <= e[y]
        BY <1>5
    <2>3. \A y \in S \cup {x} : e[y] # NoId => e[y] + Width(y) <= m + Width(x)
        BY <1>6
    <2> QED
        BY <2>1, <2>2, <2>3, Zenon DEF Tiled
<1> QED
    BY <1>7 DEF e

\* A key that is dropped extends a tiling by nothing.
LEMMA TiledDrops ==
    ASSUME NEW d \in Dictionaries, NEW S \in SUBSET Keys, NEW x \in Keys, NEW m \in Nat,
           Tiled(d, S, m), x \notin S
    PROVE  Tiled([d EXCEPT ![x] = NoId], S \cup {x}, m)
<1> DEFINE e == [d EXCEPT ![x] = NoId]
<1>1. e[x] = NoId /\ \A y \in S : e[y] = d[y]
    BY DEF Dictionaries
<1> HIDE DEF e
<1>2. \A f \in 0 .. m - 1 : \E y \in S : e[y] # NoId /\ e[y] <= f /\ f < e[y] + Width(y)
    BY <1>1 DEF Tiled
<1>3. \A y, z \in S : y # z /\ e[y] # NoId /\ e[z] # NoId =>
        e[y] + Width(y) <= e[z] \/ e[z] + Width(z) <= e[y]
    BY <1>1 DEF Tiled
<1>4. \A y \in S : e[y] # NoId => e[y] + Width(y) <= m
    BY <1>1 DEF Tiled
<1>5. Tiled(e, S \cup {x}, m)
    BY <1>1, <1>2, <1>3, <1>4 DEF Tiled
<1> QED
    BY <1>5 DEF e

\* A fresh dictionary has no key and no index.
LEMMA InitInvariant == Init => IInv
BY DEF Init, IInv, IdTypes, Dictionaries, Tiled

\* getID extends the tiling by the new key's block, or leaves it.
LEMMA GetIDStep == ASSUME IInv, NEW x \in Keys, GetID(x) PROVE IInv'
<1>1. pc = "build" /\ pc' = "build" /\ Tiled(id, Keys, maxid) /\ UNCHANGED shrinkVars
    BY DEF GetID, IInv
<1>2. CASE id[x] = NoId
    <2>1. id' = [id EXCEPT ![x] = maxid] /\ maxid' = maxid + Width(x)
        BY <1>2 DEF GetID, LookUp
    <2>2. IdTypes'
        <3>1. id' \in Dictionaries
            BY <2>1 DEF IInv, IdTypes, Dictionaries
        <3>2. maxid' \in Nat
            <4>1. maxid \in Nat /\ Width(x) \in Nat
                BY WidthPositive DEF IInv, IdTypes
            <4> QED
                BY <2>1, <4>1
        <3> QED
            BY <1>1, <3>1, <3>2 DEF IInv, IdTypes, shrinkVars
    <2>3. Tiled(id', Keys \cup {x}, maxid')
        BY <1>1, <1>2, <2>1, TiledExtends DEF IInv, IdTypes
    <2>4. Keys \cup {x} = Keys
        OBVIOUS
    <2>5. Tiled(id', Keys, maxid')
        BY <2>3, <2>4
    <2> QED
        BY <1>1, <2>2, <2>5 DEF IInv
<1>3. CASE id[x] # NoId
    <2>1. id' = id /\ maxid' = maxid
        BY <1>3 DEF GetID, LookUp
    <2> QED
        BY <1>1, <2>1 DEF IInv, IdTypes, Dictionaries, shrinkVars
<1> QED
    BY <1>2, <1>3

\* The loop's next key, and what it has passed then.
LEMMA PassOne ==
    ASSUME IInv, pc = "renumber", pos <= Len(KeyOrder), pos' = pos + 1
    PROVE  /\ KeyOrder[pos] \in Keys
           /\ KeyOrder[pos] \notin Passed
           /\ Passed' = Passed \cup {KeyOrder[pos]}
           /\ Passed \in SUBSET Keys
<1>1. pos \in 1 .. Len(KeyOrder) /\ Len(KeyOrder) \in Nat
    BY DEF IInv, IdTypes
<1>2. \A p \in 1 .. Len(KeyOrder) : KeyOrder[p] \in Keys
    OBVIOUS
<1>3. 1 .. pos' - 1 = (1 .. pos - 1) \cup {pos}
    BY <1>1
<1>4. Passed' = {KeyOrder[p] : p \in 1 .. pos' - 1}
    BY DEF Passed
<1>5. Passed' = Passed \cup {KeyOrder[pos]}
    <2>1. \A y : y \in Passed' <=> \E p \in (1 .. pos - 1) \cup {pos} : y = KeyOrder[p]
        BY <1>3, <1>4
    <2>2. \A y : y \in Passed <=> \E p \in 1 .. pos - 1 : y = KeyOrder[p]
        BY DEF Passed
    <2> QED
        BY <2>1, <2>2
<1>6. \A p \in 1 .. pos - 1 : p \in 1 .. Len(KeyOrder) /\ p # pos
    BY <1>1
<1>7. KeyOrder[pos] \notin Passed
    BY <1>1, <1>6 DEF Passed
<1>8. Passed \in SUBSET Keys
    BY <1>2, <1>6 DEF Passed
<1> QED
    BY <1>1, <1>2, <1>5, <1>7, <1>8

\* A dropped key owns nothing.
LEMMA EraseStep == IInv /\ Erase => IInv'
<1> SUFFICES ASSUME IInv, Erase PROVE IInv'
    OBVIOUS
<1> DEFINE x == KeyOrder[pos]
<1>1. /\ pc = "renumber" /\ pc' = pc /\ pos' = pos + 1 /\ pos <= Len(KeyOrder)
      /\ id' = [id EXCEPT ![x] = NoId] /\ new_maxid' = new_maxid /\ maxid' = maxid
    BY DEF Erase
<1>2. x \in Keys /\ x \notin Passed /\ Passed' = Passed \cup {x} /\ Passed \in SUBSET Keys
    BY <1>1, PassOne
<1> HIDE DEF x
<1>3. IdTypes'
    <2>1. id' \in Dictionaries
        BY <1>1, <1>2 DEF IInv, IdTypes, Dictionaries
    <2>2. maxid' \in Nat /\ new_maxid' \in Nat /\ pos' \in Nat \ {0}
        BY <1>1 DEF IInv, IdTypes
    <2> QED
        BY <1>1, <2>1, <2>2 DEF IdTypes
<1>4. Tiled(id', Passed', new_maxid')
    BY <1>1, <1>2, TiledDrops DEF IInv, IdTypes
<1> QED
    BY <1>1, <1>3, <1>4, KeysAssumption DEF IInv, IdTypes

\* A kept key gets the next block of the new tiling.
LEMMA KeepStep == IInv /\ Keep => IInv'
<1> SUFFICES ASSUME IInv, Keep PROVE IInv'
    OBVIOUS
<1> DEFINE x == KeyOrder[pos]
<1>1. /\ pc = "renumber" /\ pc' = pc /\ pos' = pos + 1 /\ pos <= Len(KeyOrder)
      /\ id' = [id EXCEPT ![x] = new_maxid]
      /\ new_maxid' = new_maxid + Width(x)
      /\ maxid' = maxid
    BY DEF Keep
<1>2. x \in Keys /\ x \notin Passed /\ Passed' = Passed \cup {x} /\ Passed \in SUBSET Keys
    BY <1>1, PassOne
<1> HIDE DEF x
<1>3. IdTypes'
    <2>1. id' \in Dictionaries
        BY <1>1, <1>2 DEF IInv, IdTypes, Dictionaries
    <2>2. maxid' \in Nat /\ new_maxid' \in Nat /\ pos' \in Nat \ {0}
        <3>1. Width(x) \in Nat
            BY <1>2, WidthPositive
        <3>2. maxid \in Nat /\ new_maxid \in Nat /\ pos \in Nat \ {0}
            BY DEF IInv, IdTypes
        <3> QED
            BY <1>1, <3>1, <3>2
    <2> QED
        BY <1>1, <2>1, <2>2 DEF IdTypes
<1>4. Tiled(id', Passed', new_maxid')
    BY <1>1, <1>2, TiledExtends DEF IInv, IdTypes
<1> QED
    BY <1>1, <1>3, <1>4 DEF IInv, IdTypes

\* The loop ends when it has passed every key.
LEMMA BeginRowsStep == IInv /\ BeginRows => IInv'
<1> SUFFICES ASSUME IInv, BeginRows PROVE IInv'
    OBVIOUS
<1>1. pos = Len(KeyOrder) + 1
    BY DEF IInv, IdTypes, BeginRows
<1>2. Passed = Keys
    BY <1>1 DEF Passed
<1>3. Tiled(id, Keys, new_maxid)
    BY <1>2 DEF IInv, BeginRows
<1> QED
    BY <1>3 DEF BeginRows, IInv, IdTypes, dicVars

LEMMA StepInvariant == IInv /\ [Next]_vars => IInv'
<1> SUFFICES ASSUME IInv, [Next]_vars PROVE IInv'
    OBVIOUS
<1>1. ASSUME NEW x \in Keys, GetID(x) PROVE IInv'
    BY <1>1, GetIDStep
<1>2. CASE Erase
    BY <1>2, EraseStep
<1>3. CASE Keep
    BY <1>3, KeepStep
<1>4. CASE BeginRows
    BY <1>4, BeginRowsStep
<1>5. CASE (\E n \in 1 .. MaxLen : Begin(n)) \/ ApplyRuleFails \/ AddRow
    BY <1>5 DEF Begin, ApplyRuleFails, AddRow, IInv, IdTypes, dicVars,
                shrinkVars
<1>6. CASE BeginShrink
    <2>1. Passed = {}
        BY <1>6 DEF BeginShrink, IInv, IdTypes, Passed
    <2>2. Tiled(id, {}, 0)
        BY DEF Tiled
    <2>3. /\ pc = "read" /\ pos = 1 /\ new_maxid = 0 /\ pc' \in {"ready", "renumber"}
          /\ UNCHANGED <<dicVars, shrinkVars>>
        BY <1>6 DEF BeginShrink, IInv, IdTypes
    <2>4. Passed' = {} /\ id' = id /\ new_maxid' = 0 /\ pos' = 1 /\ maxid' = maxid
        BY <2>1, <2>3 DEF Passed, dicVars, shrinkVars
    <2>5. Tiled(id', Passed', new_maxid')
        BY <2>2, <2>4
    <2> QED
        BY <2>3, <2>4, <2>5 DEF IInv, IdTypes, dicVars, shrinkVars
<1>7. CASE ShrinkRow
    BY <1>7 DEF ShrinkRow, IInv, IdTypes, dicVars
<1>8. CASE EndShrink
    BY <1>8 DEF EndShrink, IInv, IdTypes, shrinkVars
<1>9. CASE UNCHANGED vars
    BY <1>9 DEF vars, IInv, IdTypes, Passed, dicVars, shrinkVars
<1> QED
    BY <1>1, <1>2, <1>3, <1>4, <1>5, <1>6, <1>7, <1>8, <1>9 DEF Next

(***************************************************************************)
(* Every weight index belongs to exactly one feature, before and after -f  *)
(* has dropped the rare ones: for every set of templates and training data.*)
(***************************************************************************)
THEOREM NoSharedWeight == Spec => []IdsTile
<1>1. IInv => IdsTile
    BY DEF IInv, IdTypes, IdsTile, Tiled, Owns
<1> QED
    BY InitInvariant, StepInvariant, <1>1, PTL DEF Spec

-----------------------------------------------------------------------------
(* The rows in their memory. *)

HIDE KeysAssumption
HIDE NumbersAssumption

\* Block b of memory c starts with the numbers f and their sentinel.
Holds(c, b, f) ==
    /\ f \in Seq(Nat)
    /\ RowLength(f) <= b.len
    /\ \A j \in 1 .. Len(f) : c[<<b.chunk, b.off + j - 1>>] = f[j]
    /\ c[<<b.chunk, b.off + Len(f)>>] = Sentinel

Inside(b) == b.chunk < MaxChunks /\ b.off + b.len < ChunkSize

\* Every row is in a chunk, behind the cursor, and apart from the others.
Memory ==
    /\ rows \in Seq(List!Block)
    /\ DOMAIN cells = Addresses
    /\ nchunks \in 0 .. MaxChunks /\ li \in Nat /\ pi \in Nat
    /\ (nchunks = 0 /\ li = 0 /\ pi = 0) \/ (li < nchunks /\ pi < ChunkSize)
    /\ \A p \in 1 .. Len(rows) :
         /\ Inside(rows[p])
         /\ \/ rows[p].chunk < li
            \/ rows[p].chunk = li /\ rows[p].off + rows[p].len <= pi
    /\ \A p, q \in 1 .. Len(rows) : p # q => List!Disjoint(rows[p], rows[q])

LEMMA BlockTypes ==
    ASSUME NEW b \in List!Block
    PROVE  /\ b.chunk \in Nat /\ b.off \in Nat
           /\ b.len \in Nat /\ 1 <= b.len /\ b.len < ChunkSize
BY ChunkAssumption DEF List!Block

\* A block's cells are cells of the memory.
LEMMA Cell ==
    ASSUME NEW b \in List!Block, Inside(b), NEW o \in b.off .. b.off + b.len - 1
    PROVE  <<b.chunk, o>> \in Addresses /\ o \in Nat /\ o < ChunkSize
<1>1. b.chunk \in Nat /\ b.off \in Nat /\ b.len \in Nat
    BY BlockTypes
<1>2. /\ b.chunk \in 0 .. MaxChunks - 1 /\ o \in 0 .. ChunkSize - 1
    BY <1>1, ChunkAssumption DEF Inside
<1> QED
    BY <1>2, ChunkAssumption DEF Addresses

\* Row reads what a block holds.
LEMMA RowReads ==
    ASSUME NEW b \in List!Block, Inside(b), NEW f, Holds(cells, b, f)
    PROVE  Row(b) = f
<1> DEFINE ends == {e \in b.off .. ChunkSize - 1 : cells[<<b.chunk, e>>] = Sentinel}
           end == CHOOSE e \in ends : \A d \in ends : e <= d
           last == b.off + Len(f)
<1>1. /\ b.off \in Nat /\ Len(f) \in Nat /\ b.len \in Nat /\ ChunkSize \in Nat
      /\ Len(f) + 1 <= b.len /\ b.off + b.len < ChunkSize
    BY BlockTypes, ChunkAssumption DEF Inside, Holds, RowLength
<1>2. last \in ends /\ last \in Nat
    <2>1. last \in b.off .. ChunkSize - 1 /\ last \in Nat
        BY <1>1
    <2>2. cells[<<b.chunk, last>>] = Sentinel
        BY DEF Holds
    <2> QED
        BY <2>1, <2>2
<1>3. ASSUME NEW e \in ends PROVE last <= e
    <2> SUFFICES ASSUME e < last PROVE FALSE
        BY <1>1
    <2>1. e \in Nat /\ b.off <= e /\ cells[<<b.chunk, e>>] = Sentinel
        BY <1>1
    <2>2. (e - b.off) + 1 \in 1 .. Len(f) /\ b.off + ((e - b.off) + 1) - 1 = e
        BY <1>1, <2>1
    <2>3. cells[<<b.chunk, e>>] = f[(e - b.off) + 1]
        BY <2>2 DEF Holds
    <2>4. f[(e - b.off) + 1] \in Nat
        BY <2>2 DEF Holds
    <2> QED
        BY <2>1, <2>3, <2>4 DEF Sentinel
<1>4. end = last
    <2>1. end \in ends /\ \A d \in ends : end <= d
        BY <1>2, <1>3
    <2>2. end \in Int
        <3>1. \A e \in ends : e \in Int
            OBVIOUS
        <3> HIDE DEF ends, end
        <3> QED
            BY <2>1, <3>1
    <2> HIDE DEF ends, end, last
    <2>3. end <= last /\ last <= end
        BY <1>2, <1>3, <2>1
    <2> QED
        BY <1>2, <2>2, <2>3
<1>5. Row(b) = [j \in 1 .. end - b.off |-> cells[<<b.chunk, b.off + j - 1>>]]
    BY <1>2 DEF Row
<1>6. end - b.off = Len(f)
    <2>1. last - b.off = Len(f)
        BY <1>1
    <2> HIDE DEF end
    <2> QED
        BY <1>4, <2>1
<1>7. Row(b) = [j \in 1 .. Len(f) |-> f[j]]
    BY <1>5, <1>6 DEF Holds
<1> QED
    BY <1>7 DEF Holds

\* What is written at a block is held there.
LEMMA WrittenHolds ==
    ASSUME NEW b \in List!Block, Inside(b), NEW f \in Seq(Nat), RowLength(f) <= b.len
    PROVE  Holds(Written(b, f), b, f)
<1>1. /\ b.off \in Nat /\ Len(f) \in Nat /\ b.len \in Nat
      /\ Len(f) + 1 <= b.len
    BY BlockTypes DEF RowLength
<1>2. ASSUME NEW o \in b.off .. b.off + Len(f)
      PROVE  Written(b, f)[<<b.chunk, o>>]
               = IF o = b.off + Len(f) THEN Sentinel ELSE f[o - b.off + 1]
    <2>1. o \in b.off .. b.off + b.len - 1
        BY <1>1
    <2>2. <<b.chunk, o>> \in Addresses
        BY <2>1, Cell
    <2> QED
        BY <2>2 DEF Written
<1>3. ASSUME NEW j \in 1 .. Len(f)
      PROVE  Written(b, f)[<<b.chunk, b.off + j - 1>>] = f[j]
    <2>1. /\ b.off + j - 1 \in b.off .. b.off + Len(f)
          /\ b.off + j - 1 # b.off + Len(f) /\ (b.off + j - 1) - b.off + 1 = j
        BY <1>1, SMTT(30)
    <2> QED
        BY <1>2, <2>1
<1>4. Written(b, f)[<<b.chunk, b.off + Len(f)>>] = Sentinel
    <2>1. b.off + Len(f) \in b.off .. b.off + Len(f)
        BY <1>1
    <2> QED
        BY <1>2, <2>1
<1> QED
    BY <1>3, <1>4 DEF Holds

\* And what another block holds stays.
LEMMA WrittenElsewhere ==
    ASSUME NEW b \in List!Block, NEW f \in Seq(Nat), RowLength(f) <= b.len,
           NEW a \in List!Block, Inside(a), NEW g, Holds(cells, a, g), List!Disjoint(a, b)
    PROVE  Holds(Written(b, f), a, g)
<1>1. /\ b.off \in Nat /\ Len(f) \in Nat /\ b.len \in Nat /\ Len(f) + 1 <= b.len
      /\ a.off \in Nat /\ Len(g) \in Nat /\ a.len \in Nat /\ Len(g) + 1 <= a.len
    BY BlockTypes DEF RowLength, Holds
<1>2. ASSUME NEW o \in a.off .. a.off + Len(g)
      PROVE  Written(b, f)[<<a.chunk, o>>] = cells[<<a.chunk, o>>]
    <2>1. o \in a.off .. a.off + a.len - 1
        BY <1>1
    <2>2. <<a.chunk, o>> \in Addresses
        BY <2>1, Cell
    <2>3. ~(a.chunk = b.chunk /\ o \in b.off .. b.off + Len(f))
        <3>1. a.chunk # b.chunk \/ a.off + a.len <= b.off \/ b.off + b.len <= a.off
            BY DEF List!Disjoint
        <3>2. o \in Int /\ a.off <= o /\ o <= a.off + a.len - 1
            BY <1>1, <2>1
        <3> SUFFICES ASSUME a.chunk = b.chunk, o \in b.off .. b.off + Len(f) PROVE FALSE
            OBVIOUS
        <3>3. b.off <= o /\ o <= b.off + b.len - 1
            BY <1>1, <3>2, SMTT(30)
        <3>4. CASE a.off + a.len <= b.off
            BY <1>1, <3>2, <3>3, <3>4, SMTT(30)
        <3>5. CASE b.off + b.len <= a.off
            BY <1>1, <3>2, <3>3, <3>5, SMTT(30)
        <3> QED
            BY <3>1, <3>4, <3>5
    <2> QED
        BY <2>2, <2>3 DEF Written
<1>3. \A j \in 1 .. Len(g) : a.off + j - 1 \in a.off .. a.off + Len(g)
    BY <1>1
<1>4. a.off + Len(g) \in a.off .. a.off + Len(g)
    BY <1>1
<1> QED
    BY <1>2, <1>3, <1>4 DEF Holds

\* alloc places a row inside a chunk, behind which all the rows lie.
LEMMA AllocApart ==
    ASSUME Memory, NEW n \in 1 .. ChunkSize - 1, List!BlockAt(n).chunk < MaxChunks
    PROVE  LET b == List!BlockAt(n) IN
           /\ b \in List!Block /\ b.len = n /\ Inside(b)
           /\ b.chunk <= nchunks
           /\ (b.chunk = li /\ b.off = pi) \/ (b.chunk = li + 1 /\ b.off = 0)
           /\ \A p \in 1 .. Len(rows) : List!Disjoint(rows[p], b)
<1> DEFINE b == List!BlockAt(n)
<1>1. /\ li \in Nat /\ pi \in Nat /\ nchunks \in Nat /\ n \in Nat /\ ChunkSize \in Nat
      /\ 1 <= n /\ n < ChunkSize
    BY ChunkAssumption DEF Memory
<1>2. \A p \in 1 .. Len(rows) :
        rows[p].chunk \in Nat /\ rows[p].off \in Nat /\ rows[p].len \in Nat
    BY BlockTypes DEF Memory
<1>3. \/ b = [chunk |-> li + 1, off |-> 0, len |-> n] /\ pi + n >= ChunkSize
      \/ b = [chunk |-> li, off |-> pi, len |-> n] /\ ~(pi + n >= ChunkSize)
    BY DEF List!BlockAt
<1>4. /\ b.chunk \in Nat /\ b.off \in Nat /\ b.len = n
      /\ (b.chunk = li /\ b.off = pi) \/ (b.chunk = li + 1 /\ b.off = 0)
      /\ b.off + n < ChunkSize
      /\ b = [chunk |-> b.chunk, off |-> b.off, len |-> n]
    BY <1>1, <1>3
<1>5. b.chunk <= nchunks
    BY <1>1, <1>3 DEF Memory
<1> HIDE DEF b
<1>6. b \in List!Block
    BY <1>4 DEF List!Block
<1>7. ASSUME NEW p \in 1 .. Len(rows) PROVE List!Disjoint(rows[p], b)
    <2>1. \/ rows[p].chunk < li
          \/ rows[p].chunk = li /\ rows[p].off + rows[p].len <= pi
        BY DEF Memory
    <2> QED
        BY <1>1, <1>2, <1>4, <2>1 DEF List!Disjoint
<1>8. Inside(b)
    BY <1>4 DEF Inside, b
<1> QED
    BY <1>4, <1>5, <1>6, <1>7, <1>8 DEF b

-----------------------------------------------------------------------------
(* The sentences, and the row that is being collected. *)

Sentence == [fid : Nat, len : 1 .. MaxLen, keys : Seq(Seq(Keys))]

\* The counters' record.
Cursor == [len : 0 .. MaxLen, row : Nat, tmpl : Nat]

\* The sentence buildFeatures is at.
Current == sents[Len(sents)]

\* Its rows up to the current one are filled, and as far as the template.
Collecting ==
    /\ Len(sents) # 0
    /\ cur.len = Current.len
    /\ cur.row \in 0 .. 2 * cur.len - 2
    /\ cur.tmpl \in 1 .. Len(Templates) + 1
    /\ Len(feature) = cur.tmpl - 1
    /\ Len(Current.keys[cur.row + 1]) = cur.tmpl - 1
    /\ \A r \in cur.row + 2 .. 2 * cur.len - 1 : Current.keys[r] = << >>

Sentences ==
    /\ sents \in Seq(Sentence)
    /\ \A s \in 1 .. Len(sents) : Len(sents[s].keys) = 2 * sents[s].len - 1

Shape ==
    /\ Sentences
    /\ count \in [Keys -> Nat]
    /\ cur \in Cursor
    /\ feature \in Seq(Nat)
    /\ \A o \in DOMAIN old2new : o \in Nat /\ old2new[o] \in Nat
    /\ pc \in {"read", "build"} => DOMAIN old2new = {}
    /\ pc = "read" => feature = << >>
    /\ pc = "build" => Collecting

\* What a sentence's rows are.
LEMMA SentenceTypes ==
    ASSUME Sentences, NEW s \in 1 .. Len(sents)
    PROVE  /\ sents[s].fid \in Nat /\ sents[s].len \in 1 .. MaxLen
           /\ sents[s].keys \in Seq(Seq(Keys))
           /\ Len(sents[s].keys) = 2 * sents[s].len - 1
           /\ Len(sents[s].keys) \in 1 .. 2 * MaxLen - 1
           /\ \A r \in 1 .. Len(sents[s].keys) : sents[s].keys[r] \in Seq(Keys)
<1>1. sents[s] \in Sentence /\ Len(sents[s].keys) = 2 * sents[s].len - 1
    BY DEF Sentences
<1>2. sents[s].len \in 1 .. MaxLen /\ MaxLen \in Nat
    BY <1>1, NumbersAssumption DEF Sentence
<1>3. Len(sents[s].keys) \in 1 .. 2 * MaxLen - 1
    BY <1>1, <1>2
<1> QED
    BY <1>1, <1>3 DEF Sentence

LEMMA CursorTypes ==
    \A c \in Cursor : /\ c.len \in 0 .. MaxLen /\ c.len \in Nat
                       /\ c.row \in Nat /\ c.tmpl \in Nat
<1> SUFFICES ASSUME NEW c \in Cursor
             PROVE  /\ c.len \in 0 .. MaxLen /\ c.len \in Nat
                    /\ c.row \in Nat /\ c.tmpl \in Nat
    OBVIOUS
<1>1. c.len \in 0 .. MaxLen /\ c.row \in Nat /\ c.tmpl \in Nat
    BY DEF Cursor
<1> QED
    BY <1>1, NumbersAssumption

\* What moves on the counters.
LEMMA CursorMoves ==
    ASSUME cur \in Cursor
    PROVE  /\ LET c == [cur EXCEPT !.tmpl = @ + 1] IN
              c \in Cursor /\ c.len = cur.len /\ c.row = cur.row /\ c.tmpl = cur.tmpl + 1
           /\ LET c == [cur EXCEPT !.row = @ + 1, !.tmpl = 1] IN
              c \in Cursor /\ c.len = cur.len /\ c.row = cur.row + 1 /\ c.tmpl = 1
           /\ Idle \in Cursor
<1>1. cur.row + 1 \in Nat /\ cur.tmpl + 1 \in Nat
    BY CursorTypes
<1>2. [cur EXCEPT !.tmpl = @ + 1] \in Cursor
    BY <1>1 DEF Cursor
<1>3. [cur EXCEPT !.row = @ + 1, !.tmpl = 1] \in Cursor
    BY <1>1 DEF Cursor
<1>4. Idle \in Cursor
    BY NumbersAssumption DEF Cursor, Idle
<1> QED
    BY <1>2, <1>3, <1>4 DEF Cursor

LEMMA TemplateCounts ==
    /\ Len(Unigram) \in Nat /\ Len(Bigram) \in Nat
    /\ Len(Templates) \in Nat /\ Len(Templates) + 1 < ChunkSize
    /\ Len(Templates) <= Len(Unigram) + Len(Bigram)
<1>1. Len(Unigram) \in Nat /\ Len(Bigram) \in Nat
    BY TemplatesAssumption
<1> QED
    BY <1>1, ChunkAssumption DEF Templates

\* The sentence buildFeatures is at, and its current row.
LEMMA CurrentTypes ==
    ASSUME Shape, pc = "build"
    PROVE  /\ Len(sents) \in 1 .. Len(sents)
           /\ cur.row \in Nat /\ cur.row + 1 \in 1 .. Len(Current.keys)
           /\ cur.len \in Nat /\ Len(Current.keys) = 2 * cur.len - 1
           /\ cur.tmpl \in Nat
           /\ Current.keys[cur.row + 1] \in Seq(Keys)
<1>1. Len(sents) \in 1 .. Len(sents)
    BY DEF Shape, Sentences, Collecting
<1>2. /\ cur.len \in Nat /\ cur.row \in Nat /\ cur.tmpl \in Nat
      /\ cur.row \in 0 .. 2 * cur.len - 2 /\ cur.len = Current.len
    BY CursorTypes DEF Shape, Collecting
<1>3. /\ Len(Current.keys) = 2 * cur.len - 1
      /\ \A r \in 1 .. Len(Current.keys) : Current.keys[r] \in Seq(Keys)
    <2>1. Sentences
        BY DEF Shape
    <2> QED
        BY <1>1, <1>2, <2>1, SentenceTypes DEF Current
<1>4. cur.row + 1 \in 1 .. Len(Current.keys)
    BY <1>2, <1>3
<1> QED
    BY <1>1, <1>2, <1>3, <1>4

\* getID adds a key to the current row and touches no other.
LEMMA GetIDSents ==
    ASSUME Shape, NEW x \in Keys, GetID(x)
    PROVE  /\ Sentences' /\ Len(sents') = Len(sents)
           /\ \A s \in 1 .. Len(sents) :
                /\ sents'[s].fid = sents[s].fid /\ sents'[s].len = sents[s].len
                /\ Len(sents'[s].keys) = Len(sents[s].keys)
                /\ \A r \in 1 .. Len(sents[s].keys) :
                     sents'[s].keys[r] = IF s = Len(sents) /\ r = cur.row + 1
                                         THEN Append(sents[s].keys[r], x)
                                         ELSE sents[s].keys[r]
<1> DEFINE n == Len(sents)
           k == cur.row + 1
           ks == [sents[n].keys EXCEPT ![k] = Append(@, x)]
           st == [sents[n] EXCEPT !.keys = ks]
<1>1. pc = "build" /\ sents' = [sents EXCEPT ![n] = st]
    BY DEF GetID
<1>2. /\ n \in 1 .. Len(sents) /\ sents \in Seq(Sentence) /\ sents[n] \in Sentence
      /\ sents[n].keys \in Seq(Seq(Keys)) /\ k \in 1 .. Len(sents[n].keys)
      /\ sents[n].keys[k] \in Seq(Keys)
    <2>1. Sentences
        BY DEF Shape
    <2>2. n \in 1 .. Len(sents) /\ k \in 1 .. Len(sents[n].keys) /\ sents[n].keys[k] \in Seq(Keys)
        BY <1>1, CurrentTypes DEF Current
    <2>3. sents[n].keys \in Seq(Seq(Keys))
        BY <2>1, <2>2, SentenceTypes
    <2> QED
        BY <2>1, <2>2, <2>3 DEF Sentences
<1>3. /\ ks \in Seq(Seq(Keys)) /\ Len(ks) = Len(sents[n].keys)
      /\ \A r \in 1 .. Len(sents[n].keys) :
           ks[r] = IF r = k THEN Append(sents[n].keys[r], x) ELSE sents[n].keys[r]
    BY <1>2
<1> HIDE DEF ks
<1>4. st \in Sentence /\ st.fid = sents[n].fid /\ st.len = sents[n].len /\ st.keys = ks
    BY <1>2, <1>3 DEF Sentence
<1> HIDE DEF st
<1>5. /\ sents' \in Seq(Sentence) /\ Len(sents') = n
      /\ \A s \in 1 .. n : sents'[s] = IF s = n THEN st ELSE sents[s]
    BY <1>1, <1>2, <1>4
<1>6. Sentences'
    <2> SUFFICES ASSUME NEW s \in 1 .. Len(sents')
                 PROVE  Len(sents'[s].keys) = 2 * sents'[s].len - 1
        BY <1>5 DEF Sentences
    <2> QED
        BY <1>3, <1>4, <1>5 DEF Shape, Sentences
<1> QED
    BY <1>3, <1>4, <1>5, <1>6

\* A new sentence has its rows still to fill.
LEMMA BeginSents ==
    ASSUME Shape, NEW n \in 1 .. MaxLen, Begin(n), Len(rows) \in Nat
    PROVE  /\ Sentences' /\ Len(sents') = Len(sents) + 1 /\ Len(sents) \in Nat
           /\ \A s \in 1 .. Len(sents) : sents'[s] = sents[s]
           /\ LET st == sents'[Len(sents')] IN
              /\ st.fid = Len(rows) /\ st.len = n /\ Len(st.keys) = 2 * n - 1
              /\ \A r \in 1 .. 2 * n - 1 : st.keys[r] = << >>
<1> DEFINE st == [fid |-> Len(rows), len |-> n, keys |-> [r \in 1 .. 2 * n - 1 |-> << >>]]
<1>1. sents' = Append(sents, st) /\ sents \in Seq(Sentence)
    BY DEF Begin, Shape, Sentences
<1>2. 2 * n - 1 \in Nat
    BY NumbersAssumption
<1>3. /\ st.keys \in Seq(Seq(Keys)) /\ Len(st.keys) = 2 * n - 1
      /\ \A r \in 1 .. 2 * n - 1 : st.keys[r] = << >>
    <2>1. << >> \in Seq(Keys)
        OBVIOUS
    <2> QED
        BY <1>2, <2>1
<1>4. st \in Sentence /\ st.fid = Len(rows) /\ st.len = n
    BY <1>3 DEF Sentence
<1> HIDE DEF st
<1>5. /\ sents' \in Seq(Sentence) /\ Len(sents') = Len(sents) + 1 /\ Len(sents) \in Nat
      /\ \A s \in 1 .. Len(sents) : sents'[s] = sents[s]
      /\ sents'[Len(sents')] = st
    BY <1>1, <1>4
<1>6. \A s \in 1 .. Len(sents') : Len(sents'[s].keys) = 2 * sents'[s].len - 1
    <2> SUFFICES ASSUME NEW s \in 1 .. Len(sents')
                 PROVE  Len(sents'[s].keys) = 2 * sents'[s].len - 1
        OBVIOUS
    <2>1. s \in 1 .. Len(sents) \/ s = Len(sents')
        BY <1>5
    <2> QED
        BY <1>3, <1>4, <1>5, <2>1 DEF Shape, Sentences
<1> QED
    BY <1>3, <1>4, <1>5, <1>6 DEF Sentences

LEMMA ShapeInit == Init => Shape
<1> SUFFICES ASSUME Init PROVE Shape
    OBVIOUS
<1>1. sents \in Seq(Sentence) /\ Len(sents) = 0 /\ feature \in Seq(Nat)
    BY DEF Init
<1>2. cur \in Cursor
    BY NumbersAssumption DEF Init, Idle, Cursor
<1> QED
    BY <1>1, <1>2 DEF Init, Shape, Sentences

LEMMA ShapeGetID == ASSUME IInv, Shape, NEW x \in Keys, GetID(x) PROVE Shape'
<1>1. /\ pc = "build" /\ pc' = pc /\ cur.tmpl <= Len(Templates)
      /\ feature' = Append(feature, id'[x]) /\ cur' = [cur EXCEPT !.tmpl = @ + 1]
      /\ old2new' = old2new
    BY DEF GetID, shrinkVars
<1>2. /\ Collecting /\ cur \in Cursor /\ feature \in Seq(Nat)
      /\ cur.row \in Nat /\ cur.len \in Nat /\ cur.tmpl \in Nat
    BY <1>1, CursorTypes DEF Shape
<1>3. /\ cur' \in Cursor
      /\ cur'.len = cur.len /\ cur'.row = cur.row /\ cur'.tmpl = cur.tmpl + 1
    BY <1>1, <1>2, CursorMoves
<1>4. id'[x] \in Nat
    <2>1. id[x] \in {NoId} \cup Nat /\ maxid \in Nat
        BY DEF IInv, IdTypes, Dictionaries
    <2>2. CASE id[x] = NoId
        BY <2>1, <2>2 DEF GetID, LookUp, IInv, IdTypes, Dictionaries
    <2>3. CASE id[x] # NoId
        BY <2>1, <2>3 DEF GetID, LookUp
    <2> QED
        BY <2>2, <2>3
<1>5. feature' \in Seq(Nat) /\ Len(feature') = Len(feature) + 1
    BY <1>1, <1>2, <1>4
<1>6. count' \in [Keys -> Nat]
    <2>1. count \in [Keys -> Nat] /\ count[x] + 1 \in Nat
        BY DEF Shape
    <2>2. CASE id[x] = NoId
        BY <2>1, <2>2 DEF GetID, LookUp
    <2>3. CASE id[x] # NoId
        BY <2>1, <2>3 DEF GetID, LookUp
    <2> QED
        BY <2>2, <2>3
<1>7. Templates' = Templates
    BY <1>3 DEF Templates, IsNodeRow
<1>8. Collecting'
    <2>1. /\ Len(sents') = Len(sents) /\ Len(sents) \in 1 .. Len(sents)
          /\ cur.row + 1 \in 1 .. Len(Current.keys) /\ cur.row \in Nat
          /\ Len(Current.keys) = 2 * cur.len - 1 /\ cur.len \in Nat
          /\ cur.tmpl \in Nat
          /\ Current.keys[cur.row + 1] \in Seq(Keys)
        BY <1>1, CurrentTypes, GetIDSents
    <2>2. /\ Current'.len = Current.len
          /\ \A r \in 1 .. Len(Current.keys) :
               Current'.keys[r] = IF r = cur.row + 1 THEN Append(Current.keys[r], x)
                                  ELSE Current.keys[r]
        BY <2>1, GetIDSents DEF Current
    <2>3. Len(Current'.keys[cur.row + 1]) = Len(Current.keys[cur.row + 1]) + 1
        <3>1. Current'.keys[cur.row + 1] = Append(Current.keys[cur.row + 1], x)
            BY <2>1, <2>2
        <3> QED
            BY <2>1, <3>1
    <2>4. ASSUME NEW r \in cur.row + 2 .. 2 * cur.len - 1 PROVE Current'.keys[r] = << >>
        <3>1. r \in 1 .. Len(Current.keys) /\ r # cur.row + 1
            BY <2>1, SMTT(30)
        <3> QED
            BY <1>2, <2>2, <3>1 DEF Collecting
    <2>5. cur'.tmpl \in 1 .. Len(Templates) + 1
        <3>1. Len(Templates) \in Nat
            BY TemplateCounts
        <3> HIDE DEF Templates
        <3>2. cur.tmpl <= Len(Templates) /\ cur.tmpl \in 1 .. Len(Templates) + 1
            BY <1>1, <1>2 DEF Collecting
        <3> QED
            BY <1>2, <1>3, <3>1, <3>2
    <2>6. Len(feature') = cur'.tmpl - 1 /\ Len(Current'.keys[cur.row + 1]) = cur'.tmpl - 1
        BY <1>2, <1>3, <1>5, <2>1, <2>3 DEF Collecting
    <2> QED
        BY <1>2, <1>3, <1>7, <2>1, <2>2, <2>4, <2>5, <2>6 DEF Collecting
<1> QED
    BY <1>1, <1>3, <1>5, <1>6, <1>8, GetIDSents DEF Shape

LEMMA ShapeBegin ==
    ASSUME Shape, NEW n \in 1 .. MaxLen, Begin(n), Len(rows) \in Nat PROVE Shape'
<1>1. /\ pc = "read" /\ pc' = "build" /\ cur' = [len |-> n, row |-> 0, tmpl |-> 1]
      /\ UNCHANGED <<count, feature, old2new>>
    BY DEF Begin, dicVars, shrinkVars
<1>2. cur' \in Cursor /\ n \in Nat
    BY <1>1, NumbersAssumption DEF Cursor
<1>3. Collecting'
    <2>1. /\ Len(sents') = Len(sents) + 1 /\ Len(sents) \in Nat
          /\ Current'.len = n
          /\ \A r \in 1 .. 2 * n - 1 : Current'.keys[r] = << >>
        BY BeginSents DEF Current
    <2>2. Len(feature') = 0 /\ Len(Current'.keys[1]) = 0
        BY <1>1, <1>2, <2>1 DEF Shape
    <2>3. 1 \in 1 .. Len(Templates') + 1
        BY TemplateCounts DEF Templates
    <2> QED
        BY <1>1, <1>2, <2>1, <2>2, <2>3 DEF Collecting
<1> QED
    BY <1>1, <1>2, <1>3, BeginSents DEF Shape

LEMMA ShapeAddRow == ASSUME Shape, AddRow PROVE Shape'
<1>1. /\ pc = "build" /\ feature' = << >> /\ UNCHANGED <<count, sents, old2new>>
      /\ IF cur.row + 1 < 2 * cur.len - 1
         THEN cur' = [cur EXCEPT !.row = @ + 1, !.tmpl = 1] /\ pc' = pc
         ELSE cur' = Idle /\ pc' = "read"
    BY DEF AddRow, dicVars, shrinkVars
<1>2. /\ Collecting /\ cur \in Cursor
      /\ cur.row \in Nat /\ cur.len \in Nat /\ cur.tmpl \in Nat
    BY <1>1, CursorTypes DEF Shape
<1>3. /\ cur' \in Cursor
      /\ feature' \in Seq(Nat) /\ Len(feature') = 0
    BY <1>1, <1>2, CursorMoves
<1>4. ASSUME pc' = "build" PROVE Collecting'
    <2>1. /\ cur.row + 1 < 2 * cur.len - 1
          /\ cur'.row = cur.row + 1 /\ cur'.tmpl = 1 /\ cur'.len = cur.len
        BY <1>1, <1>2, <1>4, CursorMoves
    <2>2. /\ Current' = Current /\ cur.len \in Nat
          /\ Len(Current.keys) = 2 * cur.len - 1
        BY <1>1, CurrentTypes DEF Current
    <2>3. Current.keys[cur.row + 2] = << >>
        <3>1. cur.row + 2 \in cur.row + 2 .. 2 * cur.len - 1
            BY <1>2, <2>1, <2>2
        <3> QED
            BY <1>2, <3>1 DEF Collecting
    <2>4. 1 \in 1 .. Len(Templates') + 1
        BY TemplateCounts DEF Templates
    <2>5. /\ cur'.row + 1 = cur.row + 2
          /\ \A r \in cur'.row + 2 .. 2 * cur.len - 1 : r \in cur.row + 2 .. 2 * cur.len - 1
          /\ cur'.row \in 0 .. 2 * cur.len - 2
        BY <1>2, <2>1, <2>2
    <2>6. /\ Len(sents') # 0 /\ cur'.len = Current'.len
          /\ \A r \in cur.row + 2 .. 2 * cur.len - 1 : Current.keys[r] = << >>
        BY <1>1, <1>2, <2>1, <2>2 DEF Collecting
    <2>7. /\ Len(feature') = cur'.tmpl - 1
          /\ Len(Current'.keys[cur'.row + 1]) = cur'.tmpl - 1
        BY <1>3, <2>1, <2>2, <2>3, <2>5
    <2>8. \A r \in cur'.row + 2 .. 2 * cur'.len - 1 : Current'.keys[r] = << >>
        BY <2>1, <2>2, <2>5, <2>6
    <2>9. cur'.row \in 0 .. 2 * cur'.len - 2 /\ cur'.tmpl \in 1 .. Len(Templates') + 1
        BY <2>1, <2>4, <2>5
    <2> QED
        BY <2>6, <2>7, <2>8, <2>9 DEF Collecting
<1> QED
    BY <1>1, <1>3, <1>4 DEF Shape, Sentences

LEMMA ShapeStep == IInv /\ Len(rows) \in Nat /\ Shape /\ [Next]_vars => Shape'
<1> SUFFICES ASSUME IInv, Len(rows) \in Nat, Shape, [Next]_vars PROVE Shape'
    OBVIOUS
<1>1. ASSUME NEW n \in 1 .. MaxLen, Begin(n) PROVE Shape'
    BY <1>1, ShapeBegin
<1>2. ASSUME NEW x \in Keys, GetID(x) PROVE Shape'
    BY <1>2, ShapeGetID
<1>3. CASE AddRow
    BY <1>3, ShapeAddRow
<1>4. CASE ApplyRuleFails \/ BeginShrink \/ BeginRows \/ ShrinkRow \/ EndShrink
    BY <1>4 DEF ApplyRuleFails, BeginShrink, BeginRows, ShrinkRow, EndShrink, Shape,
                Sentences, dicVars, shrinkVars
<1>5. CASE Erase \/ Keep
    <2>1. pc = "renumber" /\ pc' = pc /\ UNCHANGED <<sents, cur, feature>>
        BY <1>5 DEF Erase, Keep
    <2>2. KeyOrder[pos] \in Keys
        BY <1>5, KeysAssumption DEF IInv, IdTypes, Erase, Keep
    <2>3. count' \in [Keys -> Nat]
        BY <1>5, <2>2 DEF Erase, Keep, Shape
    <2>4. \A o \in DOMAIN old2new' : o \in Nat /\ old2new'[o] \in Nat
        <3>1. CASE Erase
            BY <3>1 DEF Erase, Shape
        <3>2. CASE Keep
            <4>1. id[KeyOrder[pos]] \in Nat /\ new_maxid \in Nat
                BY <2>2, <3>2 DEF Keep, IInv, IdTypes, Dictionaries
            <4> QED
                BY <3>2, <4>1 DEF Keep, Shape
        <3> QED
            BY <1>5, <3>1, <3>2
    <2> QED
        BY <2>1, <2>3, <2>4 DEF Shape, Sentences
<1>6. CASE UNCHANGED vars
    <2>1. UNCHANGED <<pc, count, sents, cur, feature, old2new>>
        BY <1>6 DEF vars, dicVars, shrinkVars
    <2>2. Collecting => Collecting'
        BY <2>1 DEF Collecting, Current, Templates, IsNodeRow
    <2> QED
        BY <2>1, <2>2 DEF Shape, Sentences
<1> QED
    BY <1>1, <1>2, <1>3, <1>4, <1>5, <1>6 DEF Next

-----------------------------------------------------------------------------
(* Types. *)

LEMMA MemoryInit == Init => Memory
<1> SUFFICES ASSUME Init PROVE Memory
    OBVIOUS
<1>1. rows \in Seq(List!Block) /\ Len(rows) = 0
    BY DEF Init
<1>2. DOMAIN cells = Addresses
    BY DEF Init
<1> QED
    BY <1>1, <1>2, ChunkAssumption DEF Init, Memory

\* A row that is complete fits into a chunk.
LEMMA RowFits ==
    ASSUME Shape, AddRow
    PROVE  /\ feature \in Seq(Nat) /\ RowLength(feature) = Len(Templates) + 1
           /\ RowLength(feature) \in 1 .. ChunkSize - 1
<1>1. /\ Collecting /\ feature \in Seq(Nat) /\ cur.tmpl \in Nat
      /\ cur.tmpl > Len(Templates)
    BY CursorTypes DEF Shape, AddRow
<1>2. Len(Templates) \in Nat /\ Len(Templates) + 1 < ChunkSize /\ ChunkSize \in Nat
    BY TemplateCounts, ChunkAssumption
<1>3. cur.tmpl \in 1 .. Len(Templates) + 1 /\ Len(feature) = cur.tmpl - 1
    BY <1>1 DEF Collecting
<1> HIDE DEF Templates
<1>4. Len(feature) = Len(Templates)
    BY <1>1, <1>2, <1>3
<1> QED
    BY <1>1, <1>2, <1>4 DEF RowLength

LEMMA MemoryAddRow ==
    ASSUME Memory, Shape, AddRow
    PROVE  /\ Memory'
           /\ LET b == List!BlockAt(RowLength(feature)) IN
              /\ b \in List!Block /\ Inside(b) /\ RowLength(feature) <= b.len
              /\ rows' = Append(rows, b) /\ cells' = Written(b, feature)
              /\ \A p \in 1 .. Len(rows) : List!Disjoint(rows[p], b)
<1> DEFINE n == RowLength(feature)
           b == List!BlockAt(n)
<1>1. n \in 1 .. ChunkSize - 1 /\ n \in Nat
    BY RowFits, ChunkAssumption
<1> HIDE DEF n
<1>2. /\ b.chunk < MaxChunks /\ rows' = Append(rows, b) /\ cells' = Written(b, feature)
      /\ nchunks' = IF b.chunk = nchunks THEN nchunks + 1 ELSE nchunks
      /\ li' = b.chunk /\ pi' = b.off + n
    BY DEF AddRow, List!Alloc, n
<1>3. /\ b \in List!Block /\ b.len = n /\ Inside(b) /\ b.chunk <= nchunks
      /\ (b.chunk = li /\ b.off = pi) \/ (b.chunk = li + 1 /\ b.off = 0)
      /\ \A p \in 1 .. Len(rows) : List!Disjoint(rows[p], b)
    BY <1>1, <1>2, AllocApart
<1> HIDE DEF b
<1>4. /\ b.chunk \in Nat /\ b.off \in Nat /\ b.off + n < ChunkSize
    BY <1>3, BlockTypes DEF Inside
<1>5. /\ nchunks \in 0 .. MaxChunks /\ li \in Nat /\ pi \in Nat /\ MaxChunks \in Nat
      /\ rows \in Seq(List!Block)
    BY ChunkAssumption DEF Memory
<1>6. /\ nchunks' \in 0 .. MaxChunks /\ li' \in Nat /\ pi' \in Nat
      /\ li' < nchunks' /\ pi' < ChunkSize
    BY <1>1, <1>2, <1>3, <1>4, <1>5, SMTT(30)
<1>7. DOMAIN cells' = Addresses
    BY <1>2 DEF Written
<1>8. /\ rows' \in Seq(List!Block) /\ Len(rows') = Len(rows) + 1 /\ Len(rows) \in Nat
      /\ rows'[Len(rows) + 1] = b /\ \A p \in 1 .. Len(rows) : rows'[p] = rows[p]
    BY <1>2, <1>3, <1>5
<1>9. ASSUME NEW p \in 1 .. Len(rows')
      PROVE  /\ Inside(rows'[p])
             /\ \/ rows'[p].chunk < li'
                \/ rows'[p].chunk = li' /\ rows'[p].off + rows'[p].len <= pi'
    <2>1. CASE p = Len(rows) + 1
        BY <1>2, <1>3, <1>4, <1>8, <2>1
    <2>2. CASE p # Len(rows) + 1
        <3>1. p \in 1 .. Len(rows) /\ rows'[p] = rows[p]
            BY <1>8, <2>2
        <3>2. /\ Inside(rows[p])
              /\ \/ rows[p].chunk < li
                 \/ rows[p].chunk = li /\ rows[p].off + rows[p].len <= pi
            BY <3>1 DEF Memory
        <3>3. rows[p].chunk \in Nat /\ rows[p].off \in Nat /\ rows[p].len \in Nat
            BY <1>5, <3>1, BlockTypes
        <3>4. \/ rows[p].chunk < li'
              \/ rows[p].chunk = li' /\ rows[p].off + rows[p].len <= pi'
            <4>1. CASE b.chunk = li /\ b.off = pi
                <5>1. li' = li /\ pi' = pi + n
                    BY <1>2, <4>1
                <5> QED
                    BY <1>1, <1>5, <3>2, <3>3, <5>1
            <4>2. CASE b.chunk = li + 1 /\ b.off = 0
                <5>1. li' = li + 1
                    BY <1>2, <4>2
                <5> QED
                    BY <1>5, <3>2, <3>3, <5>1
            <4> QED
                BY <1>3, <4>1, <4>2
        <3> QED
            BY <3>1, <3>2, <3>4
    <2> QED
        BY <2>1, <2>2
<1>10. ASSUME NEW p \in 1 .. Len(rows'), NEW q \in 1 .. Len(rows'), p # q
       PROVE  List!Disjoint(rows'[p], rows'[q])
    <2>1. CASE p \in 1 .. Len(rows) /\ q \in 1 .. Len(rows)
        BY <1>8, <1>10, <2>1 DEF Memory
    <2>2. CASE p \in 1 .. Len(rows) /\ q = Len(rows) + 1
        BY <1>3, <1>8, <2>2
    <2>3. CASE q \in 1 .. Len(rows) /\ p = Len(rows) + 1
        <3>1. List!Disjoint(rows[q], b)
            BY <1>3, <2>3
        <3>2. List!Disjoint(b, rows[q])
            BY <3>1 DEF List!Disjoint
        <3> QED
            BY <1>8, <2>3, <3>2
    <2> QED
        BY <1>8, <1>10, <2>1, <2>2, <2>3
<1>11. Memory'
    <2>1. \A p \in 1 .. Len(rows') : Inside(rows'[p])
        BY <1>9
    <2> QED
        BY <1>6, <1>7, <1>8, <1>9, <1>10 DEF Memory, Inside
<1> QED
    BY <1>2, <1>3, <1>11, <1>1 DEF b, n

LEMMA MemoryStep == Memory /\ Shape /\ [Next]_vars => Memory'
<1> SUFFICES ASSUME Memory, Shape, [Next]_vars PROVE Memory'
    OBVIOUS
<1>1. CASE AddRow
    BY <1>1, MemoryAddRow
<1>2. CASE ShrinkRow
    <2>1. DOMAIN cells' = Addresses
        BY <1>2 DEF ShrinkRow, Written
    <2>2. UNCHANGED <<rows, nchunks, li, pi>>
        BY <1>2 DEF ShrinkRow
    <2> QED
        BY <2>1, <2>2 DEF Memory
<1>3. CASE (\E n \in 1 .. MaxLen : Begin(n)) \/ (\E x \in Keys : GetID(x)) \/ ApplyRuleFails
           \/ BeginShrink \/ Erase \/ Keep \/ BeginRows \/ EndShrink \/ UNCHANGED vars
    <2>1. UNCHANGED <<rows, cells, nchunks, li, pi>>
        BY <1>3 DEF Begin, GetID, ApplyRuleFails, BeginShrink, Erase, Keep, BeginRows,
                    EndShrink, vars, listVars
    <2> QED
        BY <2>1 DEF Memory
<1> QED
    BY <1>1, <1>2, <1>3 DEF Next

\* What all the other invariants rest on.
Typed == IInv /\ Memory /\ Shape

LEMMA TypedInit == Init => Typed
BY InitInvariant, MemoryInit, ShapeInit DEF Typed

LEMMA TypedStep == Typed /\ [Next]_vars => Typed'
<1> SUFFICES ASSUME Typed, [Next]_vars PROVE Typed'
    OBVIOUS
<1>1. Len(rows) \in Nat
    BY DEF Typed, Memory
<1> QED
    BY <1>1, StepInvariant, MemoryStep, ShapeStep DEF Typed

(***************************************************************************)
(* Types: and no row of the cache is handed a chunk that is not there.     *)
(***************************************************************************)
THEOREM TypeCorrect == Spec => []TypeOK
<1>1. Typed => TypeOK
    BY DEF Typed, IInv, IdTypes, Dictionaries, Memory, Shape, Cursor, TypeOK
<1> QED
    BY TypedInit, TypedStep, <1>1, PTL DEF Spec

-----------------------------------------------------------------------------
(* The counts of the keys. *)

\* Sentence s of ss has key y from template t of row r.
At(ss, y, s, r, t) ==
    /\ r \in 1 .. Len(ss[s].keys)
    /\ t \in 1 .. Len(ss[s].keys[r])
    /\ ss[s].keys[r][t] = y

OccurrencesIn(ss, y) ==
    {o \in (1 .. Len(ss)) \X (1 .. 2 * MaxLen - 1)
                           \X (1 .. Len(Unigram) + Len(Bigram)) :
        At(ss, y, o[1], o[2], o[3])}

OccurrencesKnown == \A y \in Keys : Occurrences(y) = OccurrencesIn(sents, y)

LEMMA OccurrencesAre == Sentences => OccurrencesKnown
<1> SUFFICES ASSUME Sentences PROVE OccurrencesKnown
    OBVIOUS
<1>1. ASSUME NEW s \in 1 .. Len(sents)
      PROVE  /\ DOMAIN sents[s].keys = 1 .. Len(sents[s].keys)
             /\ \A k \in 1 .. Len(sents[s].keys) :
                  DOMAIN sents[s].keys[k] = 1 .. Len(sents[s].keys[k])
    BY SentenceTypes
<1>2. ASSUME NEW y \in Keys PROVE Occurrences(y) = OccurrencesIn(sents, y)
    BY <1>1 DEF Occurrences, OccurrencesIn, At
<1> QED
    BY <1>2 DEF OccurrencesKnown

LEMMA OccurrencesThen == Sentences' => OccurrencesKnown'
BY OccurrencesAre, PTL

\* getID finds one occurrence more, of its own key.
LEMMA OccurrencesGetID ==
    ASSUME Shape, NEW x \in Keys, GetID(x)
    PROVE  \E o : /\ o \notin Occurrences(x)
                  /\ Occurrences(x)' = Occurrences(x) \cup {o}
                  /\ \A y \in Keys : y # x => Occurrences(y)' = Occurrences(y)
<1> DEFINE n == Len(sents)
           k == cur.row + 1
           c == cur.tmpl
           P == (1 .. n) \X (1 .. 2 * MaxLen - 1) \X (1 .. Len(Unigram) + Len(Bigram))
           o == <<n, k, c>>
<1>1. /\ n \in 1 .. n /\ k \in 1 .. Len(sents[n].keys) /\ c \in Nat
      /\ sents[n].keys[k] \in Seq(Keys) /\ Sentences /\ pc = "build"
      /\ c <= Len(Templates)
    BY CurrentTypes DEF Shape, GetID, Current
<1>2. /\ Sentences' /\ Len(sents') = n
      /\ \A s \in 1 .. n :
           /\ Len(sents'[s].keys) = Len(sents[s].keys)
           /\ \A r \in 1 .. Len(sents[s].keys) :
                sents'[s].keys[r] = IF s = n /\ r = k
                                    THEN Append(sents[s].keys[r], x)
                                    ELSE sents[s].keys[r]
    BY GetIDSents
<1>3. Len(sents[n].keys[k]) = c - 1 /\ c >= 1
    BY <1>1 DEF Shape, Collecting, Current
<1>4. k \in 1 .. 2 * MaxLen - 1 /\ c \in 1 .. Len(Unigram) + Len(Bigram)
    <2>1. k \in 1 .. 2 * MaxLen - 1
        <3>1. Len(sents[n].keys) \in 1 .. 2 * MaxLen - 1
            BY <1>1, SentenceTypes
        <3> QED
            BY <1>1, <3>1, NumbersAssumption
    <2>2. c \in 1 .. Len(Unigram) + Len(Bigram)
        BY <1>1, <1>3, TemplateCounts
    <2> QED
        BY <2>1, <2>2
<1> HIDE DEF n, k, c
<1>5. ASSUME NEW y \in Keys, NEW s \in 1 .. n, NEW r, NEW t
      PROVE  At(sents', y, s, r, t) <=> At(sents, y, s, r, t)
                                          \/ (y = x /\ s = n /\ r = k /\ t = c)
    <2>1. CASE r \notin 1 .. Len(sents[s].keys)
        BY <1>1, <1>2, <2>1 DEF At
    <2>2. CASE r \in 1 .. Len(sents[s].keys) /\ ~(s = n /\ r = k)
        <3>1. Len(sents'[s].keys) = Len(sents[s].keys) /\ sents'[s].keys[r] = sents[s].keys[r]
            BY <1>2, <2>2
        <3> QED
            BY <2>2, <3>1 DEF At
    <2>3. CASE s = n /\ r = k
        <3> DEFINE q == sents[n].keys[k]
        <3>1. sents'[n].keys[k] = Append(q, x) /\ Len(sents'[n].keys) = Len(sents[n].keys)
            BY <1>1, <1>2
        <3>2. At(sents', y, n, k, t) <=> t \in 1 .. Len(Append(q, x)) /\ Append(q, x)[t] = y
            BY <1>1, <3>1 DEF At
        <3>3. At(sents, y, n, k, t) <=> t \in 1 .. Len(q) /\ q[t] = y
            BY <1>1 DEF At
        <3>4. q \in Seq(Keys) /\ Len(q) = c - 1
            BY <1>1, <1>3
        <3> HIDE DEF q
        <3>5. /\ Len(Append(q, x)) = c
              /\ \A j \in 1 .. c : Append(q, x)[j] = IF j = c THEN x ELSE q[j]
            BY <1>1, <3>4
        <3>6. /\ t \in 1 .. c <=> t \in 1 .. c - 1 \/ t = c
              /\ c \notin 1 .. c - 1
            BY <1>1, <1>3
        <3> QED
            BY <2>3, <3>2, <3>3, <3>4, <3>5, <3>6
    <2> QED
        BY <2>1, <2>2, <2>3
<1>6. ~ At(sents, x, n, k, c)
    BY <1>1, <1>3 DEF At
<1>7. n \in 1 .. n /\ o \in P
    BY <1>1, <1>4
<1>8. ASSUME NEW y \in Keys
      PROVE  /\ Occurrences(y) = {q \in P : At(sents, y, q[1], q[2], q[3])}
             /\ Occurrences(y)' = {q \in P : At(sents', y, q[1], q[2], q[3])}
    <2>1. Occurrences(y) = OccurrencesIn(sents, y) /\ Occurrences(y)' = OccurrencesIn(sents', y)
        BY <1>1, <1>2, OccurrencesAre, OccurrencesThen DEF OccurrencesKnown
    <2> QED
        BY <1>2, <2>1 DEF OccurrencesIn, n
<1>9. ASSUME NEW y \in Keys, NEW q \in P
      PROVE  q \in Occurrences(y)' <=> q \in Occurrences(y) \/ (y = x /\ q = o)
    <2>1. q[1] \in 1 .. n /\ q = <<q[1], q[2], q[3]>>
        OBVIOUS
    <2>2. q = o <=> q[1] = n /\ q[2] = k /\ q[3] = c
        BY <2>1
    <2> HIDE DEF o
    <2> QED
        BY <1>5, <1>8, <2>1, <2>2
<1>10. o \notin Occurrences(x)
    BY <1>6, <1>8
<1>11. \A y \in Keys : Occurrences(y) \subseteq P /\ Occurrences(y)' \subseteq P
    BY <1>8
<1> HIDE DEF P, o
<1>12. ASSUME NEW y \in Keys
       PROVE  Occurrences(y)' = IF y = x THEN Occurrences(y) \cup {o} ELSE Occurrences(y)
    BY <1>7, <1>9, <1>11
<1> QED
    BY <1>10, <1>12

\* A new sentence has no keys yet.
LEMMA OccurrencesBegin ==
    ASSUME Shape, NEW n \in 1 .. MaxLen, Begin(n), Len(rows) \in Nat
    PROVE  \A y \in Keys : Occurrences(y)' = Occurrences(y)
<1> SUFFICES ASSUME NEW y \in Keys PROVE Occurrences(y)' = Occurrences(y)
    OBVIOUS
<1> DEFINE k == Len(sents)
           R == 1 .. 2 * MaxLen - 1
           B == 1 .. Len(Unigram) + Len(Bigram)
<1>1. /\ Sentences /\ Sentences' /\ Len(sents') = k + 1 /\ k \in Nat
      /\ \A s \in 1 .. k : sents'[s] = sents[s]
    BY BeginSents DEF Shape
<1>2. /\ Len(sents'[k + 1].keys) = 2 * n - 1
      /\ \A r \in 1 .. 2 * n - 1 : sents'[k + 1].keys[r] = << >>
    BY <1>1, BeginSents
<1>3. Occurrences(y) = OccurrencesIn(sents, y) /\ Occurrences(y)' = OccurrencesIn(sents', y)
    BY <1>1, OccurrencesAre, OccurrencesThen DEF OccurrencesKnown
<1>4. \A r, t : ~ At(sents', y, k + 1, r, t)
    <2> SUFFICES ASSUME NEW r, NEW t, r \in 1 .. 2 * n - 1, t \in 1 .. Len(sents'[k + 1].keys[r])
                 PROVE  FALSE
        BY <1>2 DEF At
    <2>1. Len(sents'[k + 1].keys[r]) = 0
        BY <1>2
    <2> QED
        BY <2>1
<1>5. \A s \in 1 .. k : \A r, t : At(sents', y, s, r, t) <=> At(sents, y, s, r, t)
    BY <1>1 DEF At
<1>6. 1 .. k + 1 = (1 .. k) \cup {k + 1}
    BY <1>1
<1>7. OccurrencesIn(sents, y) = {q \in (1 .. k) \X R \X B : At(sents, y, q[1], q[2], q[3])}
    BY DEF OccurrencesIn
<1>8. OccurrencesIn(sents', y) = {q \in (1 .. k + 1) \X R \X B : At(sents', y, q[1], q[2], q[3])}
    BY <1>1 DEF OccurrencesIn
<1> HIDE DEF k, R, B
<1>9. ASSUME NEW q PROVE q \in OccurrencesIn(sents', y) <=> q \in OccurrencesIn(sents, y)
    <2>1. q \in (1 .. k + 1) \X R \X B /\ q[1] # k + 1 => q \in (1 .. k) \X R \X B
        BY <1>6
    <2>2. q \in (1 .. k) \X R \X B => q \in (1 .. k + 1) \X R \X B /\ q[1] \in 1 .. k
        BY <1>6
    <2> QED
        BY <1>4, <1>5, <1>7, <1>8, <2>1, <2>2
<1>10. OccurrencesIn(sents', y) = OccurrencesIn(sents, y)
    BY <1>9, Zenon
<1> QED
    BY <1>3, <1>10

\* How often the training data has x.
Seen(x) == Cardinality(Occurrences(x))

Kept(x) == Seen(x) >= 1 /\ Seen(x) >= freq

Counts(x) ==
    /\ IsFiniteSet(Occurrences(x))
    /\ pc \in {"read", "build"} \/ (pc = "renumber" /\ x \notin Passed) =>
         count[x] = Seen(x) /\ (id[x] # NoId <=> Seen(x) >= 1)
    /\ pc \in {"rows", "ready"} \/ (pc = "renumber" /\ x \in Passed) =>
         (id[x] # NoId <=> Kept(x))

Counted == \A x \in Keys : Counts(x)

LEMMA SeenTypes ==
    ASSUME NEW x \in Keys, Counts(x) PROVE Seen(x) \in Nat
BY FS_CardinalityType DEF Counts, Seen

LEMMA CountedInit == Init => Counted
<1> SUFFICES ASSUME Init, NEW x \in Keys PROVE Counts(x)
    BY DEF Counted
<1>1. Occurrences(x) = {}
    <2>1. 1 .. Len(sents) = {}
        BY DEF Init
    <2> QED
        BY <2>1 DEF Occurrences
<1>2. IsFiniteSet(Occurrences(x)) /\ Seen(x) = 0
    BY <1>1, FS_EmptySet DEF Seen
<1> QED
    BY <1>2 DEF Init, Counts

\* A step that leaves the data and the dictionary alone.
LEMMA CountedSame ==
    ASSUME Typed, Counted, UNCHANGED <<id, count>>, NEW x \in Keys,
           Occurrences(x)' = Occurrences(x),
           \/ pc' = pc /\ pos' = pos
           \/ pc \in {"read", "build"} /\ pc' \in {"read", "build", "failed"}
           \/ pc = "rows" /\ pc' \in {"rows", "ready"}
    PROVE  Counts(x)'
<1>1. Counts(x) /\ Seen(x)' = Seen(x) /\ (Kept(x)' <=> Kept(x))
    BY DEF Counted, Seen, Kept
<1>2. pos' = pos => Passed' = Passed
    BY DEF Passed
<1> QED
    BY <1>1, <1>2 DEF Counts

LEMMA CountedGetID == ASSUME Typed, Counted, NEW x \in Keys, GetID(x) PROVE Counted'
<1> SUFFICES ASSUME NEW y \in Keys PROVE Counts(y)'
    BY DEF Counted
<1>1. /\ pc = "build" /\ pc' = pc /\ LookUp(x) /\ UNCHANGED pos
      /\ id \in Dictionaries /\ maxid \in Nat /\ count \in [Keys -> Nat]
    BY DEF GetID, shrinkVars, Typed, Shape, IInv, IdTypes
<1>2. PICK o : /\ o \notin Occurrences(x)
               /\ Occurrences(x)' = Occurrences(x) \cup {o}
               /\ \A z \in Keys : z # x => Occurrences(z)' = Occurrences(z)
    BY OccurrencesGetID DEF Typed
<1>3. Counts(x) /\ Counts(y)
    BY DEF Counted
<1>4. /\ IsFiniteSet(Occurrences(x)') /\ Seen(x)' = Seen(x) + 1 /\ Seen(x) \in Nat
    BY <1>2, <1>3, FS_AddElement, SeenTypes DEF Counts, Seen
<1>5. count[x] = Seen(x) /\ (id[x] # NoId <=> Seen(x) >= 1)
    BY <1>1, <1>3 DEF Counts
<1>6. CASE y = x
    <2>1. id'[x] # NoId /\ count'[x] = Seen(x) + 1
        <3>1. CASE id[x] = NoId
            <4>1. Seen(x) = 0 /\ id'[x] = maxid /\ count'[x] = 1
                BY <1>1, <1>4, <1>5, <3>1 DEF LookUp, Dictionaries
            <4> QED
                BY <1>1, <4>1 DEF NoId
        <3>2. CASE id[x] # NoId
            BY <1>1, <1>5, <3>2 DEF LookUp, Dictionaries
        <3> QED
            BY <3>1, <3>2
    <2> QED
        BY <1>1, <1>4, <1>6, <2>1 DEF Counts
<1>7. CASE y # x
    <2>1. id'[y] = id[y] /\ count'[y] = count[y]
        <3>1. CASE id[x] = NoId
            BY <1>1, <1>7, <3>1 DEF LookUp, Dictionaries
        <3>2. CASE id[x] # NoId
            BY <1>1, <1>7, <3>2 DEF LookUp, Dictionaries
        <3> QED
            BY <3>1, <3>2
    <2>2. Occurrences(y)' = Occurrences(y)
        BY <1>2, <1>7
    <2>3. Seen(y)' = Seen(y)
        BY <2>2 DEF Seen
    <2> QED
        BY <1>1, <1>3, <2>1, <2>2, <2>3 DEF Counts
<1> QED
    BY <1>6, <1>7

\* The loop drops a key or keeps it, and leaves every other one alone.
LEMMA CountedPass == ASSUME Typed, Counted, Erase \/ Keep PROVE Counted'
<1> DEFINE x == KeyOrder[pos]
<1> SUFFICES ASSUME NEW y \in Keys PROVE Counts(y)'
    BY DEF Counted
<1>1. /\ pc = "renumber" /\ pc' = pc /\ pos' = pos + 1 /\ pos <= Len(KeyOrder)
      /\ sents' = sents /\ IInv
      /\ id \in Dictionaries /\ new_maxid \in Nat /\ count \in [Keys -> Nat]
    BY DEF Erase, Keep, Typed, IInv, IdTypes, Shape
<1>2. x \in Keys /\ x \notin Passed /\ Passed' = Passed \cup {x}
    BY <1>1, PassOne
<1>3. Occurrences(y)' = Occurrences(y) /\ Seen(y)' = Seen(y) /\ (Kept(y)' <=> Kept(y))
    BY <1>1 DEF Occurrences, Seen, Kept
<1>4. Counts(x) /\ Counts(y) /\ Seen(x) \in Nat /\ freq \in Nat
    BY <1>2, SeenTypes, NumbersAssumption DEF Counted
<1>5. count[x] = Seen(x) /\ (id[x] # NoId <=> Seen(x) >= 1)
    BY <1>1, <1>2, <1>4 DEF Counts
<1>6. /\ Erase => /\ id[x] = NoId \/ Rare(x)
                  /\ id' = [id EXCEPT ![x] = NoId] /\ count' = [count EXCEPT ![x] = 0]
      /\ Keep => /\ id[x] # NoId /\ ~ Rare(x)
                 /\ id' = [id EXCEPT ![x] = new_maxid] /\ count' = count
    BY DEF Erase, Keep
<1> HIDE DEF x
<1>7. CASE y = x
    <2>1. id'[x] # NoId <=> Kept(x)
        <3>1. CASE Erase
            BY <1>1, <1>2, <1>4, <1>5, <1>6, <3>1 DEF Rare, Kept, Dictionaries
        <3>2. CASE Keep
            <4>1. id'[x] = new_maxid /\ id'[x] # NoId
                BY <1>1, <1>2, <1>6, <3>2 DEF Dictionaries, NoId
            <4> QED
                BY <1>1, <1>2, <1>4, <1>5, <1>6, <3>2, <4>1 DEF Rare, Kept
        <3> QED
            BY <3>1, <3>2
    <2> QED
        BY <1>1, <1>2, <1>3, <1>4, <1>7, <2>1 DEF Counts
<1>8. CASE y # x
    <2>1. id'[y] = id[y] /\ count'[y] = count[y] /\ (y \in Passed' <=> y \in Passed)
        BY <1>1, <1>2, <1>6, <1>8 DEF Dictionaries
    <2> QED
        BY <1>1, <1>3, <1>4, <2>1 DEF Counts
<1> QED
    BY <1>7, <1>8

LEMMA CountedStep == Typed /\ Counted /\ [Next]_vars => Counted'
<1> SUFFICES ASSUME Typed, Counted, [Next]_vars PROVE Counted'
    OBVIOUS
<1>1. ASSUME NEW n \in 1 .. MaxLen, Begin(n) PROVE Counted'
    <2>1. /\ UNCHANGED <<id, count>> /\ pc = "read" /\ pc' = "build"
          /\ \A y \in Keys : Occurrences(y)' = Occurrences(y)
        BY <1>1, OccurrencesBegin DEF Begin, dicVars, Typed, Memory
    <2> QED
        BY <2>1, CountedSame DEF Counted
<1>2. ASSUME NEW x \in Keys, GetID(x) PROVE Counted'
    BY <1>2, CountedGetID
<1>3. CASE ApplyRuleFails \/ AddRow \/ ShrinkRow \/ EndShrink \/ UNCHANGED vars
    <2>1. /\ UNCHANGED <<id, count, sents>>
          /\ \/ pc' = pc /\ pos' = pos
             \/ pc \in {"read", "build"} /\ pc' \in {"read", "build", "failed"}
             \/ pc = "rows" /\ pc' \in {"rows", "ready"}
        BY <1>3 DEF ApplyRuleFails, AddRow, ShrinkRow, EndShrink, vars, dicVars, shrinkVars
    <2>2. \A y \in Keys : Occurrences(y)' = Occurrences(y)
        BY <2>1 DEF Occurrences
    <2> QED
        BY <2>1, <2>2, CountedSame DEF Counted
<1>4. CASE BeginShrink
    <2>1. /\ UNCHANGED <<id, count, sents, pos>> /\ pc = "read" /\ pos = 1
          /\ pc' = IF freq <= 1 THEN "ready" ELSE "renumber"
        BY <1>4 DEF BeginShrink, dicVars, shrinkVars, Typed, IInv, IdTypes
    <2>2. ASSUME NEW y \in Keys PROVE Counts(y)'
        <3>1. /\ Occurrences(y)' = Occurrences(y) /\ Seen(y)' = Seen(y)
              /\ (Kept(y)' <=> Kept(y)) /\ Counts(y) /\ Seen(y) \in Nat
            BY <2>1, SeenTypes DEF Occurrences, Seen, Kept, Counted
        <3>2. y \notin Passed'
            BY <2>1 DEF Passed
        <3>3. freq <= 1 => (Kept(y) <=> Seen(y) >= 1)
            BY <3>1, NumbersAssumption DEF Kept
        <3> QED
            BY <2>1, <3>1, <3>2, <3>3 DEF Counts
    <2> QED
        BY <2>2 DEF Counted
<1>5. CASE Erase \/ Keep
    BY <1>5, CountedPass
<1>6. CASE BeginRows
    <2>1. /\ UNCHANGED <<id, count, sents>> /\ pc = "renumber" /\ pc' = "rows"
          /\ pos = Len(KeyOrder) + 1
        BY <1>6 DEF BeginRows, dicVars, Typed, IInv, IdTypes
    <2>2. Keys \subseteq Passed
        BY <2>1, KeysAssumption, SMTT(30) DEF Passed
    <2>3. ASSUME NEW y \in Keys PROVE Counts(y)'
        <3>1. Occurrences(y)' = Occurrences(y) /\ Seen(y)' = Seen(y) /\ (Kept(y)' <=> Kept(y))
            BY <2>1 DEF Occurrences, Seen, Kept
        <3>2. Counts(y) /\ y \in Passed
            BY <2>2 DEF Counted
        <3> QED
            BY <2>1, <3>1, <3>2 DEF Counts
    <2> QED
        BY <2>3 DEF Counted
<1> QED
    BY <1>1, <1>2, <1>3, <1>4, <1>5, <1>6 DEF Next

(***************************************************************************)
(* The counts are exact, and -f keeps the keys that are often enough: for  *)
(* every order of the sentences, and whatever the templates expand to.     *)
(***************************************************************************)
THEOREM FrequencyRules == Spec => []FrequencyDecides
<1>1. Typed /\ Counted => FrequencyDecides
    BY DEF Counted, Counts, Seen, Kept, FrequencyDecides
<1> QED
    BY TypedInit, TypedStep, CountedInit, CountedStep, <1>1, PTL DEF Spec

-----------------------------------------------------------------------------
(* What the rows hold. *)

\* The keys the dictionary d has, each with its number.
Live(d) == [x \in {k \in Keys : d[k] # NoId} |-> d[x]]

Known(d, ks) == \A j \in 1 .. Len(ks) : d[ks[j]] # NoId

\* How many of the sentence's rows are in the cache.
Complete(s) ==
    IF pc = "build" /\ s = Len(sents) THEN cur.row ELSE Len(sents[s].keys)

\* Row by row, the keys behind the cache: every sentence finds its own.
Recorded(content) ==
    /\ content \in Seq(Seq(Keys))
    /\ Len(content) = Len(rows)
    /\ \A s \in 1 .. Len(sents) : \A r \in 1 .. Complete(s) :
         /\ sents[s].fid + r \in 1 .. Len(rows)
         /\ content[sents[s].fid + r] = sents[s].keys[r]

\* Up to row n the cache has the ids of e, from there on those of d.
Held(content, e, d, n) ==
    \A p \in 1 .. Len(rows) :
      Holds(cells, rows[p], Through(Live(IF p < n THEN e ELSE d), content[p]))

\* For the keys in P, old2new leads from their numbers in d to those in id;
\* the others still have theirs.
Renaming(d, P) ==
    /\ d \in Dictionaries
    /\ \A x, y \in Keys : d[x] # NoId /\ d[x] = d[y] => x = y
    /\ \A x \in Keys \ P : id[x] = d[x]
    /\ \A x \in P : id[x] # NoId =>
         d[x] # NoId /\ d[x] \in DOMAIN old2new /\ old2new[d[x]] = id[x]
    /\ \A o \in DOMAIN old2new : \E x \in P : id[x] # NoId /\ d[x] = o

\* The rows while the data is read.
Reading(content) ==
    /\ Recorded(content)
    /\ Held(content, id, id, 1)
    /\ \A p \in 1 .. Len(content) : Known(id, content[p])

\* The row that is being collected comes next in the cache.
Pending ==
    /\ Current.fid + cur.row = Len(rows)
    /\ feature = Through(Live(id), Current.keys[cur.row + 1])
    /\ Known(id, Current.keys[cur.row + 1])

RowsInv ==
    /\ pc \in {"read", "build"} => \E content : Reading(content)
    /\ pc = "build" => Pending
    /\ pc = "renumber" => \E content, d : /\ Recorded(content)
                                          /\ Held(content, d, d, 1)
                                          /\ Renaming(d, Passed)
    /\ pc = "rows" => \E content, d : /\ Recorded(content)
                                      /\ Held(content, id, d, pos)
                                      /\ Renaming(d, Keys)
    /\ pc = "ready" => \E content : Recorded(content) /\ Held(content, id, id, 1)

LEMMA LiveTypes ==
    \A d \in Dictionaries : \A x \in DOMAIN Live(d) : Live(d)[x] \in Nat
BY DEF Live, Dictionaries

\* A block with its number in it holds no other.
LEMMA ShrunkRow ==
    ASSUME NEW d, Renaming(d, Keys), id \in Dictionaries, NEW ks \in Seq(Keys)
    PROVE  Renumbered(Through(Live(d), ks)) = Through(Live(id), ks)
<1>1. \A x \in DOMAIN Live(d) : Live(d)[x] \in Nat
    BY LiveTypes DEF Renaming
<1>2. ASSUME NEW x \in Keys
      PROVE  /\ x \in DOMAIN Live(id) <=>
                  x \in DOMAIN Live(d) /\ Live(d)[x] \in DOMAIN old2new
             /\ x \in DOMAIN Live(id) => Live(id)[x] = old2new[Live(d)[x]]
    <2>1. /\ x \in DOMAIN Live(d) <=> d[x] # NoId
          /\ x \in DOMAIN Live(id) <=> id[x] # NoId
          /\ d[x] # NoId => Live(d)[x] = d[x]
          /\ id[x] # NoId => Live(id)[x] = id[x]
        BY DEF Live
    <2>2. id[x] # NoId => d[x] # NoId /\ d[x] \in DOMAIN old2new /\ old2new[d[x]] = id[x]
        BY DEF Renaming
    <2>3. ASSUME d[x] # NoId, d[x] \in DOMAIN old2new PROVE id[x] # NoId
        <3>1. PICK y \in Keys : id[y] # NoId /\ d[y] = d[x]
            BY <2>3 DEF Renaming
        <3>2. y = x
            BY <2>3, <3>1 DEF Renaming
        <3> QED
            BY <3>1, <3>2
    <2> QED
        BY <2>1, <2>2, <2>3
<1> DEFINE m == Live(d)
           b == Live(id)
<1> HIDE DEF m, b
<1>3. /\ \A x \in DOMAIN m : m[x] \in Nat
      /\ \A x \in Keys : x \in DOMAIN b <=> x \in DOMAIN m /\ m[x] \in DOMAIN old2new
      /\ \A x \in Keys : x \in DOMAIN b => b[x] = old2new[m[x]]
    BY <1>1, <1>2 DEF m, b
<1>4. \A s \in Seq(Keys) : Through(old2new, Through(m, s)) = Through(b, s)
    <2>1. Composes(b, old2new, m, Keys)
        BY <1>3 DEF Composes
    <2> QED
        BY <2>1, ThroughTwice
<1> QED
    BY <1>4 DEF Renumbered, m, b

\* Two dictionaries that give a row's keys the same numbers.
LEMMA LiveAgree ==
    ASSUME NEW d, NEW e, NEW ks \in Seq(Keys), \A j \in 1 .. Len(ks) : d[ks[j]] = e[ks[j]]
    PROVE  Through(Live(d), ks) = Through(Live(e), ks)
<1> DEFINE m == Live(d)
           n == Live(e)
<1>1. \A j \in 1 .. Len(ks) : /\ ks[j] \in DOMAIN m <=> ks[j] \in DOMAIN n
                              /\ ks[j] \in DOMAIN m => m[ks[j]] = n[ks[j]]
    <2> SUFFICES ASSUME NEW j \in 1 .. Len(ks)
                 PROVE  /\ ks[j] \in DOMAIN m <=> ks[j] \in DOMAIN n
                        /\ ks[j] \in DOMAIN m => m[ks[j]] = n[ks[j]]
        OBVIOUS
    <2>1. ks[j] \in Keys /\ d[ks[j]] = e[ks[j]]
        OBVIOUS
    <2> QED
        BY <2>1 DEF Live
<1> HIDE DEF m, n
<1>2. Through(m, ks) = Through(n, ks)
    BY <1>1, ThroughAgree
<1> QED
    BY <1>2 DEF m, n

LEMMA RowsInit == Init => RowsInv
<1> SUFFICES ASSUME Init PROVE RowsInv
    OBVIOUS
<1>1. Reading(<< >>)
    <2>1. /\ pc = "read" /\ Len(sents) = 0 /\ Len(rows) = 0 /\ Len(<< >>) = 0
          /\ << >> \in Seq(Seq(Keys))
        BY DEF Init
    <2> QED
        BY <2>1 DEF Reading, Recorded, Held
<1> QED
    BY <1>1 DEF Init, RowsInv

LEMMA RowsBegin ==
    ASSUME Typed, RowsInv, NEW n \in 1 .. MaxLen, Begin(n) PROVE RowsInv'
<1>1. /\ pc = "read" /\ pc' = "build" /\ cur' = [len |-> n, row |-> 0, tmpl |-> 1]
      /\ UNCHANGED <<id, feature, rows, cells>>
    BY DEF Begin, dicVars, listVars
<1>2. PICK content : Reading(content)
    BY <1>1 DEF RowsInv
<1> DEFINE k == Len(sents)
<1>3. /\ Len(rows) \in Nat /\ Len(sents') = k + 1 /\ k \in Nat
      /\ \A s \in 1 .. k : sents'[s] = sents[s]
      /\ Current'.fid = Len(rows) /\ Current'.len = n
      /\ \A r \in 1 .. 2 * n - 1 : Current'.keys[r] = << >>
    <2>1. Len(rows) \in Nat /\ Shape
        BY DEF Typed, Memory
    <2> QED
        BY <2>1, BeginSents DEF Current
<1>4. \A s \in 1 .. k : Complete(s)' = Complete(s)
    BY <1>1, <1>3 DEF Complete
<1>5. \A s : s = k + 1 => Complete(s)' = 0
    BY <1>1, <1>3 DEF Complete
<1>6. Recorded(content)'
    <2>1. Recorded(content)
        BY <1>2 DEF Reading
    <2>2. ASSUME NEW s \in 1 .. Len(sents'), NEW r \in 1 .. Complete(s)'
          PROVE  /\ sents'[s].fid + r \in 1 .. Len(rows')
                 /\ content[sents'[s].fid + r] = sents'[s].keys[r]
        <3>1. s \in 1 .. k \/ s = k + 1
            BY <1>3
        <3>2. s # k + 1
            <4> SUFFICES ASSUME s = k + 1 PROVE FALSE
                OBVIOUS
            <4>1. Complete(s)' = 0
                BY <1>5
            <4> QED
                BY <4>1
        <3> QED
            BY <1>1, <1>3, <1>4, <2>1, <3>1, <3>2 DEF Recorded
    <2> QED
        BY <1>1, <2>1, <2>2 DEF Recorded
<1>7. Reading(content)'
    BY <1>1, <1>2, <1>6 DEF Reading, Held
<1>8. Pending'
    <2>1. Current'.keys[1] = << >> /\ Current'.fid + 0 = Len(rows)
        BY <1>3, NumbersAssumption
    <2>2. feature' = << >> /\ cur'.row = 0 /\ rows' = rows
        BY <1>1 DEF Typed, Shape
    <2>3. /\ Current'.fid + cur'.row = Len(rows') /\ Current'.keys[cur'.row + 1] = << >>
        BY <2>1, <2>2
    <2>4. Through(Live(id'), << >>) = << >> /\ Known(id', << >>)
        BY ThroughEmpty DEF Known
    <2> QED
        BY <2>2, <2>3, <2>4 DEF Pending
<1> QED
    BY <1>1, <1>7, <1>8 DEF RowsInv

\* A key's first id changes no row: the rows have only keys that were known.
LEMMA LookUpAgrees ==
    ASSUME Typed, NEW x \in Keys, LookUp(x), NEW ks \in Seq(Keys), Known(id, ks)
    PROVE  /\ Through(Live(id'), ks) = Through(Live(id), ks)
           /\ Known(id', ks)
           /\ id'[x] \in Nat /\ id'[x] # NoId
           /\ Through(Live(id'), Append(ks, x)) = Append(Through(Live(id), ks), id'[x])
           /\ Known(id', Append(ks, x))
<1>1. id \in Dictionaries /\ maxid \in Nat
    BY DEF Typed, IInv, IdTypes
<1>2. /\ id'[x] \in Nat
      /\ \A y \in Keys : id[y] # NoId => id'[y] = id[y]
    <2>1. CASE id[x] = NoId
        BY <1>1, <2>1 DEF LookUp, Dictionaries
    <2>2. CASE id[x] # NoId
        BY <1>1, <2>2 DEF LookUp, Dictionaries
    <2> QED
        BY <2>1, <2>2
<1>3. id'[x] # NoId
    BY <1>2 DEF NoId
<1>4. \A j \in 1 .. Len(ks) : ks[j] \in Keys /\ id'[ks[j]] = id[ks[j]] /\ id[ks[j]] # NoId
    <2>1. \A j \in 1 .. Len(ks) : ks[j] \in Keys
        OBVIOUS
    <2> QED
        BY <1>2, <2>1 DEF Known
<1>5. Through(Live(id'), ks) = Through(Live(id), ks)
    <2>1. \A j \in 1 .. Len(ks) : id'[ks[j]] = id[ks[j]]
        BY <1>4
    <2> QED
        BY <2>1, LiveAgree
<1>6. Through(Live(id'), Append(ks, x)) = Append(Through(Live(id'), ks), id'[x])
    <2> DEFINE m == Live(id')
    <2>1. x \in DOMAIN m /\ m[x] = id'[x]
        BY <1>3 DEF Live
    <2> HIDE DEF m
    <2>2. Through(m, Append(ks, x)) = Append(Through(m, ks), m[x])
        BY <2>1, ThroughAppend
    <2> QED
        BY <2>1, <2>2 DEF m
<1>7. Known(id', ks)
    BY <1>4 DEF Known
<1>8. Known(id', Append(ks, x))
    <2>1. \A j \in 1 .. Len(Append(ks, x)) :
            Append(ks, x)[j] = x \/ \E i \in 1 .. Len(ks) : Append(ks, x)[j] = ks[i]
        OBVIOUS
    <2> QED
        BY <1>3, <1>4, <2>1 DEF Known
<1> QED
    BY <1>2, <1>3, <1>5, <1>6, <1>7, <1>8

LEMMA RowsGetID ==
    ASSUME Typed, RowsInv, NEW x \in Keys, GetID(x) PROVE RowsInv'
<1> DEFINE n == Len(sents)
           k == cur.row + 1
           ks == Current.keys[k]
<1>1. /\ pc = "build" /\ pc' = pc /\ LookUp(x) /\ feature' = Append(feature, id'[x])
      /\ UNCHANGED <<rows, cells>> /\ Shape
    BY DEF GetID, listVars, Typed
<1>2. PICK content : Reading(content)
    BY <1>1 DEF RowsInv
<1>3. Recorded(content) /\ Held(content, id, id, 1) /\ Pending
    BY <1>1, <1>2 DEF Reading, RowsInv
<1>4. /\ n \in 1 .. n /\ k \in 1 .. Len(sents[n].keys) /\ ks \in Seq(Keys)
      /\ cur.row \in Nat
    BY <1>1, CurrentTypes DEF Current
<1>5. /\ Len(sents') = n /\ cur'.row = cur.row
      /\ \A s \in 1 .. n :
           /\ sents'[s].fid = sents[s].fid
           /\ Len(sents'[s].keys) = Len(sents[s].keys)
           /\ \A r \in 1 .. Len(sents[s].keys) :
                sents'[s].keys[r] = IF s = n /\ r = k
                                    THEN Append(sents[s].keys[r], x)
                                    ELSE sents[s].keys[r]
    <2>1. cur'.row = cur.row
        BY <1>1, CursorMoves DEF GetID, Shape
    <2> QED
        BY <1>1, <2>1, GetIDSents
<1>6. \A s \in 1 .. n : Complete(s)' = Complete(s)
    BY <1>1, <1>5 DEF Complete
<1>7. ASSUME NEW s \in 1 .. n, NEW r \in 1 .. Complete(s)
      PROVE  r \in 1 .. Len(sents[s].keys) /\ ~(s = n /\ r = k)
    <2>1. CASE s = n
        <3>1. Complete(s) = cur.row
            BY <1>1, <2>1 DEF Complete
        <3>2. r \in 1 .. cur.row
            BY <3>1
        <3> HIDE DEF n
        <3>3. Len(sents[n].keys) \in Nat
            BY <1>1, <1>4, SentenceTypes DEF Shape, n
        <3> QED
            BY <1>4, <2>1, <3>2, <3>3
    <2>2. CASE s # n
        <3>1. Complete(s) = Len(sents[s].keys)
            BY <2>2 DEF Complete
        <3> QED
            BY <2>2, <3>1
    <2> QED
        BY <2>1, <2>2
<1>8. Recorded(content)'
    <2>1. ASSUME NEW s \in 1 .. Len(sents'), NEW r \in 1 .. Complete(s)'
          PROVE  /\ sents'[s].fid + r \in 1 .. Len(rows')
                 /\ content[sents'[s].fid + r] = sents'[s].keys[r]
        <3>1. s \in 1 .. n /\ r \in 1 .. Complete(s)
            BY <1>5, <1>6
        <3>2. r \in 1 .. Len(sents[s].keys) /\ ~(s = n /\ r = k)
            BY <1>7, <3>1
        <3>3. sents'[s].fid = sents[s].fid /\ sents'[s].keys[r] = sents[s].keys[r]
            BY <1>5, <3>1, <3>2
        <3> QED
            BY <1>1, <1>3, <3>1, <3>3 DEF Recorded
    <2> QED
        BY <1>1, <1>3, <2>1 DEF Recorded
<1>9. ASSUME NEW p \in 1 .. Len(content)
      PROVE  Through(Live(id'), content[p]) = Through(Live(id), content[p])
             /\ Known(id', content[p])
    <2>1. content[p] \in Seq(Keys) /\ Known(id, content[p])
        BY <1>2, <1>3 DEF Reading, Recorded
    <2> QED
        BY <1>1, <2>1, LookUpAgrees
<1>10. Reading(content)'
    <2>1. Len(content) = Len(rows)
        BY <1>3 DEF Recorded
    <2>2. Held(content, id, id, 1)'
        BY <1>1, <1>3, <1>9, <2>1 DEF Held
    <2> QED
        BY <1>8, <1>9, <2>2 DEF Reading
<1>11. Pending'
    <2>1. /\ Current'.fid = Current.fid /\ Current'.keys[k] = Append(ks, x)
        BY <1>4, <1>5 DEF Current
    <2>2. feature = Through(Live(id), ks) /\ Known(id, ks) /\ Current.fid + cur.row = Len(rows)
        BY <1>3 DEF Pending
    <2>3. /\ feature' = Through(Live(id'), Append(ks, x)) /\ Known(id', Append(ks, x))
        BY <1>1, <1>4, <2>2, LookUpAgrees
    <2> QED
        BY <1>1, <1>5, <2>1, <2>2, <2>3 DEF Pending
<1> QED
    BY <1>1, <1>10, <1>11 DEF RowsInv

LEMMA RowsAddRow == ASSUME Typed, RowsInv, AddRow PROVE RowsInv'
<1> DEFINE n == Len(sents)
           k == cur.row + 1
           ks == Current.keys[k]
           b == List!BlockAt(RowLength(feature))
<1>1. /\ pc = "build" /\ UNCHANGED <<id, sents>> /\ feature' = << >>
      /\ IF k < 2 * cur.len - 1
         THEN cur' = [cur EXCEPT !.row = @ + 1, !.tmpl = 1] /\ pc' = pc
         ELSE cur' = Idle /\ pc' = "read"
      /\ Shape /\ Memory /\ Sentences
    BY DEF AddRow, dicVars, Typed, Shape
<1>2. PICK content : Reading(content)
    BY <1>1 DEF RowsInv
<1>3. Recorded(content) /\ Held(content, id, id, 1) /\ Pending
    BY <1>1, <1>2 DEF Reading, RowsInv
<1>4. /\ n \in 1 .. n /\ k \in 1 .. Len(sents[n].keys) /\ ks \in Seq(Keys)
      /\ cur.row \in Nat /\ cur.len \in Nat /\ Len(sents[n].keys) = 2 * cur.len - 1
      /\ ks = sents[n].keys[k]
    BY <1>1, CurrentTypes DEF Current
<1>5. /\ b \in List!Block /\ Inside(b) /\ RowLength(feature) <= b.len
      /\ rows' = Append(rows, b) /\ cells' = Written(b, feature)
      /\ \A p \in 1 .. Len(rows) : List!Disjoint(rows[p], b)
      /\ feature \in Seq(Nat)
    BY <1>1, MemoryAddRow, RowFits
<1>6. rows \in Seq(List!Block) /\ \A p \in 1 .. Len(rows) : Inside(rows[p])
    BY <1>1 DEF Memory
<1> HIDE DEF b
<1>7. /\ Len(rows') = Len(rows) + 1 /\ Len(rows) \in Nat /\ rows'[Len(rows) + 1] = b
      /\ \A p \in 1 .. Len(rows) : rows'[p] = rows[p]
    BY <1>5, <1>6
<1>8. PICK new \in Seq(Seq(Keys)) :
        /\ Len(new) = Len(rows) + 1 /\ new[Len(rows) + 1] = ks
        /\ \A p \in 1 .. Len(rows) : new[p] = content[p]
    <2> DEFINE more == Append(content, ks)
    <2>1. /\ more \in Seq(Seq(Keys)) /\ Len(more) = Len(rows) + 1 /\ more[Len(rows) + 1] = ks
          /\ \A p \in 1 .. Len(rows) : more[p] = content[p]
        BY <1>3, <1>4, SMTT(30) DEF Recorded
    <2> HIDE DEF more
    <2> QED
        BY <2>1
<1>9. feature = Through(Live(id), ks) /\ Known(id, ks) /\ sents[n].fid + cur.row = Len(rows)
    BY <1>3 DEF Pending, Current
<1>9a. sents[n].fid + k = Len(rows) + 1 /\ sents[n].fid \in Nat
    <2>1. sents[n].fid \in Nat
        BY <1>1, <1>4, SentenceTypes
    <2>2. \A f, c, m \in Nat : f + c = m => f + (c + 1) = m + 1
        OBVIOUS
    <2> QED
        BY <1>4, <1>7, <1>9, <2>1, <2>2
<1> HIDE DEF ks
<1>10. ASSUME NEW p \in 1 .. Len(rows')
       PROVE  Holds(cells', rows'[p], Through(Live(id), new[p])) /\ Known(id, new[p])
    <2>1. CASE p = Len(rows) + 1
        BY <1>5, <1>7, <1>8, <1>9, <2>1, WrittenHolds
    <2>2. CASE p # Len(rows) + 1
        <3>1. p \in 1 .. Len(rows)
            BY <1>7, <2>2
        <3>2. Holds(cells, rows[p], Through(Live(id), content[p])) /\ Known(id, content[p])
            BY <1>2, <1>3, <3>1 DEF Held, Reading, Recorded
        <3>3. /\ rows[p] \in List!Block /\ Inside(rows[p]) /\ List!Disjoint(rows[p], b)
            BY <1>5, <1>6, <3>1
        <3>4. Holds(cells', rows[p], Through(Live(id), content[p]))
            BY <1>5, <3>2, <3>3, WrittenElsewhere
        <3> QED
            BY <1>7, <1>8, <3>1, <3>2, <3>4
    <2> QED
        BY <2>1, <2>2
<1>11. k < 2 * cur.len - 1 => cur'.row = k
    BY <1>1, CursorMoves DEF Shape
<1>12. Recorded(new)'
    <2>1. ASSUME NEW s \in 1 .. Len(sents'), NEW r \in 1 .. Complete(s)'
          PROVE  /\ sents'[s].fid + r \in 1 .. Len(rows')
                 /\ new[sents'[s].fid + r] = sents'[s].keys[r]
        <3>1. CASE s = n
            <4>1. Complete(s)' = k
                <5>1. CASE k < 2 * cur.len - 1
                    BY <1>1, <1>11, <3>1, <5>1 DEF Complete
                <5>2. CASE ~(k < 2 * cur.len - 1)
                    <6>1. Complete(s)' = Len(sents[n].keys)
                        BY <1>1, <3>1, <5>2 DEF Complete
                    <6>2. k = 2 * cur.len - 1
                        BY <1>4, <5>2
                    <6> QED
                        BY <1>4, <6>1, <6>2
                <5> QED
                    BY <5>1, <5>2
            <4>2. Complete(s) = cur.row
                BY <1>1, <3>1 DEF Complete
            <4>3. sents[n].fid \in Nat /\ r \in 1 .. k
                BY <1>1, <1>4, <4>1, SentenceTypes
            <4>4. CASE r = k
                <5>1. sents[n].fid + r = Len(rows) + 1
                    BY <1>9a, <4>4
                <5>2. sents[n].keys[r] = ks
                    BY <1>4, <4>4
                <5> QED
                    BY <1>1, <1>7, <1>8, <3>1, <5>1, <5>2
            <4>5. CASE r # k
                <5>1. r \in 1 .. Complete(s)
                    BY <1>4, <4>2, <4>3, <4>5
                <5>2. /\ sents[s].fid + r \in 1 .. Len(rows)
                      /\ content[sents[s].fid + r] = sents[s].keys[r]
                    BY <1>3, <3>1, <1>4, <5>1 DEF Recorded
                <5> QED
                    BY <1>1, <1>7, <1>8, <5>2
            <4> QED
                BY <4>4, <4>5
        <3>2. CASE s # n
            <4>1. Complete(s)' = Complete(s) /\ s \in 1 .. n
                BY <1>1, <3>2 DEF Complete
            <4>2. /\ sents[s].fid + r \in 1 .. Len(rows)
                  /\ content[sents[s].fid + r] = sents[s].keys[r]
                BY <1>3, <4>1 DEF Recorded
            <4> QED
                BY <1>1, <1>7, <1>8, <4>2
        <3> QED
            BY <3>1, <3>2
    <2> QED
        BY <1>7, <1>8, <2>1 DEF Recorded
<1>13. Reading(new)'
    <2>1. Len(new) = Len(rows')
        BY <1>7, <1>8
    <2> QED
        BY <1>1, <1>10, <1>12, <2>1 DEF Reading, Held
<1>14. ASSUME pc' = "build" PROVE Pending'
    <2>1. k < 2 * cur.len - 1 /\ cur'.row = k /\ k + 1 = cur.row + 2
        BY <1>1, <1>4, <1>11, <1>14
    <2>2. Current' = Current /\ Current.fid + k = Len(rows')
        <3>1. Current.fid + k = Len(rows) + 1
            BY <1>9a DEF Current
        <3> QED
            BY <1>1, <1>7, <3>1 DEF Current
    <2>3. Current.keys[k + 1] = << >>
        <3>1. cur.row + 2 \in cur.row + 2 .. 2 * cur.len - 1
            BY <1>4, <2>1, SMTT(30)
        <3> QED
            BY <1>1, <2>1, <3>1 DEF Shape, Collecting
    <2>4. Through(Live(id'), << >>) = << >> /\ Known(id', << >>)
        BY ThroughEmpty DEF Known
    <2>5. Current'.keys[cur'.row + 1] = << >> /\ Current'.fid + cur'.row = Len(rows')
        BY <2>1, <2>2, <2>3
    <2> QED
        BY <1>1, <2>4, <2>5 DEF Pending
<1> QED
    BY <1>1, <1>13, <1>14 DEF RowsInv

\* A step that leaves the rows and the sentences alone.
RowsStay == UNCHANGED <<sents, rows, cells>>

LEMMA RecordedStays ==
    ASSUME RowsStay, NEW content, Recorded(content),
           pc \in {"read", "renumber", "rows"}, pc' \in {"renumber", "rows", "ready"}
    PROVE  Recorded(content)'
<1>1. \A s \in 1 .. Len(sents) : Complete(s)' = Complete(s)
    BY DEF RowsStay, Complete
<1> QED
    BY <1>1 DEF RowsStay, Recorded

\* Before the first key has its new number, every key has its old one.
LEMMA RowsBeginShrink == ASSUME Typed, RowsInv, BeginShrink PROVE RowsInv'
<1>1. /\ pc = "read" /\ pc' = IF freq <= 1 THEN "ready" ELSE "renumber"
      /\ RowsStay /\ UNCHANGED <<id, pos, old2new>> /\ pos = 1
      /\ id \in Dictionaries /\ Tiled(id, Keys, maxid) /\ DOMAIN old2new = {}
    BY DEF BeginShrink, RowsStay, dicVars, listVars, shrinkVars, Typed, IInv, IdTypes, Shape
<1>2. PICK content : Recorded(content) /\ Held(content, id, id, 1)
    BY <1>1 DEF RowsInv, Reading
<1>3. PICK d : d = id
    OBVIOUS
<1>4. Recorded(content)'
    BY <1>1, <1>2, RecordedStays
<1>5. Held(content, id, id, 1)' /\ Held(content, d, d, 1)'
    BY <1>1, <1>2, <1>3 DEF Held, RowsStay
<1>6. Renaming(d, Passed)'
    <2>1. Passed' = {}
        BY <1>1 DEF Passed
    <2>2. ASSUME NEW x \in Keys, NEW y \in Keys, d[x] # NoId, d[x] = d[y] PROVE x = y
        <3> SUFFICES ASSUME x # y PROVE FALSE
            OBVIOUS
        <3>1. id[x] # NoId /\ id[y] = id[x] /\ id[x] \in Nat
            BY <1>1, <1>3, <2>2 DEF Dictionaries
        <3>2. Width(x) \in Nat \ {0} /\ Width(y) \in Nat \ {0}
            BY WidthPositive
        <3>3. id[x] + Width(x) <= id[y] \/ id[y] + Width(y) <= id[x]
            BY <1>1, <3>1 DEF Tiled
        <3> QED
            BY <3>1, <3>2, <3>3
    <2> QED
        BY <1>1, <1>3, <2>1, <2>2 DEF Renaming
<1> QED
    BY <1>1, <1>4, <1>5, <1>6 DEF RowsInv

\* The loop's next key leaves the numbers of the others where they lead.
LEMMA RowsPass == ASSUME Typed, RowsInv, Erase \/ Keep PROVE RowsInv'
<1> DEFINE x == KeyOrder[pos]
<1>1. /\ pc = "renumber" /\ pc' = pc /\ pos' = pos + 1 /\ pos <= Len(KeyOrder)
      /\ RowsStay /\ IInv
      /\ id \in Dictionaries /\ new_maxid \in Nat
    BY DEF Erase, Keep, Typed, IInv, IdTypes, RowsStay, listVars
<1>2. x \in Keys /\ x \notin Passed /\ Passed' = Passed \cup {x} /\ Passed \in SUBSET Keys
    BY <1>1, PassOne
<1>3. /\ Erase => id' = [id EXCEPT ![x] = NoId] /\ old2new' = old2new
      /\ Keep => /\ id[x] # NoId
                 /\ id' = [id EXCEPT ![x] = new_maxid]
                 /\ old2new' = [o \in DOMAIN old2new \cup {id[x]} |->
                                  IF o = id[x] THEN new_maxid ELSE old2new[o]]
    BY DEF Erase, Keep
<1>4. PICK content, d : Recorded(content) /\ Held(content, d, d, 1) /\ Renaming(d, Passed)
    BY <1>1 DEF RowsInv
<1> HIDE DEF x
<1>5. /\ id[x] = d[x] /\ d \in Dictionaries
      /\ \A y, z \in Keys : d[y] # NoId /\ d[y] = d[z] => y = z
      /\ \A y \in Keys \ Passed : id[y] = d[y]
    BY <1>2, <1>4 DEF Renaming
<1>6. \A y \in Passed : y \in Keys /\ y # x
    BY <1>2
<1>7. \A y \in Keys : y # x => id'[y] = id[y]
    BY <1>1, <1>3 DEF Dictionaries
<1>8. \A y \in Keys \ Passed' : id'[y] = d[y]
    BY <1>2, <1>5, <1>7
<1>9. ASSUME NEW y \in Passed', id'[y] # NoId
      PROVE  d[y] # NoId /\ d[y] \in DOMAIN old2new' /\ old2new'[d[y]] = id'[y]
    <2>1. CASE y # x
        <3>1. y \in Passed /\ id'[y] = id[y]
            BY <1>2, <1>7, <2>1
        <3>2. d[y] # NoId /\ d[y] \in DOMAIN old2new /\ old2new[d[y]] = id[y]
            BY <1>4, <1>9, <3>1 DEF Renaming
        <3>3. d[y] # id[x]
            BY <1>2, <1>5, <1>6, <2>1, <3>1, <3>2
        <3> QED
            BY <1>1, <1>3, <3>1, <3>2, <3>3
    <2>2. CASE y = x
        <3>1. CASE Erase
            BY <1>1, <1>2, <1>3, <1>9, <2>2, <3>1 DEF Dictionaries
        <3>2. CASE Keep
            BY <1>1, <1>2, <1>3, <1>5, <2>2, <3>2 DEF Dictionaries
        <3> QED
            BY <3>1, <3>2
    <2> QED
        BY <2>1, <2>2
<1>10. ASSUME NEW o \in DOMAIN old2new'
       PROVE  \E y \in Passed' : id'[y] # NoId /\ d[y] = o
    <2>1. CASE o \in DOMAIN old2new
        <3>1. PICK y \in Passed : id[y] # NoId /\ d[y] = o
            BY <1>4, <2>1 DEF Renaming
        <3> QED
            BY <1>2, <1>6, <1>7, <3>1
    <2>2. CASE o \notin DOMAIN old2new
        <3>1. Keep /\ o = id[x]
            BY <1>3, <2>2
        <3>2. id'[x] = new_maxid /\ new_maxid # NoId
            BY <1>1, <1>2, <1>3, <3>1 DEF Dictionaries, NoId
        <3> QED
            BY <1>2, <1>5, <3>1, <3>2
    <2> QED
        BY <2>1, <2>2
<1>11. Renaming(d, Passed)'
    BY <1>5, <1>8, <1>9, <1>10 DEF Renaming
<1>12. Recorded(content)' /\ Held(content, d, d, 1)'
    BY <1>1, <1>4, RecordedStays DEF Held, RowsStay
<1> QED
    BY <1>1, <1>11, <1>12 DEF RowsInv

LEMMA RowsBeginRows == ASSUME Typed, RowsInv, BeginRows PROVE RowsInv'
<1>1. /\ pc = "renumber" /\ pc' = "rows" /\ pos' = 1 /\ pos = Len(KeyOrder) + 1
      /\ RowsStay /\ UNCHANGED <<id, old2new>>
    BY DEF BeginRows, RowsStay, dicVars, listVars, Typed, IInv, IdTypes
<1>2. Passed = Keys
    BY <1>1, KeysAssumption DEF Passed
<1>3. PICK content, d : Recorded(content) /\ Held(content, d, d, 1) /\ Renaming(d, Keys)
    BY <1>1, <1>2 DEF RowsInv
<1>4. Recorded(content)' /\ Renaming(d, Keys)'
    BY <1>1, <1>3, RecordedStays DEF Renaming
<1>5. Held(content, id, d, pos)'
    <2> SUFFICES ASSUME NEW p \in 1 .. Len(rows)
                 PROVE  Holds(cells, rows[p],
                              Through(Live(IF p < 1 THEN id ELSE d), content[p]))
        BY <1>1 DEF Held, RowsStay
    <2>1. ~(p < 1)
        OBVIOUS
    <2> QED
        BY <1>3, <2>1 DEF Held
<1> QED
    BY <1>1, <1>4, <1>5 DEF RowsInv

\* The row's survivors go where the row was, and fit.
LEMMA RowsShrinkRow == ASSUME Typed, RowsInv, ShrinkRow PROVE RowsInv'
<1> DEFINE b == rows[pos]
<1>1. /\ pc = "rows" /\ pc' = pc /\ pos \in 1 .. Len(rows) /\ pos' = pos + 1 /\ pos \in Nat
      /\ cells' = Written(b, Renumbered(Row(b)))
      /\ UNCHANGED <<sents, rows, id, old2new>>
      /\ id \in Dictionaries /\ Memory
      /\ \A o \in DOMAIN old2new : old2new[o] \in Nat
    <2>1. /\ pc = "rows" /\ pc' = pc /\ pos <= Len(rows) /\ pos' = pos + 1
          /\ cells' = Written(b, Renumbered(Row(b)))
          /\ UNCHANGED <<sents, rows, id, old2new>>
        BY DEF ShrinkRow, dicVars
    <2>2. pos \in Nat \ {0} /\ id \in Dictionaries
        BY DEF Typed, IInv, IdTypes
    <2>3. Memory /\ rows \in Seq(List!Block) /\ \A o \in DOMAIN old2new : old2new[o] \in Nat
        BY DEF Typed, Shape, Memory
    <2>4. pos \in 1 .. Len(rows)
        BY <2>1, <2>2, <2>3
    <2> QED
        BY <2>1, <2>2, <2>3, <2>4
<1>2. PICK content, d : Recorded(content) /\ Held(content, id, d, pos) /\ Renaming(d, Keys)
    BY <1>1 DEF RowsInv
<1>3. \A p \in 1 .. Len(rows) : rows[p] \in List!Block /\ Inside(rows[p])
    BY <1>1 DEF Memory
<1> DEFINE old == Through(Live(d), content[pos])
           new == Through(Live(id), content[pos])
<1>4. content[pos] \in Seq(Keys)
    BY <1>1, <1>2 DEF Recorded
<1>5. Holds(cells, b, old)
    <2>1. ~(pos < pos)
        BY <1>1
    <2> QED
        BY <1>1, <1>2, <2>1 DEF Held
<1>6. Row(b) = old
    BY <1>1, <1>3, <1>5, RowReads
<1>7. Renumbered(old) = new
    BY <1>1, <1>2, <1>4, ShrunkRow
<1>8. new \in Seq(Nat) /\ RowLength(new) <= b.len
    <2>1. old \in Seq(Nat) /\ RowLength(old) <= b.len /\ b.len \in Nat
        BY <1>1, <1>3, <1>5, BlockTypes DEF Holds
    <2> HIDE DEF old, new
    <2>2. Through(old2new, old) \in Seq(Nat) /\ Len(Through(old2new, old)) <= Len(old)
        BY <1>1, <2>1, ThroughTypes
    <2>3. new \in Seq(Nat) /\ Len(new) <= Len(old) /\ Len(new) \in Nat /\ Len(old) \in Nat
        BY <1>7, <2>1, <2>2 DEF Renumbered
    <2> QED
        BY <2>1, <2>3 DEF RowLength
<1>9. cells' = Written(b, new)
    BY <1>1, <1>6, <1>7
<1>10. ASSUME NEW p \in 1 .. Len(rows)
       PROVE  Holds(cells', rows[p],
                    Through(Live(IF p < pos + 1 THEN id ELSE d), content[p]))
    <2>1. CASE p = pos
        <3>1. Holds(cells', b, new)
            BY <1>1, <1>3, <1>8, <1>9, WrittenHolds
        <3>2. p < pos + 1
            BY <1>1, <2>1
        <3> QED
            BY <2>1, <3>1, <3>2
    <2>2. CASE p # pos
        <3>1. p < pos + 1 <=> p < pos
            BY <1>1, <2>2
        <3>2. List!Disjoint(rows[p], b)
            BY <1>1, <2>2 DEF Memory
        <3> DEFINE g == Through(Live(IF p < pos THEN id ELSE d), content[p])
        <3>3. Holds(cells, rows[p], g)
            BY <1>2 DEF Held
        <3> HIDE DEF b, new, g
        <3>4. b \in List!Block
            BY <1>1, <1>3 DEF b
        <3>5. Holds(Written(b, new), rows[p], g)
            BY <1>3, <1>8, <3>2, <3>3, <3>4, WrittenElsewhere
        <3> QED
            BY <1>9, <3>1, <3>5 DEF g
    <2> QED
        BY <2>1, <2>2
<1>11. Held(content, id, d, pos)'
    BY <1>1, <1>10 DEF Held
<1>12. Recorded(content)'
    <2>1. \A s \in 1 .. Len(sents) : Complete(s)' = Complete(s)
        BY <1>1 DEF Complete
    <2> QED
        BY <1>1, <1>2, <2>1 DEF Recorded
<1>13. Renaming(d, Keys)'
    BY <1>1, <1>2 DEF Renaming
<1> QED
    BY <1>1, <1>11, <1>12, <1>13 DEF RowsInv

LEMMA RowsEndShrink == ASSUME Typed, RowsInv, EndShrink PROVE RowsInv'
<1>1. /\ pc = "rows" /\ pc' = "ready" /\ pos > Len(rows) /\ RowsStay /\ UNCHANGED id
      /\ pos \in Nat /\ Len(rows) \in Nat
    BY DEF EndShrink, RowsStay, listVars, Typed, IInv, IdTypes, Memory
<1>2. PICK content, d : Recorded(content) /\ Held(content, id, d, pos)
    BY <1>1 DEF RowsInv
<1>3. Held(content, id, id, 1)'
    <2> SUFFICES ASSUME NEW p \in 1 .. Len(rows)
                 PROVE  Holds(cells, rows[p], Through(Live(id), content[p]))
        BY <1>1 DEF Held, RowsStay
    <2>1. p < pos
        BY <1>1
    <2> QED
        BY <1>2, <2>1 DEF Held
<1>4. Recorded(content)'
    BY <1>1, <1>2, RecordedStays
<1> QED
    BY <1>1, <1>3, <1>4 DEF RowsInv

LEMMA RowsStep == Typed /\ RowsInv /\ [Next]_vars => RowsInv'
<1> SUFFICES ASSUME Typed, RowsInv, [Next]_vars PROVE RowsInv'
    OBVIOUS
<1>1. ASSUME NEW n \in 1 .. MaxLen, Begin(n) PROVE RowsInv'
    BY <1>1, RowsBegin
<1>2. ASSUME NEW x \in Keys, GetID(x) PROVE RowsInv'
    BY <1>2, RowsGetID
<1>3. CASE ApplyRuleFails
    BY <1>3 DEF ApplyRuleFails, RowsInv
<1>4. CASE AddRow
    BY <1>4, RowsAddRow
<1>5. CASE BeginShrink
    BY <1>5, RowsBeginShrink
<1>6. CASE Erase \/ Keep
    BY <1>6, RowsPass
<1>7. CASE BeginRows
    BY <1>7, RowsBeginRows
<1>8. CASE ShrinkRow
    BY <1>8, RowsShrinkRow
<1>9. CASE EndShrink
    BY <1>9, RowsEndShrink
<1>10. CASE UNCHANGED vars
    <2>1. UNCHANGED <<pc, id, sents, cur, feature, rows, cells, pos, old2new>>
        BY <1>10 DEF vars, dicVars, listVars, shrinkVars
    <2>2. ASSUME NEW content PROVE Recorded(content)' <=> Recorded(content)
        BY <2>1 DEF Recorded, Complete
    <2>3. ASSUME NEW content, NEW d
          PROVE  /\ Held(content, id, id, 1)' <=> Held(content, id, id, 1)
                 /\ Held(content, d, d, 1)' <=> Held(content, d, d, 1)
                 /\ Held(content, id, d, pos)' <=> Held(content, id, d, pos)
        BY <2>1 DEF Held
    <2>4. Passed' = Passed
        BY <2>1 DEF Passed
    <2>5. ASSUME NEW d
          PROVE  /\ Renaming(d, Passed)' <=> Renaming(d, Passed)
                 /\ Renaming(d, Keys)' <=> Renaming(d, Keys)
        BY <2>1, <2>4 DEF Renaming
    <2>6. Pending' <=> Pending
        BY <2>1 DEF Pending, Current
    <2>7. ASSUME NEW content PROVE Reading(content)' <=> Reading(content)
        BY <2>1, <2>2, <2>3 DEF Reading
    <2> QED
        BY <2>1, <2>2, <2>3, <2>5, <2>6, <2>7 DEF RowsInv
<1> QED
    BY <1>1, <1>2, <1>3, <1>4, <1>5, <1>6, <1>7, <1>8, <1>9, <1>10 DEF Next

\* What a sentence's rows are read as.
LEMMA RowsRead == Typed /\ RowsInv => RowsFaithful
<1> SUFFICES ASSUME Typed, RowsInv, pc \in {"read", "ready"}, NEW s \in 1 .. Len(sents)
             PROVE  /\ \A c \in 0 .. sents[s].len - 1 :
                         NodeRow(sents[s], c) = Ids(sents[s].keys[c + 1])
                    /\ \A c \in 1 .. sents[s].len - 1 :
                         PathRow(sents[s], c) = Ids(sents[s].keys[sents[s].len + c])
    BY DEF RowsFaithful
<1>1. PICK content : Recorded(content) /\ Held(content, id, id, 1)
    BY DEF RowsInv, Reading
<1>2. /\ sents[s].fid \in Nat /\ sents[s].len \in 1 .. MaxLen /\ sents[s].len \in Nat
      /\ Len(sents[s].keys) = 2 * sents[s].len - 1
    BY SentenceTypes, NumbersAssumption DEF Typed, Shape
<1>3. Complete(s) = 2 * sents[s].len - 1
    BY <1>2 DEF Complete
<1>4. ASSUME NEW r \in 1 .. 2 * sents[s].len - 1
      PROVE  Row(rows[sents[s].fid + r]) = Ids(sents[s].keys[r])
    <2> DEFINE p == sents[s].fid + r
    <2>1. p \in 1 .. Len(rows) /\ content[p] = sents[s].keys[r]
        BY <1>1, <1>3 DEF Recorded
    <2> HIDE DEF p
    <2>2. Holds(cells, rows[p], Through(Live(id), content[p]))
        BY <1>1, <2>1 DEF Held
    <2>3. rows[p] \in List!Block /\ Inside(rows[p])
        BY <2>1 DEF Typed, Memory
    <2>4. Row(rows[p]) = Through(Live(id), content[p])
        BY <2>2, <2>3, RowReads
    <2> QED
        BY <2>1, <2>4 DEF Ids, Live, p
<1>5. ASSUME NEW c \in 0 .. sents[s].len - 1
      PROVE  NodeRow(sents[s], c) = Ids(sents[s].keys[c + 1])
    <2>1. c + 1 \in 1 .. 2 * sents[s].len - 1 /\ sents[s].fid + c + 1 = sents[s].fid + (c + 1)
        <3>1. \A f, n, e \in Nat : e \in 0 .. n - 1 =>
                e + 1 \in 1 .. 2 * n - 1 /\ f + e + 1 = f + (e + 1)
            OBVIOUS
        <3> DEFINE f == sents[s].fid
                   n == sents[s].len
        <3>2. c \in Nat /\ c \in 0 .. n - 1 /\ f \in Nat /\ n \in Nat
            BY <1>2
        <3> HIDE DEF f, n
        <3>3. c + 1 \in 1 .. 2 * n - 1 /\ f + c + 1 = f + (c + 1)
            BY <3>1, <3>2
        <3> QED
            BY <3>3 DEF f, n
    <2> QED
        BY <1>4, <2>1 DEF NodeRow
<1>6. ASSUME NEW c \in 1 .. sents[s].len - 1
      PROVE  PathRow(sents[s], c) = Ids(sents[s].keys[sents[s].len + c])
    <2>1. /\ sents[s].len + c \in 1 .. 2 * sents[s].len - 1
          /\ sents[s].fid + sents[s].len + (c - 1) + 1 = sents[s].fid + (sents[s].len + c)
        BY <1>2, SMTT(30)
    <2> QED
        BY <1>4, <2>1 DEF PathRow
<1> QED
    BY <1>5, <1>6

(***************************************************************************)
(* A sentence finds its own rows by its first one's number, in every pass  *)
(* over the data, with every key under the number it has now: for every    *)
(* set of templates, every option -f and every order of the sentences.     *)
(***************************************************************************)
THEOREM RowsStayFaithful == Spec => []RowsFaithful
BY TypedInit, TypedStep, RowsInit, RowsStep, RowsRead, PTL DEF Spec

=============================================================================
