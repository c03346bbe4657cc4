-------------------------- MODULE ModelFileProofs ---------------------------
(***************************************************************************)
(* Proofs about the model on disk, for every set of keys, tags and         *)
(* templates.  The double array is a trie, packed: the inductive invariant *)
(* names the node of the trie whose children begin at each place in used,  *)
(* and says that every unit that is taken leads to the node or the value   *)
(* it should, or that the loop of a call on the stack has yet to come to   *)
(* it.  Once the stack is empty a search can only walk down the trie.      *)
(***************************************************************************)
EXTENDS ModelFile, FiniteSetTheorems, TLAPS

-----------------------------------------------------------------------------
(* Numbers. *)

LEMMA LeastNat ==
    ASSUME NEW T \in SUBSET Nat, T # {}
    PROVE \E n \in T : \A m \in T : n <= m
<1> DEFINE B == {0 .. n : n \in T}
<1>1. B \subseteq FiniteSubsetsOf(Nat)
  <2>1. \A n \in T : IsFiniteSet(0 .. n) /\ 0 .. n \in SUBSET Nat
    BY FS_Interval
  <2> QED BY <2>1 DEF FiniteSubsetsOf
<1>2. B # {}
  OBVIOUS
<1>3. IsWellFoundedOn(StrictSubsetOrdering(Nat), FiniteSubsetsOf(Nat))
  BY FS_StrictSubsetOrderingWellFounded
<1> HIDE DEF B
<1>4. PICK b \in B : \A c \in B : ~(<<c, b>> \in StrictSubsetOrdering(Nat))
  BY <1>1, <1>2, <1>3, WFMin, Zenon
<1>5. PICK n \in T : b = 0 .. n
  BY DEF B
<1>6. ASSUME NEW m \in T, m < n PROVE FALSE
  <2>1. 0 .. m \in B
    BY DEF B
  <2>2. 0 .. m \subseteq 0 .. n /\ 0 .. m # 0 .. n
    <3>1. n \in 0 .. n /\ n \notin 0 .. m
      BY <1>6
    <3>2. 0 .. m \subseteq 0 .. n
      BY <1>6
    <3> QED BY <3>1, <3>2
  <2>3. <<0 .. m, 0 .. n>> \in StrictSubsetOrdering(Nat)
    <3>1. 0 .. m \in SUBSET Nat /\ 0 .. n \in SUBSET Nat
      OBVIOUS
    <3> QED BY <2>2, <3>1 DEF StrictSubsetOrdering
  <2> QED BY <1>4, <1>5, <2>1, <2>3
<1> QED BY <1>5, <1>6

LEMMA NatSetInduction ==
    ASSUME NEW T \in SUBSET Nat, 0 \in T, \A n \in T : n + 1 \in T
    PROVE  T = Nat
<1>1. SUFFICES ASSUME Nat \ T # {} PROVE FALSE
    OBVIOUS
<1>2. PICK n \in Nat \ T : \A m \in Nat \ T : n <= m
    BY <1>1, LeastNat
<1>3. n - 1 \in Nat /\ n - 1 \notin Nat \ T
    BY <1>2
<1> QED
    BY <1>2, <1>3


LEMMA MinIs ==
    ASSUME NEW T \in SUBSET Nat, T # {}
    PROVE  Min(T) \in T /\ \A m \in T : Min(T) <= m
<1>1. PICK n \in T : \A m \in T : n <= m
    BY LeastNat
<1> QED
    BY <1>1 DEF Min

LEMMA MaxIs ==
    ASSUME NEW b \in Nat, NEW T \in SUBSET (0 .. b), T # {}
    PROVE  Max(T) \in T /\ \A m \in T : m <= Max(T)
<1> DEFINE R == {b - m : m \in T}
<1>1. R \in SUBSET Nat /\ R # {}
    <2>1. \A m \in T : b - m \in Nat
        OBVIOUS
    <2> QED
        BY <2>1
<1>2. PICK n \in R : \A m \in R : n <= m
    <2> HIDE DEF R
    <2> QED
        BY <1>1, LeastNat
<1>3. b - n \in T /\ \A m \in T : m <= b - n
    BY <1>2
<1>4. \E x \in T : \A m \in T : x >= m
    BY <1>3
<1> QED
    BY <1>4 DEF Max

LEMMA MaxOfTwo ==
    ASSUME NEW a \in Nat, NEW b \in Nat
    PROVE  /\ Max({a, b}) \in Nat /\ Max({a, b}) \in {a, b}
           /\ a <= Max({a, b}) /\ b <= Max({a, b})
<1>1. \E x \in {a, b} : \A m \in {a, b} : x >= m
    OBVIOUS
<1>2. Max({a, b}) \in {a, b} /\ \A m \in {a, b} : Max({a, b}) >= m
    BY <1>1 DEF Max
<1> QED
    BY <1>2

-----------------------------------------------------------------------------
(* The trie of the keys in value. *)

IsMap(v) ==
    /\ v \in [DOMAIN v -> Int]
    /\ DOMAIN v \subseteq Seq(1 .. MaxChar) /\ DOMAIN v # {}

\* The keys that go as x does for d characters.
Agree(D, x, d) == {k \in D : d <= Len(k) /\ \A j \in 1 .. d : k[j] = x[j]}

IsNode(D, node) ==
    /\ node.depth \in Nat
    /\ node = [keys |-> node.keys, depth |-> node.depth]
    /\ node.keys \subseteq D /\ node.keys # {}
    /\ \A x \in node.keys : node.depth <= Len(x) /\ node.keys = Agree(D, x, node.depth)

Node(keys, depth) == [keys |-> keys, depth |-> depth]

CodesOf(node) == Codes(node.keys, node.depth)

Child(node, c) == Node(Below(node.keys, node.depth, c), node.depth + 1)

Keyset(D) == D \subseteq Seq(1 .. MaxChar)

LEMMA ElementOf ==
    ASSUME NEW S, NEW s \in Seq(S), NEW i \in 1 .. Len(s)
    PROVE  s[i] \in S
OBVIOUS

LEMMA CodesTyped ==
    ASSUME NEW D, Keyset(D), NEW node, IsNode(D, node)
    PROVE  /\ CodesOf(node) \subseteq 0 .. MaxChar + 1
           /\ CodesOf(node) # {}
           /\ \A x \in node.keys : CodeAt(x, node.depth) \in CodesOf(node)
<1>1. ASSUME NEW x \in node.keys PROVE CodeAt(x, node.depth) \in 0 .. MaxChar + 1
    <2>1. x \in Seq(1 .. MaxChar) /\ node.depth \in Nat /\ node.depth <= Len(x)
        BY DEF Keyset, IsNode
    <2>2. CASE node.depth = Len(x)
        BY <2>2, MaxCharAssumption DEF CodeAt
    <2>3. CASE node.depth # Len(x)
        <3>1. node.depth + 1 \in 1 .. Len(x)
            BY <2>1, <2>3
        <3>2. x[node.depth + 1] \in 1 .. MaxChar
            BY <2>1, <3>1, ElementOf
        <3> QED
            BY <2>3, <3>2, MaxCharAssumption DEF CodeAt
    <2> QED
        BY <2>2, <2>3
<1> QED
    BY <1>1 DEF CodesOf, Codes, IsNode

LEMMA AgreeAll ==
    ASSUME NEW D, Keyset(D), NEW x
    PROVE  Agree(D, x, 0) = D
<1>1. \A k \in D : Len(k) \in Nat
    BY DEF Keyset
<1> QED
    BY <1>1 DEF Agree

LEMMA RootNode ==
    ASSUME NEW D, Keyset(D), D # {}
    PROVE  IsNode(D, Node(D, 0))
<1>1. ASSUME NEW x \in D PROVE 0 <= Len(x) /\ D = Agree(D, x, 0)
    <2>1. Len(x) \in Nat
        BY DEF Keyset
    <2> QED
        BY <2>1, AgreeAll
<1> QED
    BY <1>1 DEF IsNode, Node

\* The keys of a node that have a character c - 1 next.
LEMMA ChildIs ==
    ASSUME NEW D, Keyset(D), NEW node, IsNode(D, node), NEW c, c # 0,
           NEW x \in node.keys, CodeAt(x, node.depth) = c
    PROVE  /\ Below(node.keys, node.depth, c) = Agree(D, x, node.depth + 1)
           /\ node.depth + 1 <= Len(x) /\ x[node.depth + 1] = c - 1
<1> DEFINE d == node.depth
<1>1. d \in Nat /\ x \in D /\ d <= Len(x) /\ node.keys = Agree(D, x, d) /\ x \in Seq(1 .. MaxChar)
    BY DEF IsNode, Keyset
<1>2. d # Len(x) /\ c = x[d + 1] + 1 /\ x[d + 1] \in 1 .. MaxChar /\ d + 1 <= Len(x)
    <2>1. d # Len(x) /\ c = x[d + 1] + 1
        BY DEF CodeAt
    <2>2. Len(x) \in Nat /\ d + 1 \in 1 .. Len(x)
        BY <1>1, <2>1
    <2>3. x[d + 1] \in 1 .. MaxChar
        BY <1>1, <2>2, ElementOf
    <2> QED
        BY <2>1, <2>2, <2>3
<1>3. ASSUME NEW k \in D
      PROVE  k \in Below(node.keys, d, c) <=> k \in Agree(D, x, d + 1)
    <2>1. k \in Seq(1 .. MaxChar) /\ Len(k) \in Nat
        BY DEF Keyset
    <2>2. ASSUME k \in Below(node.keys, d, c) PROVE k \in Agree(D, x, d + 1)
        <3>1. k \in Agree(D, x, d) /\ CodeAt(k, d) = c
            BY <1>1, <2>2 DEF Below
        <3>2. d # Len(k) /\ k[d + 1] + 1 = x[d + 1] + 1
            BY <1>2, <3>1 DEF CodeAt
        <3>3. d + 1 <= Len(k)
            BY <1>1, <2>1, <3>1, <3>2 DEF Agree
        <3>4. k[d + 1] \in 1 .. MaxChar
            <4>1. d + 1 \in 1 .. Len(k)
                BY <1>1, <2>1, <3>3
            <4> QED
                BY <2>1, <4>1, ElementOf
        <3>5. k[d + 1] = x[d + 1]
            BY <1>2, <3>2, <3>4
        <3>6. \A j \in 1 .. d + 1 : j \in 1 .. d \/ j = d + 1
            BY <1>1
        <3> QED
            BY <3>1, <3>3, <3>5, <3>6 DEF Agree
    <2>3. ASSUME k \in Agree(D, x, d + 1) PROVE k \in Below(node.keys, d, c)
        <3>1. d + 1 <= Len(k) /\ k[d + 1] = x[d + 1] /\ \A j \in 1 .. d : k[j] = x[j]
            BY <1>1, <2>3 DEF Agree
        <3>2. d # Len(k) /\ d <= Len(k)
            BY <1>1, <2>1, <3>1
        <3>3. k \in Agree(D, x, d) /\ CodeAt(k, d) = c
            BY <1>2, <3>1, <3>2 DEF Agree, CodeAt
        <3> QED
            BY <1>1, <3>3 DEF Below
    <2> QED
        BY <2>2, <2>3
<1>4. Below(node.keys, d, c) \subseteq D /\ Agree(D, x, d + 1) \subseteq D
    BY DEF Below, Agree, IsNode
<1>5. Below(node.keys, d, c) = Agree(D, x, d + 1)
    BY <1>3, <1>4
<1>6. x[d + 1] = c - 1
    BY <1>2
<1> QED
    BY <1>2, <1>5, <1>6

LEMMA ChildNode ==
    ASSUME NEW D, Keyset(D), NEW node, IsNode(D, node), NEW c \in CodesOf(node), c # 0
    PROVE  IsNode(D, Child(node, c))
<1> DEFINE K == Below(node.keys, node.depth, c)
           d == node.depth
<1>1. K \subseteq D /\ K # {} /\ d + 1 \in Nat
    BY DEF IsNode, Below, CodesOf, Codes
<1>2. ASSUME NEW x \in K PROVE d + 1 <= Len(x) /\ K = Agree(D, x, d + 1)
    BY ChildIs DEF Below
<1> QED
    BY <1>1, <1>2 DEF IsNode, Child, Node

-----------------------------------------------------------------------------
(* The array holds the children of the nodes that begin at used. *)

\* The unit for code c of the node that begins at b.
Holds(b, c) ==
    b + c \in DOMAIN units /\ units[b + c].check = b /\ b + c < size

Cells(node) ==
    /\ used \subseteq Nat \ {0}
    /\ size \in Nat /\ next_check_pos \in Nat
    /\ DOMAIN units \subseteq Nat /\ 0 \in DOMAIN units
    /\ units[0] = [base |-> 1, check |-> 0]
    /\ \A p \in DOMAIN units : units[p] \in [base : Int, check : Nat]
    /\ \A b \in used : IsNode(DOMAIN value, node[b])
    /\ \A b \in used : \A c \in CodesOf(node[b]) : Holds(b, c)
    /\ \A p \in DOMAIN units \ {0} :
         /\ units[p].check \in used
         /\ p - units[p].check \in CodesOf(node[units[p].check])

\* What a call of insert finds and leaves.
Placed(new, b) ==
    /\ b \in Nat \ {0} /\ b \notin used
    /\ \A c \in CodesOf(new) : b + c \notin DOMAIN units
    /\ units' = [p \in DOMAIN units \cup {b + c : c \in CodesOf(new)} |->
                    IF p \in {b + c : c \in CodesOf(new)}
                    THEN [base |-> 0, check |-> b] ELSE units[p]]
    /\ used' = used \cup {b}
    /\ size' \in Nat /\ size <= size' /\ \A c \in CodesOf(new) : b + c < size'
    /\ next_check_pos' \in Nat
    /\ stack' = Append(stack, [keys |-> new.keys, depth |-> new.depth, begin |-> b,
                               left |-> CodesOf(new)])
    /\ value' = value /\ error' = error

\* Everything in the array lies below size.
LEMMA BelowSize ==
    ASSUME NEW node, Keyset(DOMAIN value), Cells(node)
    PROVE  /\ \A b \in used : b < size
           /\ \A p \in DOMAIN units \ {0} : p < size
<1>1. ASSUME NEW b \in used PROVE b < size
    <2>1. PICK c \in CodesOf(node[b]) : TRUE
        BY CodesTyped DEF Cells
    <2>2. c \in 0 .. MaxChar + 1 /\ Holds(b, c)
        BY <2>1, CodesTyped DEF Cells
    <2> QED
        BY <2>2, MaxCharAssumption DEF Holds, Cells
<1>2. ASSUME NEW p \in DOMAIN units \ {0} PROVE p < size
    <2> DEFINE b == units[p].check
    <2>1. b \in used /\ p - b \in CodesOf(node[b])
        BY DEF Cells
    <2>2. b \in Nat /\ p \in Nat
        BY <2>1 DEF Cells
    <2> HIDE DEF b
    <2>3. Holds(b, p - b)
        BY <2>1 DEF Cells
    <2>4. b + (p - b) = p
        BY <2>2
    <2> QED
        BY <2>3, <2>4 DEF Holds
<1> QED
    BY <1>1, <1>2

LEMMA InsertPlaces ==
    ASSUME NEW node, Keyset(DOMAIN value), Cells(node),
           NEW new, IsNode(DOMAIN value, new), Insert(new.keys, new.depth)
    PROVE  \E b : Placed(new, b) /\ (used = {} /\ next_check_pos = 0 => b = 1)
<1> DEFINE cs == CodesOf(new)
           m == Min(cs)
           from == Max({m + 1, next_check_pos})
           top == Max({from, size})
           room == from .. top + MaxChar + 2
           T == {p \in room : Fits(cs, p)}
           F == {p \in room : CheckOf(units, p) = 0}
           pos == Min(T)
           free == Min(F)
           taken == Cardinality({p \in from .. pos : CheckOf(units, p) # 0})
           b == pos - m
<1>1. /\ units' = [p \in DOMAIN units \cup {b + c : c \in cs} |->
                     IF p \in {b + c : c \in cs}
                     THEN [base |-> 0, check |-> b] ELSE units[p]]
      /\ used' = used \cup {b}
      /\ size' = Max({size, b + Max(cs) + 1})
      /\ next_check_pos' = IF 100 * taken >= 95 * (pos - free + 1) THEN pos ELSE free
      /\ stack' = Append(stack, [keys |-> new.keys, depth |-> new.depth, begin |-> b,
                                 left |-> cs])
      /\ value' = value /\ error' = error
    BY DEF Insert, CodesOf
<1>2. /\ m \in cs /\ (\A c \in cs : c \in 0 .. MaxChar + 1 /\ m <= c)
      /\ Max(cs) \in cs /\ \A c \in cs : c <= Max(cs)
    <2>1. cs \subseteq 0 .. MaxChar + 1 /\ cs # {} /\ cs \in SUBSET Nat /\ MaxChar + 1 \in Nat
        BY CodesTyped, MaxCharAssumption
    <2> HIDE DEF cs
    <2> QED
        BY <2>1, MinIs, MaxIs
<1>3. size \in Nat /\ next_check_pos \in Nat
    BY DEF Cells
<1> HIDE DEF cs, m, taken
<1>4. m \in Nat /\ m <= MaxChar + 1 /\ MaxChar \in Nat
    BY <1>2, MaxCharAssumption
<1>5. from \in Nat /\ from >= m + 1 /\ (next_check_pos = 0 => from = m + 1)
    BY <1>3, <1>4, MaxOfTwo
<1> HIDE DEF from
<1>6. top \in Nat /\ from <= top /\ size <= top
    BY <1>3, <1>5, MaxOfTwo
<1> HIDE DEF top
<1>7. room \subseteq Nat /\ top + MaxChar + 2 \in room /\ from \in room
      /\ \A p \in room : p \in Nat /\ p >= from
    BY <1>4, <1>5, <1>6
<1>8. \E p \in room : Fits(cs, p)
    <2> DEFINE p == top + MaxChar + 2
               e == p - m
    <2>1. e \in Nat /\ e > size /\ p - Min(cs) = e /\ p \in room
        BY <1>3, <1>4, <1>6, <1>7 DEF m
    <2> HIDE DEF e, p
    <2>2. e \notin used
        BY <1>3, <2>1, BelowSize DEF Cells
    <2>3. ASSUME NEW c \in cs PROVE CheckOf(units, e + c) = 0
        <3>1. e + c > size /\ e + c # 0 /\ e + c \in Nat
            BY <1>2, <1>3, <2>1
        <3>2. e + c \notin DOMAIN units
            BY <1>3, <3>1, BelowSize
        <3> QED
            BY <3>2 DEF CheckOf
    <2>4. Fits(cs, p)
        BY <2>1, <2>2, <2>3 DEF Fits
    <2> QED
        BY <2>1, <2>4
<1> HIDE DEF room
<1>9. pos \in T /\ \A p \in T : pos <= p
    <2>1. T \in SUBSET Nat /\ T # {}
        BY <1>7, <1>8
    <2> HIDE DEF T
    <2> QED
        BY <2>1, MinIs
<1>10. pos \in Nat /\ pos >= from /\ Fits(cs, pos)
    BY <1>7, <1>9
<1> HIDE DEF pos
<1>11. b \in Nat \ {0} /\ pos = b + m
    BY <1>4, <1>5, <1>10
<1>12. b \notin used /\ \A c \in cs : CheckOf(units, b + c) = 0
    BY <1>10 DEF Fits, m
<1> HIDE DEF b
<1>13. ASSUME NEW c \in cs PROVE b + c \notin DOMAIN units
    <2>1. b + c # 0 /\ CheckOf(units, b + c) = 0
        BY <1>2, <1>11, <1>12
    <2> SUFFICES ASSUME b + c \in DOMAIN units \ {0} PROVE FALSE
        BY <2>1
    <2>2. units[b + c].check \in used
        BY DEF Cells
    <2> QED
        BY <2>1, <2>2 DEF CheckOf, Cells
<1>14. next_check_pos' \in Nat
    <2>1. pos \in F
        BY <1>2, <1>9, <1>11, <1>12
    <2>2. F \in SUBSET Nat /\ F # {}
        BY <1>7, <2>1
    <2> HIDE DEF F
    <2>3. free \in Nat
        BY <2>2, MinIs
    <2> HIDE DEF free
    <2> QED
        BY <1>1, <1>10, <2>3
<1>15. size' \in Nat /\ size <= size' /\ \A c \in cs : b + c < size'
    <2>1. Max(cs) \in Nat
        BY <1>2
    <2>2. b + Max(cs) + 1 \in Nat
        BY <1>11, <2>1
    <2>3. size' \in Nat /\ size <= size' /\ b + Max(cs) + 1 <= size'
        BY <1>1, <1>3, <2>2, MaxOfTwo
    <2> QED
        BY <1>2, <1>11, <2>1, <2>3
<1>16. ASSUME used = {}, next_check_pos = 0 PROVE b = 1
    <2>1. from = m + 1
        BY <1>5, <1>16
    <2>2. \A c \in cs : CheckOf(units, 1 + c) = 0
        <3>1. \A c \in cs : 1 + c # 0
            BY <1>2
        <3>2. DOMAIN units = {0}
            BY <1>16 DEF Cells
        <3> QED
            BY <3>1, <3>2 DEF CheckOf
    <2>3. from - m = 1
        BY <1>4, <2>1
    <2>4. Fits(cs, from)
        BY <1>16, <2>2, <2>3 DEF Fits, m
    <2>5. from \in T
        BY <1>7, <2>4
    <2>6. pos <= from
        BY <1>9, <2>5
    <2> QED
        BY <1>4, <1>5, <1>10, <1>11, <2>1, <2>6
<1>17. Placed(new, b)
    BY <1>1, <1>11, <1>12, <1>13, <1>14, <1>15 DEF Placed, cs
<1> QED
    BY <1>16, <1>17

-----------------------------------------------------------------------------
(* What the units lead to, and the calls at work. *)

\* The unit for code c of the node at b has its base.
Linked(node, b, c) ==
    /\ c = 0 => \E k \in Below(node[b].keys, node[b].depth, 0) :
                   units[b + c].base = -value[k] - 1 /\ value[k] >= 0
    /\ c # 0 => /\ units[b + c].base \in used
                /\ node[units[b + c].base] = Child(node[b], c)

\* The loop of a call has yet to come to it.
Pending(b, c) ==
    \E i \in 1 .. Len(stack) : stack[i].begin = b /\ c \in stack[i].left

Links(node) ==
    \A b \in used : \A c \in CodesOf(node[b]) : Pending(b, c) \/ Linked(node, b, c)

Frame == [keys : SUBSET DOMAIN value, depth : Nat, begin : Nat, left : SUBSET Nat]

\* A call is for the node it has placed, and its caller waits for it at
\* the first of the codes it has left.
IsCall(node, call) ==
    /\ call.begin \in used
    /\ node[call.begin] = Node(call.keys, call.depth)
    /\ call.left \subseteq CodesOf(node[call.begin])

Calls(node) ==
    /\ stack \in Seq(Frame)
    /\ \A i \in 1 .. Len(stack) : IsCall(node, stack[i])
    /\ \A i \in 1 .. Len(stack) - 1 :
         /\ stack[i].left # {} /\ 0 \notin stack[i].left
         /\ node[stack[i + 1].begin] = Child(node[stack[i].begin], Min(stack[i].left))

\* The root is where a search begins, and a search never leaves the array.
Rooted(node) ==
    /\ used # {} => 1 \in used /\ node[1] = Node(DOMAIN value, 0)
    /\ used # {} /\ stack = <<>> => \A b \in used : b + Margin < size

Tree(node) == Cells(node) /\ Calls(node) /\ Links(node) /\ Rooted(node)

\* What begins where, with one more node.
Grown(node, b, new) == [x \in used \cup {b} |-> IF x = b THEN new ELSE node[x]]

LEMMA GrownAt ==
    ASSUME NEW node, NEW b, NEW new, NEW n2, n2 = Grown(node, b, new), b \notin used
    PROVE  n2[b] = new /\ \A x \in used : n2[x] = node[x]
BY DEF Grown

LEMMA PlacedCells ==
    ASSUME NEW node, IsMap(value), Cells(node), NEW new, IsNode(DOMAIN value, new),
           NEW b, Placed(new, b), NEW n2,
           n2 = Grown(node, b, new)
    PROVE  Cells(n2)'
<1>k. Keyset(DOMAIN value)
    BY DEF IsMap, Keyset
<1>1. n2[b] = new /\ \A x \in used : n2[x] = node[x]
    BY GrownAt DEF Placed
<1> DEFINE cells == {b + c : c \in CodesOf(new)}
<1>2. /\ \A c \in CodesOf(new) : c \in Nat /\ b + c \in cells /\ b + c \in Nat /\ b + c # 0
      /\ \A p \in cells : p \in Nat /\ p # 0 /\ p - b \in CodesOf(new) /\ p \notin DOMAIN units
    <2>1. CodesOf(new) \subseteq 0 .. MaxChar + 1 /\ b \in Nat \ {0}
        BY <1>k, CodesTyped DEF Placed
    <2>2. \A c \in CodesOf(new) : c \in Nat /\ b + c \in Nat /\ b + c # 0 /\ (b + c) - b = c
        BY <2>1
    <2> QED
        BY <2>1, <2>2 DEF Placed
<1>3. /\ DOMAIN units' = DOMAIN units \cup cells
      /\ \A p \in cells : units'[p] = [base |-> 0, check |-> b]
      /\ \A p \in DOMAIN units : units'[p] = units[p]
    <2>1. units' = [p \in DOMAIN units \cup cells |->
                     IF p \in cells THEN [base |-> 0, check |-> b] ELSE units[p]]
        BY DEF Placed
    <2> HIDE DEF cells
    <2> QED
        BY <1>2, <2>1
<1> HIDE DEF cells
<1>4. used' = used \cup {b} /\ value' = value /\ b \in Nat \ {0} /\ b \notin used
      /\ size' \in Nat /\ next_check_pos' \in Nat /\ size <= size' /\ size \in Nat
      /\ \A c \in CodesOf(new) : b + c < size'
    BY DEF Placed, Cells
<1>5. /\ used' \subseteq Nat \ {0}
      /\ DOMAIN units' \subseteq Nat /\ 0 \in DOMAIN units'
      /\ units'[0] = [base |-> 1, check |-> 0]
      /\ \A x \in used' : IsNode(DOMAIN value, n2[x])
    BY <1>1, <1>2, <1>3, <1>4 DEF Cells
<1>6. \A p \in DOMAIN units' : units'[p] \in [base : Int, check : Nat]
    <2>1. [base |-> 0, check |-> b] \in [base : Int, check : Nat]
        BY <1>4
    <2>2. \A p \in DOMAIN units : units[p] \in [base : Int, check : Nat]
        BY DEF Cells
    <2> QED
        BY <1>3, <2>1, <2>2
<1>7. ASSUME NEW x \in used', NEW c \in CodesOf(n2[x]) PROVE Holds(x, c)'
    <2>1. CASE x = b
        <3>1. c \in CodesOf(new) /\ b + c \in cells /\ b + c < size'
            BY <1>1, <1>2, <1>4, <1>7, <2>1
        <3>2. b + c \in DOMAIN units' /\ units'[b + c].check = b
            BY <1>3, <3>1
        <3> QED
            BY <2>1, <3>1, <3>2 DEF Holds
    <2>2. CASE x \in used
        <3>1. c \in CodesOf(node[x]) /\ Holds(x, c)
            BY <1>1, <1>7, <2>2 DEF Cells
        <3>2. x + c \in DOMAIN units /\ units[x + c].check = x /\ x + c < size
            BY <3>1 DEF Holds
        <3>3. x + c \in Nat
            BY <3>2 DEF Cells
        <3>4. x + c < size'
            BY <1>4, <3>2, <3>3
        <3> QED
            BY <1>3, <3>2, <3>4 DEF Holds
    <2> QED
        BY <1>4, <2>1, <2>2
<1>8. ASSUME NEW p \in DOMAIN units' \ {0}
      PROVE  units'[p].check \in used' /\ p - units'[p].check \in CodesOf(n2[units'[p].check])
    <2>1. CASE p \in cells
        BY <1>1, <1>2, <1>3, <1>4, <2>1
    <2>2. CASE p \in DOMAIN units
        <3>1. units'[p] = units[p] /\ units[p].check \in used
              /\ p - units[p].check \in CodesOf(node[units[p].check])
            BY <1>3, <2>2 DEF Cells
        <3> QED
            BY <1>1, <1>4, <3>1
    <2> QED
        BY <1>3, <2>1, <2>2
<1> QED
    BY <1>4, <1>5, <1>6, <1>7, <1>8 DEF Cells

LEMMA PlacedLinks ==
    ASSUME NEW node, IsMap(value), Cells(node), Calls(node), Links(node),
           NEW new, IsNode(DOMAIN value, new),
           NEW b, Placed(new, b), NEW n2,
           n2 = Grown(node, b, new)
    PROVE  Links(n2)'
<1>1. n2[b] = new /\ \A x \in used : n2[x] = node[x]
    BY GrownAt DEF Placed
<1>2. used' = used \cup {b} /\ value' = value /\ b \notin used
      /\ \A p \in DOMAIN units : p \notin {b + c : c \in CodesOf(new)} => units'[p] = units[p]
    BY DEF Placed
<1>3. \A p \in DOMAIN units : units'[p] = units[p]
    BY <1>2 DEF Placed
<1>4. /\ Len(stack) \in Nat /\ Len(stack') = Len(stack) + 1
      /\ \A i \in 1 .. Len(stack) : stack'[i] = stack[i]
      /\ stack'[Len(stack) + 1] = [keys |-> new.keys, depth |-> new.depth, begin |-> b,
                                   left |-> CodesOf(new)]
    <2>1. stack \in Seq(Frame)
        BY DEF Calls
    <2> QED
        BY <2>1 DEF Placed
<1>5. ASSUME NEW x \in used, NEW c \in CodesOf(node[x])
      PROVE  Pending(x, c)' \/ Linked(n2, x, c)'
    <2>1. CASE Pending(x, c)
        <3>1. PICK i \in 1 .. Len(stack) : stack[i].begin = x /\ c \in stack[i].left
            BY <2>1 DEF Pending
        <3>2. i \in 1 .. Len(stack')
            BY <1>4
        <3> QED
            BY <1>4, <3>1, <3>2 DEF Pending
    <2>2. CASE Linked(node, x, c)
        <3>1. x + c \in DOMAIN units
            BY DEF Cells, Holds
        <3>2. units'[x + c] = units[x + c] /\ n2[x] = node[x]
            BY <1>1, <1>3, <3>1
        <3>3. c = 0 => \E k \in Below(n2[x].keys, n2[x].depth, 0) :
                 units'[x + c].base = -value[k] - 1 /\ value[k] >= 0
            BY <2>2, <3>2 DEF Linked
        <3>4. c # 0 => /\ units'[x + c].base \in used'
                       /\ n2[units'[x + c].base] = Child(n2[x], c)
            BY <1>1, <1>2, <2>2, <3>2 DEF Linked
        <3> QED
            BY <1>2, <3>3, <3>4 DEF Linked
    <2> QED
        BY <2>1, <2>2 DEF Links
<1>6. ASSUME NEW c \in CodesOf(new) PROVE Pending(b, c)'
    <2>1. Len(stack) + 1 \in 1 .. Len(stack')
        BY <1>4
    <2> QED
        BY <1>4, <2>1 DEF Pending
<1> QED
    BY <1>1, <1>2, <1>5, <1>6 DEF Links

LEMMA PlacedCalls ==
    ASSUME NEW node, IsMap(value), Cells(node), Calls(node),
           NEW new, IsNode(DOMAIN value, new),
           stack # <<>> => /\ Top.left # {} /\ 0 \notin Top.left
                           /\ new = Child(node[Top.begin], Min(Top.left)),
           NEW b, Placed(new, b), NEW n2,
           n2 = Grown(node, b, new)
    PROVE  Calls(n2)'
<1>1. n2[b] = new /\ \A x \in used : n2[x] = node[x]
    BY GrownAt DEF Placed
<1>2. used' = used \cup {b} /\ value' = value /\ b \in Nat
    BY DEF Placed
<1> DEFINE f == [keys |-> new.keys, depth |-> new.depth, begin |-> b, left |-> CodesOf(new)]
           n == Len(stack)
<1>3. stack \in Seq(Frame) /\ n \in Nat
    BY DEF Calls
<1>4. f \in Frame
    <2>1. Keyset(DOMAIN value)
        BY DEF IsMap, Keyset
    <2>2. CodesOf(new) \subseteq Nat
        BY <2>1, CodesTyped
    <2>3. new.keys \subseteq DOMAIN value /\ new.depth \in Nat
        BY DEF IsNode
    <2> QED
        BY <1>2, <2>2, <2>3 DEF Frame
<1>5. stack' = Append(stack, f) /\ Frame' = Frame
    BY <1>2 DEF Placed, Frame
<1>6. IsCall(n2, f)'
    <2>1. new = Node(new.keys, new.depth)
        BY DEF IsNode, Node
    <2> QED
        BY <1>1, <1>2, <2>1 DEF IsCall
<1>7. f.begin = b
    OBVIOUS
<1> HIDE DEF f
<1>8. /\ stack' \in Seq(Frame') /\ Len(stack') = n + 1
      /\ \A i \in 1 .. n : stack'[i] = stack[i]
      /\ stack'[n + 1] = f
    BY <1>3, <1>4, <1>5
<1>9. ASSUME NEW i \in 1 .. Len(stack') PROVE IsCall(n2, stack[i])'
    <2>1. CASE i = n + 1
        BY <1>6, <1>8, <2>1 DEF IsCall
    <2>2. CASE i \in 1 .. n
        <3>1. IsCall(node, stack[i])
            BY <2>2 DEF Calls
        <3> QED
            BY <1>1, <1>2, <1>8, <2>2, <3>1 DEF IsCall
    <2> QED
        BY <1>3, <1>8, <2>1, <2>2
<1>10. ASSUME NEW i \in 1 .. Len(stack') - 1
       PROVE  /\ stack'[i].left # {} /\ 0 \notin stack'[i].left
              /\ n2[stack'[i + 1].begin] = Child(n2[stack'[i].begin], Min(stack'[i].left))
    <2>1. i \in 1 .. n /\ stack'[i] = stack[i] /\ IsCall(node, stack[i])
        BY <1>3, <1>8 DEF Calls
    <2>2. n2[stack'[i].begin] = node[stack[i].begin]
        BY <1>1, <2>1 DEF IsCall
    <2>3. CASE i = n
        <3>1. stack # <<>> /\ Top = stack[i]
            BY <1>3, <2>1, <2>3 DEF Top
        <3>2. stack'[i + 1] = f
            BY <1>8, <2>3
        <3> QED
            BY <1>1, <1>7, <2>1, <2>2, <3>1, <3>2
    <2>4. CASE i # n
        <3>1. i \in 1 .. n - 1 /\ i + 1 \in 1 .. n
            BY <1>3, <2>1, <2>4
        <3>2. /\ stack[i].left # {} /\ 0 \notin stack[i].left
              /\ node[stack[i + 1].begin] = Child(node[stack[i].begin], Min(stack[i].left))
            BY <3>1 DEF Calls
        <3>3. stack'[i + 1] = stack[i + 1] /\ stack[i + 1].begin \in used
            BY <1>8, <3>1 DEF Calls, IsCall
        <3> QED
            BY <1>1, <2>1, <2>2, <3>2, <3>3
    <2> QED
        BY <2>3, <2>4
<1> QED
    BY <1>8, <1>9, <1>10 DEF Calls

LEMMA InsertStep ==
    ASSUME NEW node, IsMap(value), Tree(node),
           NEW new, IsNode(DOMAIN value, new), Insert(new.keys, new.depth),
           stack # <<>> => /\ Top.left # {} /\ 0 \notin Top.left
                           /\ new = Child(node[Top.begin], Min(Top.left)),
           used = {} => new = Node(DOMAIN value, 0) /\ next_check_pos = 0
    PROVE  \E n2 : Tree(n2)'
<1>1. Cells(node) /\ Calls(node) /\ Links(node) /\ Rooted(node) /\ Keyset(DOMAIN value)
    BY DEF Tree, IsMap, Keyset
<1>2. PICK b : Placed(new, b) /\ (used = {} /\ next_check_pos = 0 => b = 1)
    BY <1>1, InsertPlaces
<1>4. PICK n2 : n2 = Grown(node, b, new)
    OBVIOUS
<1>3. n2[b] = new /\ (\A x \in used : n2[x] = node[x]) /\ value' = value
      /\ used' = used \cup {b} /\ b \notin used
    BY <1>2, <1>4, GrownAt DEF Placed
<1>5. Cells(n2)' /\ Calls(n2)' /\ Links(n2)'
    <2>1. Cells(n2)'
        BY <1>1, <1>2, <1>4, PlacedCells
    <2>2. Calls(n2)'
        BY <1>1, <1>2, <1>4, PlacedCalls
    <2>3. Links(n2)'
        BY <1>1, <1>2, <1>4, PlacedLinks
    <2> QED
        BY <2>1, <2>2, <2>3
<1>6. stack' # <<>>
    <2>1. stack \in Seq(Frame)
        BY <1>1 DEF Calls
    <2> QED
        BY <1>2, <2>1 DEF Placed
<1>7. 1 \in used' /\ n2[1] = Node(DOMAIN value, 0)
    BY <1>1, <1>2, <1>3 DEF Rooted
<1>8. Rooted(n2)'
    <2>1. n2[1] = Node(DOMAIN value', 0)
        BY <1>3, <1>7
    <2> QED
        BY <1>6, <1>7, <2>1 DEF Rooted
<1> QED
    BY <1>5, <1>8 DEF Tree

LEMMA LeafStep ==
    ASSUME NEW node, IsMap(value), Tree(node), Leaf, error' = 0
    PROVE  Tree(node)'
<1>1. Cells(node) /\ Calls(node) /\ Links(node) /\ Rooted(node)
    BY DEF Tree
<1>0. PICK n, top, b : n = Len(stack) /\ top = stack[n] /\ b = top.begin
    OBVIOUS
<1>2. stack \in Seq(Frame) /\ n \in 1 .. n /\ stack # <<>> /\ 0 \in top.left
      /\ top \in Frame /\ n \in Nat
    <2>1. stack \in Seq(Frame) /\ stack # <<>> /\ 0 \in top.left
        BY <1>0, <1>1 DEF Leaf, Top, Calls
    <2>2. n \in Nat /\ n # 0
        BY <1>0, <2>1
    <2> QED
        BY <1>0, <2>1, <2>2, ElementOf
<1>3. PICK key \in Below(top.keys, top.depth, 0) :
        /\ units' = [units EXCEPT ![b].base = -value[key] - 1]
        /\ error' = IF -value[key] - 1 >= 0 THEN -2 ELSE error
    BY <1>0 DEF Leaf, Top
<1>4. /\ stack' = [stack EXCEPT ![n].left = @ \ {0}]
      /\ value' = value /\ used' = used /\ size' = size /\ next_check_pos' = next_check_pos
    BY <1>0 DEF Leaf
<1>5. IsCall(node, top) /\ b \in used /\ b \in Nat \ {0} /\ 0 \in CodesOf(node[b])
      /\ node[b] = Node(top.keys, top.depth)
    BY <1>0, <1>1, <1>2 DEF Calls, IsCall, Cells
<1>6. b \in DOMAIN units /\ units[b].check = b /\ b + 0 = b
    <2>1. Holds(b, 0) /\ b + 0 = b
        BY <1>1, <1>5 DEF Cells
    <2> QED
        BY <2>1 DEF Holds
<1>7. key \in DOMAIN value /\ value[key] \in Int
    <2>1. top.keys \subseteq DOMAIN value
        BY <1>2 DEF Frame
    <2> QED
        BY <1>3, <2>1 DEF Below, IsMap
<1>8. value[key] >= 0
    BY <1>3, <1>7
<1>9. /\ DOMAIN units' = DOMAIN units
      /\ units'[b] = [base |-> -value[key] - 1, check |-> b]
      /\ \A p \in DOMAIN units : p # b => units'[p] = units[p]
      /\ \A p \in DOMAIN units : units'[p].check = units[p].check
    <2>1. units[b] \in [base : Int, check : Nat]
        BY <1>1, <1>6 DEF Cells
    <2>2. DOMAIN units' = DOMAIN units /\ units'[b] = [units[b] EXCEPT !.base = -value[key] - 1]
          /\ \A p \in DOMAIN units : p # b => units'[p] = units[p]
        BY <1>3, <1>6
    <2>3. units'[b] = [base |-> -value[key] - 1, check |-> b]
        BY <1>6, <2>1, <2>2
    <2> QED
        BY <1>6, <2>2, <2>3
<1>10. Cells(node)'
    <2>1. units'[b] \in [base : Int, check : Nat]
        BY <1>5, <1>7, <1>9
    <2>2. \A p \in DOMAIN units' : units'[p] \in [base : Int, check : Nat]
        BY <1>1, <1>9, <2>1 DEF Cells
    <2>3. units'[0] = [base |-> 1, check |-> 0]
        BY <1>1, <1>5, <1>9 DEF Cells
    <2>4. ASSUME NEW x \in used, NEW c \in CodesOf(node[x]) PROVE Holds(x, c)'
        <3>1. Holds(x, c)
            BY <1>1 DEF Cells
        <3> QED
            BY <1>4, <1>9, <3>1 DEF Holds
    <2> QED
        BY <1>1, <1>4, <1>9, <2>2, <2>3, <2>4 DEF Cells
<1>11. /\ Len(stack') = n
       /\ \A i \in 1 .. n : i # n => stack'[i] = stack[i]
       /\ stack'[n] = [top EXCEPT !.left = @ \ {0}]
    <2>1. stack' = [i \in 1 .. n |-> IF i = n THEN [top EXCEPT !.left = @ \ {0}] ELSE stack[i]]
        <3>1. stack \in [1 .. n -> Frame]
            BY <1>0, <1>2
        <3> QED
            BY <1>0, <1>4, <3>1
    <2> QED
        BY <1>2, <2>1
<1>12. /\ stack'[n] \in Frame /\ stack'[n].keys = top.keys /\ stack'[n].depth = top.depth
       /\ stack'[n].begin = top.begin /\ stack'[n].left = top.left \ {0}
    BY <1>2, <1>11 DEF Frame
<1>13. Calls(node)'
    <2>1. Frame' = Frame
        BY <1>4 DEF Frame
    <2>2. stack' \in Seq(Frame)
        BY <1>2, <1>4, <1>11, <1>12
    <2>3. ASSUME NEW i \in 1 .. n PROVE IsCall(node, stack[i])'
        <3>1. IsCall(node, stack[i])
            BY <1>0, <1>1 DEF Calls
        <3> QED
            BY <1>0, <1>4, <1>11, <1>12, <3>1 DEF IsCall
    <2>4. ASSUME NEW i \in 1 .. n - 1
          PROVE  /\ stack'[i].left # {} /\ 0 \notin stack'[i].left
                 /\ node[stack'[i + 1].begin] = Child(node[stack'[i].begin], Min(stack'[i].left))
        <3>1. i \in 1 .. n /\ i # n /\ i + 1 \in 1 .. n
            BY <1>2
        <3>2. stack'[i] = stack[i] /\ stack'[i + 1].begin = stack[i + 1].begin
            BY <1>0, <1>11, <1>12, <3>1
        <3> QED
            BY <1>0, <1>1, <3>2 DEF Calls
    <2> QED
        BY <1>11, <2>1, <2>2, <2>3, <2>4 DEF Calls
<1>14. Linked(node, b, 0)'
    <2>1. units'[b + 0].base = -value'[key] - 1 /\ value'[key] >= 0
        BY <1>4, <1>6, <1>8, <1>9
    <2>2. key \in Below(node[b].keys, node[b].depth, 0)
        BY <1>3, <1>5 DEF Node
    <2>3. \E k \in Below(node[b].keys, node[b].depth, 0) :
            units'[b + 0].base = -value'[k] - 1 /\ value'[k] >= 0
        BY <2>1, <2>2
    <2> QED
        BY <2>3 DEF Linked
<1>15. ASSUME NEW x \in used, NEW c \in CodesOf(node[x])
       PROVE  Pending(x, c)' \/ Linked(node, x, c)'
    <2>1. CASE x = b /\ c = 0
        BY <1>14, <2>1 DEF Linked
    <2>2. ASSUME ~(x = b /\ c = 0), Pending(x, c) PROVE Pending(x, c)'
        <3>1. PICK i \in 1 .. n : stack[i].begin = x /\ c \in stack[i].left
            BY <1>0, <2>2 DEF Pending
        <3>2. stack'[i].begin = x /\ c \in stack'[i].left
            BY <1>0, <1>11, <1>12, <2>2, <3>1
        <3> QED
            BY <1>11, <3>1, <3>2 DEF Pending
    <2>3. ASSUME ~(x = b /\ c = 0), Linked(node, x, c) PROVE Linked(node, x, c)'
        <3>1. Holds(x, c) /\ x \in Nat
            BY <1>1 DEF Cells
        <3>2. x + c # b
            <4>1. SUFFICES ASSUME x + c = b PROVE x = b /\ c = 0
                BY <2>3
            <4>2. x = b
                BY <1>6, <3>1, <4>1 DEF Holds
            <4>k. Keyset(DOMAIN value) /\ IsNode(DOMAIN value, node[x])
                BY <1>1 DEF IsMap, Keyset, Cells
            <4>3. c \in Nat
                BY <4>k, CodesTyped
            <4> QED
                BY <3>1, <4>1, <4>2, <4>3
        <3>3. units'[x + c] = units[x + c]
            BY <1>9, <3>1, <3>2 DEF Holds
        <3> QED
            BY <1>4, <2>3, <3>3 DEF Linked
    <2> QED
        BY <1>1, <2>1, <2>2, <2>3 DEF Links
<1>16. Links(node)'
    BY <1>4, <1>15 DEF Links
<1>17. Rooted(node)'
    BY <1>1, <1>2, <1>4, <1>11 DEF Rooted
<1> QED
    BY <1>10, <1>13, <1>16, <1>17 DEF Tree

LEMMA ReturnStep ==
    ASSUME NEW node, IsMap(value), Tree(node), Return
    PROVE  Tree(node)'
<1>1. Cells(node) /\ Calls(node) /\ Links(node) /\ Rooted(node)
    BY DEF Tree
<1>0. PICK n, m, call, code, b : /\ n = Len(stack) /\ m = n - 1 /\ call = stack[m]
                                /\ code = Min(call.left) /\ b = call.begin
    OBVIOUS
<1>2. /\ stack \in Seq(Frame) /\ n \in Nat /\ m \in 1 .. n /\ m \in 1 .. n - 1 /\ m \in 1 .. m
      /\ n \in 1 .. n /\ m + 1 = n /\ m \in Nat /\ stack[n].left = {}
      /\ call \in Frame
      /\ stack \in [1 .. n -> Frame]
    <2>1. stack \in Seq(Frame) /\ n > 1 /\ stack[n].left = {}
        BY <1>0, <1>1 DEF Return, Top, Calls
    <2>2. n \in Nat /\ m \in 1 .. n /\ m \in 1 .. n - 1 /\ m \in 1 .. m /\ n \in 1 .. n
          /\ m + 1 = n /\ m \in Nat
        BY <1>0, <2>1
    <2> QED
        BY <1>0, <2>1, <2>2, ElementOf
<1>3. /\ units' = [units EXCEPT ![b + code].base = stack[n].begin]
      /\ stack' = [i \in 1 .. m |->
                     IF i = m THEN [stack[i] EXCEPT !.left = @ \ {code}] ELSE stack[i]]
      /\ value' = value /\ used' = used /\ size' = size /\ next_check_pos' = next_check_pos
    BY <1>0 DEF Return, Top
<1>4. /\ IsCall(node, call) /\ call.left # {} /\ 0 \notin call.left
      /\ node[stack[n].begin] = Child(node[b], code) /\ stack[n].begin \in used
    BY <1>0, <1>1, <1>2 DEF Calls, IsCall
<1>k. Keyset(DOMAIN value)
    BY DEF IsMap, Keyset
<1>5. /\ b \in used /\ b \in Nat \ {0} /\ code \in CodesOf(node[b]) /\ code # 0
      /\ IsNode(DOMAIN value, node[b])
    <2>1. b \in used /\ b \in Nat \ {0} /\ call.left \subseteq CodesOf(node[b])
          /\ IsNode(DOMAIN value, node[b])
        BY <1>0, <1>1, <1>4 DEF IsCall, Cells
    <2>2. call.left \in SUBSET Nat
        BY <1>2 DEF Frame
    <2>3. code \in call.left
        BY <1>0, <1>4, <2>2, MinIs
    <2> QED
        BY <1>4, <2>1, <2>3
<1>6. PICK q : q = b + code
    OBVIOUS
<1>7. q \in DOMAIN units /\ units[q].check = b /\ q # 0 /\ code \in Nat
    <2>1. Holds(b, code)
        BY <1>1, <1>5 DEF Cells
    <2>2. code \in Nat
        BY <1>5, <1>k, CodesTyped
    <2> QED
        BY <1>5, <1>6, <2>1, <2>2 DEF Holds
<1>8. /\ DOMAIN units' = DOMAIN units
      /\ units'[q] = [base |-> stack[n].begin, check |-> b]
      /\ \A p \in DOMAIN units : p # q => units'[p] = units[p]
      /\ \A p \in DOMAIN units : units'[p].check = units[p].check
    <2>1. units[q] \in [base : Int, check : Nat]
        BY <1>1, <1>7 DEF Cells
    <2>2. DOMAIN units' = DOMAIN units /\ units'[q] = [units[q] EXCEPT !.base = stack[n].begin]
          /\ \A p \in DOMAIN units : p # q => units'[p] = units[p]
        BY <1>3, <1>6, <1>7
    <2>3. units'[q] = [base |-> stack[n].begin, check |-> b]
        BY <1>7, <2>1, <2>2
    <2> QED
        BY <1>7, <2>2, <2>3
<1>9. Cells(node)'
    <2>1. units'[q] \in [base : Int, check : Nat]
        <3>1. used \subseteq Nat
            BY <1>1 DEF Cells
        <3>2. stack[n].begin \in used /\ b \in Nat
            BY <1>4, <1>5
        <3>3. \A p \in used : p \in Int
            BY <3>1
        <3> QED
            BY <1>8, <3>2, <3>3
    <2>2. \A p \in DOMAIN units' : units'[p] \in [base : Int, check : Nat]
        BY <1>1, <1>8, <2>1 DEF Cells
    <2>3. units'[0] = [base |-> 1, check |-> 0]
        BY <1>1, <1>7, <1>8 DEF Cells
    <2>4. ASSUME NEW x \in used, NEW c \in CodesOf(node[x]) PROVE Holds(x, c)'
        <3>1. Holds(x, c)
            BY <1>1 DEF Cells
        <3> QED
            BY <1>3, <1>8, <3>1 DEF Holds
    <2> QED
        BY <1>1, <1>3, <1>8, <2>2, <2>3, <2>4 DEF Cells
<1>10. /\ Len(stack') = m /\ stack' \in Seq(Frame)
       /\ \A i \in 1 .. m : i # m => stack'[i] = stack[i]
       /\ stack'[m].keys = call.keys /\ stack'[m].depth = call.depth
       /\ stack'[m].begin = call.begin /\ stack'[m].left = call.left \ {code}
    <2>1. \A i \in 1 .. m : i \in 1 .. n
        BY <1>0, <1>2
    <2> DEFINE f == [call EXCEPT !.left = @ \ {code}]
    <2>2. /\ f \in Frame /\ f.keys = call.keys /\ f.depth = call.depth
          /\ f.begin = call.begin /\ f.left = call.left \ {code}
        BY <1>2 DEF Frame
    <2>3. stack' = [i \in 1 .. m |-> IF i = m THEN f ELSE stack[i]]
        BY <1>0, <1>3
    <2> HIDE DEF f
    <2>4. /\ stack' \in [1 .. m -> Frame] /\ stack'[m] = f
          /\ \A i \in 1 .. m : i # m => stack'[i] = stack[i]
        BY <1>2, <2>1, <2>2, <2>3
    <2> QED
        BY <1>2, <2>2, <2>3, <2>4
<1>11. Calls(node)'
    <2>1. Frame' = Frame
        BY <1>3 DEF Frame
    <2>2. ASSUME NEW i \in 1 .. m PROVE IsCall(node, stack[i])'
        <3>1. IsCall(node, stack[i]) /\ i \in 1 .. n
            BY <1>0, <1>1, <1>2 DEF Calls
        <3> QED
            BY <1>0, <1>3, <1>10, <3>1 DEF IsCall
    <2>3. ASSUME NEW i \in 1 .. m - 1
          PROVE  /\ stack'[i].left # {} /\ 0 \notin stack'[i].left
                 /\ node[stack'[i + 1].begin] = Child(node[stack'[i].begin], Min(stack'[i].left))
        <3>1. i \in 1 .. m /\ i # m /\ i + 1 \in 1 .. m /\ i \in 1 .. n - 1
            BY <1>2
        <3>2. stack'[i] = stack[i] /\ stack'[i + 1].begin = stack[i + 1].begin
            BY <1>0, <1>10, <3>1
        <3> QED
            BY <1>0, <1>1, <3>1, <3>2 DEF Calls
    <2> QED
        BY <1>10, <2>1, <2>2, <2>3 DEF Calls
<1>12. Linked(node, b, code)'
    BY <1>3, <1>4, <1>5, <1>6, <1>8 DEF Linked
<1>13. ASSUME NEW x \in used, NEW c \in CodesOf(node[x])
       PROVE  Pending(x, c)' \/ Linked(node, x, c)'
    <2>1. CASE x = b /\ c = code
        BY <1>12, <2>1 DEF Linked
    <2>2. ASSUME ~(x = b /\ c = code), Pending(x, c) PROVE Pending(x, c)'
        <3>1. PICK i \in 1 .. n : stack[i].begin = x /\ c \in stack[i].left
            BY <1>0, <2>2 DEF Pending
        <3>2. i \in 1 .. m
            BY <1>2, <3>1
        <3>3. stack'[i].begin = x /\ c \in stack'[i].left
            BY <1>0, <1>10, <2>2, <3>1, <3>2
        <3> QED
            BY <1>10, <3>2, <3>3 DEF Pending
    <2>3. ASSUME ~(x = b /\ c = code), Linked(node, x, c) PROVE Linked(node, x, c)'
        <3>1. Holds(x, c) /\ x \in Nat /\ IsNode(DOMAIN value, node[x])
            BY <1>1 DEF Cells
        <3>2. c \in Nat
            BY <1>k, <3>1, CodesTyped
        <3>3. x + c # q
            <4>1. SUFFICES ASSUME x + c = q PROVE x = b /\ c = code
                BY <2>3
            <4>2. x = b
                BY <1>7, <3>1, <4>1 DEF Holds
            <4> QED
                BY <1>5, <1>6, <1>7, <3>1, <3>2, <4>1, <4>2
        <3>4. units'[x + c] = units[x + c]
            BY <1>8, <3>1, <3>3 DEF Holds
        <3>5. value' = value /\ used' = used
            BY <1>3
        <3> QED
            BY <2>3, <3>4, <3>5 DEF Linked
    <2> QED
        BY <1>1, <2>1, <2>2, <2>3 DEF Links
<1>14. Links(node)'
    BY <1>3, <1>13 DEF Links
<1>15. Rooted(node)'
    <2>1. stack' # <<>>
        BY <1>2, <1>10
    <2> QED
        BY <1>1, <1>3, <2>1 DEF Rooted
<1> QED
    BY <1>9, <1>11, <1>14, <1>15 DEF Tree

LEMMA BuildEndsStep ==
    ASSUME NEW node, IsMap(value), Tree(node), BuildEnds
    PROVE  Tree(node)'
<1>1. Cells(node) /\ Calls(node) /\ Links(node) /\ Rooted(node) /\ Keyset(DOMAIN value)
    BY DEF Tree, IsMap, Keyset
<1>2. /\ Len(stack) = 1 /\ stack[1].left = {}
      /\ size' = size + Margin /\ stack' = <<>>
      /\ value' = value /\ units' = units /\ used' = used /\ next_check_pos' = next_check_pos
    BY DEF BuildEnds, Top
<1>3. size \in Nat /\ Margin \in Nat
    BY <1>1, MaxCharAssumption DEF Cells, Margin
<1>4. Cells(node)'
    <2>1. ASSUME NEW x \in used, NEW c \in CodesOf(node[x]) PROVE Holds(x, c)'
        <3>1. Holds(x, c) /\ x + c \in Nat
            BY <1>1 DEF Cells, Holds
        <3> QED
            BY <1>2, <1>3, <3>1 DEF Holds
    <2>2. size' \in Nat
        BY <1>2, <1>3
    <2> QED
        BY <1>1, <1>2, <2>1, <2>2 DEF Cells
<1>5. Calls(node)'
    BY <1>2 DEF Calls
<1>6. ASSUME NEW x \in used, NEW c \in CodesOf(node[x]) PROVE Linked(node, x, c)'
    <2>1. ~Pending(x, c)
        BY <1>2 DEF Pending
    <2>2. Linked(node, x, c)
        BY <1>1, <2>1 DEF Links
    <2>3. c = 0 => \E k \in Below(node[x].keys, node[x].depth, 0) :
                     units'[x + c].base = -value'[k] - 1 /\ value'[k] >= 0
        BY <1>2, <2>2 DEF Linked
    <2>4. c # 0 => /\ units'[x + c].base \in used'
                   /\ node[units'[x + c].base] = Child(node[x], c)
        BY <1>2, <2>2 DEF Linked
    <2> QED
        BY <2>3, <2>4 DEF Linked
<1>7. Links(node)'
    BY <1>2, <1>6 DEF Links
<1>8. Rooted(node)'
    <2>1. ASSUME NEW b \in used PROVE b + Margin < size'
        <3>1. b < size /\ b \in Nat
            BY <1>1, BelowSize DEF Cells
        <3> QED
            BY <1>2, <1>3, <3>1
    <2>2. Margin' = Margin
        BY DEF Margin
    <2> QED
        BY <1>1, <1>2, <2>1 DEF Rooted
<1> QED
    BY <1>4, <1>5, <1>7, <1>8 DEF Tree

\* The double array while it is built and after, unless the build has failed.
BuildInv ==
    /\ IsMap(value)
    /\ error = 0 => \E node : Tree(node)
    /\ used = {} => next_check_pos = 0 /\ stack = <<>>

LEMMA BuildBeginsInv ==
    ASSUME NEW map, IsMap(map), BuildBegins(map)
    PROVE  BuildInv'
<1>1. /\ value' = map /\ units' = [pos \in {0} |-> [base |-> 1, check |-> 0]] /\ used' = {}
      /\ size' = 0 /\ next_check_pos' = 0 /\ error' = 0 /\ stack' = <<>>
    BY DEF BuildBegins
<1>2. PICK node : node = <<>>
    OBVIOUS
<1>3. Cells(node)'
    <2>1. DOMAIN units' = {0} /\ units'[0] = [base |-> 1, check |-> 0]
        BY <1>1
    <2>2. [base |-> 1, check |-> 0] \in [base : Int, check : Nat]
        OBVIOUS
    <2> QED
        BY <1>1, <2>1, <2>2 DEF Cells
<1>4. Calls(node)' /\ Links(node)' /\ Rooted(node)'
    BY <1>1 DEF Calls, Links, Rooted
<1>5. Tree(node)'
    BY <1>3, <1>4 DEF Tree
<1> QED
    BY <1>1, <1>5 DEF BuildInv, IsMap

LEMMA BuildStepInv ==
    ASSUME BuildInv, BuildStep
    PROVE  BuildInv'
<1>1. IsMap(value) /\ error = 0 /\ Keyset(DOMAIN value) /\ DOMAIN value # {}
    BY DEF BuildInv, BuildStep, IsMap, Keyset
<1>2. PICK node : Tree(node)
    BY <1>1 DEF BuildInv
<1>3. Cells(node) /\ Calls(node) /\ Links(node) /\ Rooted(node)
    BY <1>2 DEF Tree
<1>4. CASE InsertRoot
    <2>1. PICK new : new = Node(DOMAIN value, 0)
        OBVIOUS
    <2>2. IsNode(DOMAIN value, new) /\ new.keys = DOMAIN value /\ new.depth = 0
        BY <1>1, <2>1, RootNode DEF Node
    <2>3. Insert(new.keys, new.depth) /\ stack = <<>> /\ used = {} /\ next_check_pos = 0
        BY <1>4, <2>2 DEF InsertRoot, BuildInv
    <2>4. \E n2 : Tree(n2)'
        BY <1>1, <1>2, <2>1, <2>2, <2>3, InsertStep
    <2>5. value' = value /\ used' # {}
        BY <2>3 DEF Insert
    <2> QED
        BY <1>1, <2>4, <2>5 DEF BuildInv, IsMap
<1>5. CASE Call
    <2>0. PICK c, top : c = Min(top.left) /\ top = Top
        OBVIOUS
    <2>1. /\ stack # <<>> /\ top.left # {} /\ 0 \notin top.left
          /\ Insert(Below(top.keys, top.depth, c), top.depth + 1)
        BY <1>5, <2>0 DEF Call
    <2>2. IsCall(node, top) /\ top \in Frame
        <3>1. stack \in Seq(Frame)
            BY <1>3 DEF Calls
        <3>2. Len(stack) \in 1 .. Len(stack)
            BY <2>1, <3>1
        <3> QED
            BY <1>3, <2>0, <3>1, <3>2, ElementOf DEF Calls, Top
    <2>3. /\ top.begin \in used /\ node[top.begin] = Node(top.keys, top.depth)
          /\ c \in CodesOf(node[top.begin]) /\ c # 0
        <3>1. top.left \in SUBSET Nat
            BY <2>2 DEF Frame
        <3>2. c \in top.left
            BY <2>0, <2>1, <3>1, MinIs
        <3> QED
            BY <2>1, <2>2, <3>2 DEF IsCall
    <2>4. PICK new : new = Child(node[top.begin], c)
        OBVIOUS
    <2>5. IsNode(DOMAIN value, new)
        <3>1. IsNode(DOMAIN value, node[top.begin])
            BY <1>3, <2>3 DEF Cells
        <3> QED
            BY <1>1, <2>3, <2>4, <3>1, ChildNode
    <2>6. new.keys = Below(top.keys, top.depth, c) /\ new.depth = top.depth + 1
        BY <2>3, <2>4 DEF Child, Node
    <2>7. Insert(new.keys, new.depth)
        BY <2>1, <2>6
    <2>8. \E n2 : Tree(n2)'
        BY <1>1, <1>2, <2>0, <2>1, <2>3, <2>4, <2>5, <2>7, InsertStep
    <2>9. value' = value /\ used' # {}
        BY <2>7 DEF Insert
    <2> QED
        BY <1>1, <2>8, <2>9 DEF BuildInv, IsMap
<1>6. CASE Leaf
    <2>1. value' = value /\ used' = used /\ stack # <<>>
        BY <1>6 DEF Leaf
    <2>2. used' # {}
        BY <2>1 DEF BuildInv
    <2>3. error' = 0 => Tree(node)'
        BY <1>1, <1>2, <1>6, LeafStep
    <2> QED
        BY <1>1, <2>1, <2>2, <2>3 DEF BuildInv, IsMap
<1>7. CASE Return
    <2>1. value' = value /\ used' = used /\ stack # <<>>
        BY <1>7 DEF Return
    <2>2. used' # {}
        BY <2>1 DEF BuildInv
    <2>3. Tree(node)'
        BY <1>1, <1>2, <1>7, ReturnStep
    <2> QED
        BY <1>1, <2>1, <2>2, <2>3 DEF BuildInv, IsMap
<1>8. CASE BuildEnds
    <2>1. value' = value /\ used' = used /\ stack # <<>>
        BY <1>8 DEF BuildEnds
    <2>2. used' # {}
        BY <2>1 DEF BuildInv
    <2>3. Tree(node)'
        BY <1>1, <1>2, <1>8, BuildEndsStep
    <2> QED
        BY <1>1, <2>1, <2>2, <2>3 DEF BuildInv, IsMap
<1> QED
    BY <1>4, <1>5, <1>6, <1>7, <1>8 DEF BuildStep

-----------------------------------------------------------------------------
(* A search in a finished array. *)

\* A table filled from v, each place from the one before.
Iterated(n, V, v, g, A) ==
    /\ A \in [0 .. n -> V]
    /\ A[0] = v
    /\ \A x \in 1 .. n : A[x] = g[x][A[x - 1]]

\* There is such a table.
LEMMA Iterates ==
    ASSUME NEW n \in Nat, NEW V, NEW v \in V, NEW g \in [1 .. n -> [V -> V]]
    PROVE  \E A : Iterated(n, V, v, g, A)
<1> DEFINE Good(k, f) ==
               /\ f \in [0 .. k -> V]
               /\ f[0] = v
               /\ \A x \in 1 .. k : f[x] = g[x][f[x - 1]]
           D == {k \in Nat : k <= n => \E f : Good(k, f)}
<1>1. 0 \in D
    <2> DEFINE f == [x \in 0 .. 0 |-> v]
    <2>1. Good(0, f)
        OBVIOUS
    <2> QED
        BY <2>1
<1>2. ASSUME NEW k \in D PROVE k + 1 \in D
    <2> SUFFICES ASSUME k + 1 <= n PROVE \E f : Good(k + 1, f)
        <3> HIDE DEF Good
        <3> QED
            OBVIOUS
    <2>1. k \in Nat /\ k <= n
        OBVIOUS
    <2>2. PICK f : Good(k, f)
        BY <2>1
    <2> HIDE DEF D
    <2> DEFINE z == k + 1
               h == [x \in 0 .. z |-> IF x = z THEN g[z][f[k]] ELSE f[x]]
    <2>3. /\ z \in 1 .. n /\ z \in 0 .. z /\ k \in 0 .. k /\ z - 1 = k
          /\ \A x \in 0 .. z : x = z \/ x \in 0 .. k
          /\ \A x \in 0 .. k : x # z /\ x \in 0 .. z
          /\ \A x \in 1 .. z : x = z \/ (x \in 1 .. k /\ x \in 0 .. k /\ x - 1 \in 0 .. k)
        BY <2>1
    <2> HIDE DEF z
    <2>4. g[z][f[k]] \in V
        BY <2>2, <2>3
    <2>5. h \in [0 .. z -> V] /\ h[z] = g[z][f[k]] /\ \A x \in 0 .. k : h[x] = f[x]
        BY <2>2, <2>3, <2>4
    <2> HIDE DEF h
    <2>6. h[0] = v
        BY <2>1, <2>2, <2>5
    <2>7. ASSUME NEW x \in 1 .. z PROVE h[x] = g[x][h[x - 1]]
        <3>1. CASE x = z
            BY <2>3, <2>5, <3>1
        <3>2. CASE x \in 1 .. k /\ x \in 0 .. k /\ x - 1 \in 0 .. k
            BY <2>2, <2>5, <3>2
        <3> QED
            BY <2>3, <3>1, <3>2
    <2>8. Good(z, h)
        BY <2>5, <2>6, <2>7
    <2> HIDE DEF Good
    <2> QED
        BY <2>8 DEF z
<1>3. D = Nat
    <2> HIDE DEF D
    <2>1. D \in SUBSET Nat
        BY DEF D
    <2> QED
        BY <1>1, <1>2, <2>1, NatSetInduction
<1> QED
    BY <1>3 DEF Iterated

LEMMA AgreeNext ==
    ASSUME NEW D, Keyset(D), NEW key \in Seq(1 .. MaxChar), NEW n \in Nat, n + 1 <= Len(key)
    PROVE  Agree(D, key, n + 1) = Below(Agree(D, key, n), n, key[n + 1] + 1)
<1>1. key[n + 1] \in 1 .. MaxChar
    <2>1. n + 1 \in 1 .. Len(key)
        OBVIOUS
    <2> QED
        BY <2>1, ElementOf
<1>2. ASSUME NEW k \in D
      PROVE  k \in Agree(D, key, n + 1) <=> k \in Below(Agree(D, key, n), n, key[n + 1] + 1)
    <2>1. k \in Seq(1 .. MaxChar) /\ Len(k) \in Nat
        BY DEF Keyset
    <2>2. ASSUME k \in Agree(D, key, n + 1) PROVE k \in Below(Agree(D, key, n), n, key[n + 1] + 1)
        <3>1. n + 1 <= Len(k) /\ k[n + 1] = key[n + 1] /\ \A j \in 1 .. n : k[j] = key[j]
            BY <2>2 DEF Agree
        <3>2. n # Len(k) /\ n <= Len(k)
            BY <2>1, <3>1
        <3> QED
            BY <3>1, <3>2 DEF Agree, Below, CodeAt
    <2>3. ASSUME k \in Below(Agree(D, key, n), n, key[n + 1] + 1) PROVE k \in Agree(D, key, n + 1)
        <3>1. n <= Len(k) /\ (\A j \in 1 .. n : k[j] = key[j]) /\ CodeAt(k, n) = key[n + 1] + 1
            BY <2>3 DEF Agree, Below
        <3>2. n # Len(k) /\ k[n + 1] + 1 = key[n + 1] + 1
            BY <1>1, <3>1 DEF CodeAt
        <3>3. n + 1 \in 1 .. Len(k)
            BY <2>1, <3>1, <3>2
        <3>4. k[n + 1] = key[n + 1]
            <4>1. k[n + 1] \in 1 .. MaxChar
                BY <2>1, <3>3, ElementOf
            <4> QED
                BY <1>1, <3>2, <4>1
        <3>5. \A j \in 1 .. n + 1 : j \in 1 .. n \/ j = n + 1
            OBVIOUS
        <3> QED
            BY <3>1, <3>3, <3>4, <3>5 DEF Agree
    <2> QED
        BY <2>2, <2>3
<1>3. Agree(D, key, n + 1) \subseteq D /\ Below(Agree(D, key, n), n, key[n + 1] + 1) \subseteq D
    BY DEF Agree, Below
<1> QED
    BY <1>2, <1>3

\* The key that ends where all of key has been followed is key.
LEMMA KeyEnds ==
    ASSUME NEW D, Keyset(D), NEW key \in Seq(1 .. MaxChar)
    PROVE  /\ \A k \in Agree(D, key, Len(key)) : CodeAt(k, Len(key)) = 0 => k = key
           /\ key \in D => key \in Agree(D, key, Len(key)) /\ CodeAt(key, Len(key)) = 0
<1>1. ASSUME NEW k \in Agree(D, key, Len(key)), CodeAt(k, Len(key)) = 0 PROVE k = key
    <2>1. k \in Seq(1 .. MaxChar) /\ Len(key) <= Len(k) /\ \A j \in 1 .. Len(key) : k[j] = key[j]
        BY DEF Agree, Keyset
    <2>2. Len(k) = Len(key)
        <3>1. SUFFICES ASSUME Len(k) # Len(key) PROVE FALSE
            OBVIOUS
        <3>2. Len(key) + 1 \in 1 .. Len(k)
            BY <2>1, <3>1
        <3>3. k[Len(key) + 1] \in 1 .. MaxChar
            BY <2>1, <3>2, ElementOf
        <3>4. k[Len(key) + 1] + 1 = 0
            BY <1>1, <3>1 DEF CodeAt
        <3> QED
            BY <3>3, <3>4
    <2> QED
        BY <2>1, <2>2
<1>2. Len(key) \in Nat
    OBVIOUS
<1> QED
    BY <1>1, <1>2 DEF Agree, CodeAt

\* The trie is complete, and no base is near the end of the array.
Finished(node) == Tree(node) /\ IsMap(value) /\ stack = <<>> /\ used # {}

LEMMA AllLinked ==
    ASSUME NEW node, Finished(node), NEW b \in used
    PROVE  /\ b \in Nat \ {0} /\ b + Margin < size /\ size \in Nat
           /\ Keyset(DOMAIN value) /\ IsNode(DOMAIN value, node[b])
           /\ \A c \in CodesOf(node[b]) : Holds(b, c) /\ Linked(node, b, c)
           /\ \A p \in DOMAIN units \ {0} : units[p].check = b => p - b \in CodesOf(node[b])
<1>1. Cells(node) /\ Links(node) /\ Rooted(node) /\ stack = <<>> /\ used # {}
    BY DEF Finished, Tree
<1>2. b \in Nat \ {0} /\ b + Margin < size /\ size \in Nat /\ IsNode(DOMAIN value, node[b])
    BY <1>1 DEF Cells, Rooted
<1>3. Keyset(DOMAIN value)
    BY DEF Finished, IsMap, Keyset
<1>4. ASSUME NEW c \in CodesOf(node[b]) PROVE Holds(b, c) /\ Linked(node, b, c)
    <2>1. ~Pending(b, c)
        BY <1>1 DEF Pending
    <2> QED
        BY <1>1, <2>1 DEF Cells, Links
<1>5. \A p \in DOMAIN units \ {0} : units[p].check = b => p - b \in CodesOf(node[b])
    BY <1>1 DEF Cells
<1> QED
    BY <1>2, <1>3, <1>4, <1>5

\* Where a search may be.
Places == [base : used, is : {"on", "lost"}]

LEMMA FollowStays ==
    ASSUME NEW node, Finished(node), NEW at \in Places, NEW char \in 1 .. MaxChar,
           NEW to, to = Follow(units, size, at, char)
    PROVE  /\ to \in Places
           /\ at.is = "lost" => to = at
           /\ at.is = "on" =>
                IF char + 1 \in CodesOf(node[at.base])
                THEN to.is = "on" /\ node[to.base] = Child(node[at.base], char + 1)
                ELSE to.is = "lost"
<1>1. PICK b, pos : b = at.base /\ pos = at.base + char + 1
    OBVIOUS
<1>2. b \in used /\ at = [base |-> b, is |-> at.is] /\ at.is \in {"on", "lost"}
    BY <1>1 DEF Places
<1>3. CASE at.is = "lost"
    <2>1. to = at
        BY <1>3 DEF Follow
    <2> QED
        BY <1>3, <2>1
<1>4. CASE at.is = "on"
    <2>1. /\ b \in Nat \ {0} /\ b + Margin < size /\ size \in Nat
          /\ \A c \in CodesOf(node[b]) : Holds(b, c) /\ Linked(node, b, c)
          /\ \A p \in DOMAIN units \ {0} : units[p].check = b => p - b \in CodesOf(node[b])
        BY <1>2, AllLinked
    <2>2. pos \in Nat /\ pos # 0 /\ pos = b + (char + 1) /\ pos - b = char + 1 /\ char + 1 # 0
        BY <1>1, <2>1
    <2>3. ~Outside(pos, size)
        BY <1>1, <2>1, <2>2, MaxCharAssumption DEF Outside, Margin
    <2>4. to = IF CheckOf(units, pos) # b THEN [at EXCEPT !.is = "lost"]
               ELSE [at EXCEPT !.base = units[pos].base]
        BY <1>1, <1>4, <2>3 DEF Follow
    <2>5. CASE char + 1 \in CodesOf(node[b])
        <3>1. pos \in DOMAIN units /\ units[pos].check = b
            BY <2>1, <2>2, <2>5 DEF Holds
        <3>2. units[pos].base \in used /\ node[units[pos].base] = Child(node[b], char + 1)
            BY <2>1, <2>2, <2>5 DEF Linked
        <3>3. to = [at EXCEPT !.base = units[pos].base]
            BY <2>4, <3>1 DEF CheckOf
        <3>4. to = [base |-> units[pos].base, is |-> "on"]
            BY <1>2, <1>4, <3>3
        <3> QED
            BY <1>1, <1>4, <2>5, <3>2, <3>4 DEF Places
    <2>6. CASE char + 1 \notin CodesOf(node[b])
        <3>1. CheckOf(units, pos) # b
            BY <2>1, <2>2, <2>6 DEF CheckOf
        <3>2. to = [base |-> b, is |-> "lost"]
            BY <1>2, <2>4, <3>1
        <3> QED
            BY <1>1, <1>2, <1>4, <2>6, <3>2 DEF Places
    <2> QED
        BY <2>5, <2>6
<1> QED
    BY <1>2, <1>3, <1>4

\* After n characters of key a search is at the node of the keys that
\* begin so, or there are none.
Walked(node, key, n, at) ==
    /\ at \in Places
    /\ at.is = "on" => node[at.base] = Node(Agree(DOMAIN value, key, n), n)
    /\ at.is = "lost" => Agree(DOMAIN value, key, n) = {}

LEMMA WalkStep ==
    ASSUME NEW node, Finished(node), NEW key \in Seq(1 .. MaxChar), NEW n \in Nat, n + 1 <= Len(key),
           NEW at, Walked(node, key, n, at)
    PROVE  Walked(node, key, n + 1, Follow(units, size, at, key[n + 1]))
<1>1. PICK to, char : to = Follow(units, size, at, char) /\ char = key[n + 1]
    OBVIOUS
<1>2. char \in 1 .. MaxChar
    <2>1. n + 1 \in 1 .. Len(key)
        OBVIOUS
    <2> QED
        BY <1>1, <2>1, ElementOf
<1>3. /\ to \in Places
      /\ at.is = "lost" => to = at
      /\ at.is = "on" =>
           IF char + 1 \in CodesOf(node[at.base])
           THEN to.is = "on" /\ node[to.base] = Child(node[at.base], char + 1)
           ELSE to.is = "lost"
    BY <1>1, <1>2, FollowStays DEF Walked
<1>4. at \in Places /\ at.is \in {"on", "lost"}
    BY DEF Walked, Places
<1>5. PICK A, B : A = Agree(DOMAIN value, key, n) /\ B = Agree(DOMAIN value, key, n + 1)
    OBVIOUS
<1>6. B = Below(A, n, char + 1)
    <2>1. Keyset(DOMAIN value)
        BY DEF Finished, IsMap, Keyset
    <2> QED
        BY <1>1, <1>5, <2>1, AgreeNext
<1>7. CASE at.is = "lost"
    <2>1. A = {}
        BY <1>5, <1>7 DEF Walked
    <2>2. B = {}
        BY <1>6, <2>1 DEF Below
    <2>3. to.is = "lost"
        BY <1>3, <1>7
    <2> QED
        BY <1>1, <1>3, <1>5, <2>2, <2>3 DEF Walked
<1>8. CASE at.is = "on"
    <2>1. node[at.base] = Node(A, n)
        BY <1>5, <1>8 DEF Walked
    <2>2. CASE char + 1 \in CodesOf(node[at.base])
        <3>1. to.is = "on" /\ node[to.base] = Child(node[at.base], char + 1)
            BY <1>3, <1>8, <2>2
        <3>2. node[to.base] = Node(B, n + 1)
            BY <1>6, <2>1, <3>1 DEF Child, Node
        <3> QED
            BY <1>1, <1>3, <1>5, <3>1, <3>2 DEF Walked
    <2>3. CASE char + 1 \notin CodesOf(node[at.base])
        <3>1. to.is = "lost"
            BY <1>3, <1>8, <2>3
        <3>2. \A k \in A : CodeAt(k, n) # char + 1
            BY <2>1, <2>3 DEF CodesOf, Codes, Node
        <3>3. B = {}
            BY <1>6, <3>2 DEF Below
        <3> QED
            BY <1>1, <1>3, <1>5, <3>1, <3>3 DEF Walked
    <2> QED
        BY <2>2, <2>3
<1> QED
    BY <1>4, <1>7, <1>8

IsWalk(key, w) ==
    w = [n \in 0 .. Len(key) |->
           IF n = 0 THEN [base |-> units[0].base, is |-> "on"]
           ELSE Follow(units, size, w[n - 1], key[n])]

LEMMA Walks ==
    ASSUME NEW node, Finished(node), NEW key \in Seq(1 .. MaxChar)
    PROVE  \E w : IsWalk(key, w)
<1> DEFINE n == Len(key)
           g == [x \in 1 .. n |-> [at \in Places |-> Follow(units, size, at, key[x])]]
           v == [base |-> units[0].base, is |-> "on"]
<1>1. n \in Nat
    OBVIOUS
<1>2. v \in Places
    <2>1. Cells(node) /\ 1 \in used
        BY DEF Finished, Tree, Rooted
    <2>2. units[0].base = 1
        BY <2>1 DEF Cells
    <2> QED
        BY <2>1, <2>2 DEF Places
<1>3. g \in [1 .. n -> [Places -> Places]]
    <2>1. ASSUME NEW x \in 1 .. n, NEW at \in Places
          PROVE  Follow(units, size, at, key[x]) \in Places
        <3>1. key[x] \in 1 .. MaxChar
            BY ElementOf
        <3> QED
            BY <3>1, FollowStays
    <2> QED
        BY <2>1
<1>4. \A x \in 1 .. n : \A at \in Places : g[x][at] = Follow(units, size, at, key[x])
    OBVIOUS
<1> HIDE DEF g, v, n
<1>5. PICK w : Iterated(n, Places, v, g, w)
    BY <1>1, <1>2, <1>3, Iterates
<1>6. w \in [0 .. n -> Places] /\ w[0] = v /\ \A x \in 1 .. n : w[x] = g[x][w[x - 1]]
    BY <1>5 DEF Iterated
<1>7. ASSUME NEW x \in 0 .. n
      PROVE  w[x] = IF x = 0 THEN v ELSE Follow(units, size, w[x - 1], key[x])
    <2>1. CASE x = 0
        BY <1>6, <2>1
    <2>2. CASE x # 0
        <3>1. x \in 1 .. n /\ x - 1 \in 0 .. n
            BY <1>1, <2>2
        <3> QED
            BY <1>4, <1>6, <2>2, <3>1
    <2> QED
        BY <2>1, <2>2
<1>8. w = [x \in 0 .. n |-> IF x = 0 THEN v ELSE Follow(units, size, w[x - 1], key[x])]
    BY <1>6, <1>7
<1> QED
    BY <1>8 DEF IsWalk, n, v

LEMMA WalkedAll ==
    ASSUME NEW node, Finished(node), NEW key \in Seq(1 .. MaxChar), NEW w, IsWalk(key, w)
    PROVE  Walked(node, key, Len(key), w[Len(key)])
<1> DEFINE D == {n \in Nat : n <= Len(key) => Walked(node, key, n, w[n])}
<1>0. Len(key) \in Nat
    OBVIOUS
<1>1. /\ w[0] = [base |-> units[0].base, is |-> "on"]
      /\ \A n \in 0 .. Len(key) : n # 0 => w[n] = Follow(units, size, w[n - 1], key[n])
    <2>1. \A n \in 0 .. Len(key) :
            w[n] = IF n = 0 THEN [base |-> units[0].base, is |-> "on"]
                   ELSE Follow(units, size, w[n - 1], key[n])
        BY DEF IsWalk
    <2>2. 0 \in 0 .. Len(key)
        BY <1>0
    <2>3. w[0] = [base |-> units[0].base, is |-> "on"]
        BY <2>1, <2>2
    <2> QED
        BY <2>1, <2>3
<1>2. Walked(node, key, 0, w[0])
    <2>1. Cells(node) /\ 1 \in used /\ node[1] = Node(DOMAIN value, 0)
        BY DEF Finished, Tree, Rooted
    <2>2. w[0] = [base |-> 1, is |-> "on"]
        BY <1>1, <2>1 DEF Cells
    <2>3. Agree(DOMAIN value, key, 0) = DOMAIN value
        <3>1. Keyset(DOMAIN value)
            BY DEF Finished, IsMap, Keyset
        <3> QED
            BY <3>1, AgreeAll
    <2> QED
        BY <2>1, <2>2, <2>3 DEF Walked, Places
<1>3. ASSUME NEW n \in D PROVE n + 1 \in D
    <2>1. SUFFICES ASSUME n + 1 <= Len(key) PROVE Walked(node, key, n + 1, w[n + 1])
        OBVIOUS
    <2>2. n \in Nat /\ n <= Len(key) /\ n + 1 \in 0 .. Len(key) /\ n + 1 # 0 /\ (n + 1) - 1 = n
        BY <1>0, <2>1
    <2>3. Walked(node, key, n, w[n])
        BY <2>2
    <2>4. w[n + 1] = Follow(units, size, w[n], key[n + 1])
        BY <1>1, <2>2
    <2> QED
        BY <2>1, <2>2, <2>3, <2>4, WalkStep
<1>4. D = Nat
    <2>1. 0 \in D /\ D \in SUBSET Nat
        BY <1>2
    <2> HIDE DEF D
    <2> QED
        BY <1>3, <2>1, NatSetInduction
<1> QED
    BY <1>0, <1>4

LEMMA SearchIs ==
    ASSUME NEW node, Finished(node), NEW key \in Seq(1 .. MaxChar)
    PROVE  \E at : /\ Walked(node, key, Len(key), at)
                   /\ Search(units, size, key) =
                        IF at.is = "lost" THEN -1
                        ELSE IF at.is = "wild" \/ Outside(at.base, size) THEN -2
                        ELSE IF CheckOf(units, at.base) = at.base /\ units[at.base].base < 0
                        THEN -units[at.base].base - 1
                        ELSE -1
<1> DEFINE w == CHOOSE u : IsWalk(key, u)
<1>1. IsWalk(key, w)
    BY Walks
<1>2. Search(units, size, key) =
        IF w[Len(key)].is = "lost" THEN -1
        ELSE IF w[Len(key)].is = "wild" \/ Outside(w[Len(key)].base, size) THEN -2
        ELSE IF CheckOf(units, w[Len(key)].base) = w[Len(key)].base
                /\ units[w[Len(key)].base].base < 0
        THEN -units[w[Len(key)].base].base - 1
        ELSE -1
    BY DEF Search, IsWalk
<1> HIDE DEF w
<1>3. Walked(node, key, Len(key), w[Len(key)])
    BY <1>1, WalkedAll
<1> QED
    BY <1>2, <1>3

LEMMA SearchFinds ==
    ASSUME NEW node, Finished(node), NEW key \in Seq(1 .. MaxChar)
    PROVE  /\ key \in DOMAIN value => value[key] >= 0
           /\ Search(units, size, key) = IF key \in DOMAIN value THEN value[key] ELSE -1
<1> DEFINE n == Len(key)
           A == Agree(DOMAIN value, key, n)
<1>k. Keyset(DOMAIN value) /\ value \in [DOMAIN value -> Int]
    BY DEF Finished, IsMap, Keyset
<1>1. /\ \A k \in A : CodeAt(k, n) = 0 => k = key
      /\ key \in DOMAIN value => key \in A /\ CodeAt(key, n) = 0
    BY <1>k, KeyEnds
<1>2. PICK at : /\ Walked(node, key, n, at)
                /\ Search(units, size, key) =
                     IF at.is = "lost" THEN -1
                     ELSE IF at.is = "wild" \/ Outside(at.base, size) THEN -2
                     ELSE IF CheckOf(units, at.base) = at.base /\ units[at.base].base < 0
                     THEN -units[at.base].base - 1
                     ELSE -1
    BY SearchIs
<1>3. /\ at \in Places
      /\ at.is = "on" => node[at.base] = Node(A, n)
      /\ at.is = "lost" => A = {}
    BY <1>2 DEF Walked
<1>4. PICK b : b = at.base
    OBVIOUS
<1>5. b \in used /\ at.is \in {"on", "lost"}
    BY <1>3, <1>4 DEF Places
<1>6. /\ b \in Nat \ {0} /\ b + Margin < size /\ size \in Nat
      /\ \A c \in CodesOf(node[b]) : Holds(b, c) /\ Linked(node, b, c)
      /\ \A p \in DOMAIN units \ {0} : units[p].check = b => p - b \in CodesOf(node[b])
    BY <1>5, AllLinked
<1> HIDE DEF n, A
<1>7. CASE at.is = "lost"
    BY <1>1, <1>2, <1>3, <1>7
<1>8. CASE at.is = "on"
    <2>1. ~Outside(b, size) /\ b + 0 = b /\ b - b = 0
        BY <1>6, MaxCharAssumption DEF Outside, Margin
    <2>2. Search(units, size, key) =
            IF CheckOf(units, b) = b /\ units[b].base < 0 THEN -units[b].base - 1 ELSE -1
        BY <1>2, <1>4, <1>8, <2>1
    <2>3. node[b] = Node(A, n)
        BY <1>3, <1>4, <1>8
    <2>4. CASE key \in DOMAIN value
        <3>1. 0 \in CodesOf(node[b])
            BY <1>1, <2>3, <2>4 DEF CodesOf, Codes, Node
        <3>2. b \in DOMAIN units /\ units[b].check = b
            BY <1>6, <2>1, <3>1 DEF Holds
        <3>3. PICK k \in Below(A, n, 0) : units[b].base = -value[k] - 1 /\ value[k] >= 0
            BY <1>6, <2>1, <2>3, <3>1 DEF Linked, Node
        <3>4. k = key
            BY <1>1, <3>3 DEF Below
        <3>5. value[key] \in Int /\ value[key] >= 0 /\ units[b].base = -value[key] - 1
            BY <1>k, <2>4, <3>3, <3>4
        <3>6. units[b].base < 0 /\ -units[b].base - 1 = value[key]
            BY <3>5
        <3>7. CheckOf(units, b) = b
            BY <3>2 DEF CheckOf
        <3> QED
            BY <2>2, <2>4, <3>5, <3>6, <3>7
    <2>5. CASE key \notin DOMAIN value
        <3>1. CheckOf(units, b) # b
            <4>1. SUFFICES ASSUME b \in DOMAIN units, units[b].check = b PROVE FALSE
                BY <1>6 DEF CheckOf
            <4>2. 0 \in CodesOf(node[b])
                BY <1>6, <2>1, <4>1
            <4>3. PICK k \in A : CodeAt(k, n) = 0
                BY <2>3, <4>2 DEF CodesOf, Codes, Node
            <4>4. k = key /\ k \in DOMAIN value
                BY <1>1, <4>3 DEF A, Agree
            <4> QED
                BY <2>5, <4>4
        <3> QED
            BY <2>2, <2>5, <3>1
    <2> QED
        BY <2>4, <2>5
<1> QED
    BY <1>5, <1>7, <1>8

-----------------------------------------------------------------------------
(* The template string. *)

IsOffsets(names, at) ==
    /\ at \in [0 .. Len(names) -> Nat]
    /\ at[0] = 0
    /\ \A n \in 1 .. Len(names) : at[n] = at[n - 1] + names[n] + 1

LEMMA OffsetsAre ==
    ASSUME NEW names \in Seq(Nat)
    PROVE  IsOffsets(names, Offsets(names))
<1> DEFINE N == Len(names)
           g == [x \in 1 .. N |-> [a \in Nat |-> a + names[x] + 1]]
           Is(f) == f = [n \in 0 .. N |-> IF n = 0 THEN 0 ELSE f[n - 1] + names[n] + 1]
<1>1. N \in Nat /\ \A x \in 1 .. N : names[x] \in Nat
    BY ElementOf
<1>2. g \in [1 .. N -> [Nat -> Nat]]
    BY <1>1
<1>3. \A x \in 1 .. N : \A a \in Nat : g[x][a] = a + names[x] + 1
    OBVIOUS
<1> HIDE DEF g
<1>4. PICK f : Iterated(N, Nat, 0, g, f)
    BY <1>1, <1>2, Iterates
<1>5. f \in [0 .. N -> Nat] /\ f[0] = 0 /\ \A x \in 1 .. N : f[x] = g[x][f[x - 1]]
    BY <1>4 DEF Iterated
<1> HIDE DEF N
<1>6. ASSUME NEW n \in 0 .. N PROVE f[n] = IF n = 0 THEN 0 ELSE f[n - 1] + names[n] + 1
    <2>1. CASE n = 0
        BY <1>5, <2>1
    <2>2. CASE n # 0
        <3>1. n \in 1 .. N /\ n - 1 \in 0 .. N
            BY <1>1, <2>2
        <3> QED
            BY <1>3, <1>5, <2>2, <3>1
    <2> QED
        BY <2>1, <2>2
<1>7. Is(f)
    BY <1>5, <1>6
<1>8. Offsets(names) = CHOOSE h : Is(h)
    BY DEF Offsets, N
<1>9. Is(Offsets(names))
    <2> HIDE DEF Is
    <2> QED
        BY <1>7, <1>8
<1> DEFINE at == Offsets(names)
<1>10. at = [n \in 0 .. N |-> IF n = 0 THEN 0 ELSE at[n - 1] + names[n] + 1]
    BY <1>9
<1> HIDE DEF at, Is
<1>11. \A n \in 0 .. N : at[n] = IF n = 0 THEN 0 ELSE at[n - 1] + names[n] + 1
    BY <1>10
<1>12. at[0] = 0
    BY <1>1, <1>11
<1>13. ASSUME NEW n \in 1 .. N PROVE at[n] = at[n - 1] + names[n] + 1
    <2>1. n \in 0 .. N /\ n # 0
        BY <1>1
    <2> QED
        BY <1>11, <2>1
<1>14. \A n \in 0 .. N : at[n] \in Nat
    <2> DEFINE D == {n \in Nat : n <= N => at[n] \in Nat}
    <2>1. 0 \in D /\ D \in SUBSET Nat
        BY <1>12
    <2>2. ASSUME NEW n \in D PROVE n + 1 \in D
        <3>1. SUFFICES ASSUME n + 1 <= N PROVE at[n + 1] \in Nat
            OBVIOUS
        <3>2. n + 1 \in 1 .. N /\ (n + 1) - 1 = n /\ at[n] \in Nat
            BY <1>1, <3>1
        <3> QED
            BY <1>1, <1>13, <3>2
    <2> HIDE DEF D
    <2>3. D = Nat
        BY <2>1, <2>2, NatSetInduction
    <2> QED
        BY <1>1, <2>3 DEF D
<1>15. at \in [0 .. N -> Nat]
    BY <1>10, <1>14
<1> QED
    BY <1>12, <1>13, <1>15 DEF IsOffsets, at, N

\* A later offset is greater, by one at least for each name between.
LEMMA OffsetsGrow ==
    ASSUME NEW names \in Seq(Nat), NEW at, IsOffsets(names, at)
    PROVE  \A m, n \in 0 .. Len(names) : m <= n => at[m] + (n - m) <= at[n]
<1>1. ASSUME NEW m \in 0 .. Len(names) PROVE \A n \in 0 .. Len(names) : m <= n => at[m] + (n - m) <= at[n]
    <2> DEFINE D == {n \in Nat : m <= n /\ n <= Len(names) => at[m] + (n - m) <= at[n]}
    <2>0. /\ Len(names) \in Nat /\ m \in Nat
          /\ \A n \in 0 .. Len(names) : at[n] \in Nat
          /\ \A n \in 1 .. Len(names) : names[n] \in Nat
          /\ \A n \in 1 .. Len(names) : at[n] = at[n - 1] + names[n] + 1
        <3>1. \A n \in 1 .. Len(names) : names[n] \in Nat
            BY ElementOf
        <3>2. \A n \in 0 .. Len(names) : at[n] \in Nat
            BY DEF IsOffsets
        <3> QED
            BY <3>1, <3>2 DEF IsOffsets
    <2>1. 0 \in D /\ D \in SUBSET Nat
        <3>1. at[0] \in Nat
            BY <2>0
        <3> QED
            BY <2>0, <3>1
    <2>2. ASSUME NEW n \in D PROVE n + 1 \in D
        <3>0. n \in Nat /\ (m <= n /\ n <= Len(names) => at[m] + (n - m) <= at[n])
            OBVIOUS
        <3>1. SUFFICES ASSUME m <= n + 1, n + 1 <= Len(names)
                       PROVE  at[m] + ((n + 1) - m) <= at[n + 1]
            BY <3>0
        <3>2. CASE m = n + 1
            <4>1. at[n + 1] \in Nat
                BY <2>0, <3>2
            <4> QED
                BY <2>0, <3>2, <4>1
        <3>3. CASE m <= n
            <4>1. n + 1 \in 1 .. Len(names) /\ (n + 1) - 1 = n /\ n \in 0 .. Len(names)
                BY <2>0, <3>0, <3>1
            <4>2. at[n + 1] = at[n] + names[n + 1] + 1 /\ names[n + 1] \in Nat /\ at[n] \in Nat /\ at[m] \in Nat
                BY <2>0, <4>1
            <4>3. at[m] + (n - m) <= at[n]
                BY <3>0, <3>3, <4>1
            <4> QED
                BY <2>0, <3>0, <4>2, <4>3
        <3> QED
            BY <2>0, <3>0, <3>1, <3>2, <3>3
    <2> HIDE DEF D
    <2>3. D = Nat
        BY <2>1, <2>2, NatSetInduction
    <2>4. ASSUME NEW n \in 0 .. Len(names), m <= n PROVE at[m] + (n - m) <= at[n]
        <3>1. n \in D /\ n <= Len(names)
            BY <2>0, <2>3
        <3> QED
            BY <2>4, <3>1 DEF D
    <2> QED
        BY <2>4
<1> QED
    BY <1>1

\* Where the template string has a template's first character, and NULs.
Laid(us, bs, at, str) ==
    /\ str \in Seq({"U", "B", "x", NUL})
    /\ at[Len(us) + Len(bs)] <= Len(str)
    /\ \A n \in 1 .. Len(us) + Len(bs) :
         /\ str[at[n - 1] + 1] = IF n <= Len(us) THEN "U" ELSE "B"
         /\ str[at[n]] = NUL
         /\ \A q \in at[n - 1] + 1 .. at[n] - 1 : str[q] # NUL
    /\ \A q \in at[Len(us) + Len(bs)] + 1 .. Len(str) : str[q] = NUL

LEMMA PaddingIs ==
    ASSUME NEW n \in Nat
    PROVE  Padding(n) \in Nat
BY DEF Padding

LEMMA JoinedNames ==
    ASSUME NEW S, NEW us \in Seq(S), NEW bs \in Seq(S)
    PROVE  /\ us \o bs \in Seq(S) /\ Len(us \o bs) = Len(us) + Len(bs)
           /\ \A n \in 1 .. Len(us) : (us \o bs)[n] = us[n]
           /\ \A n \in 1 .. Len(bs) : (us \o bs)[Len(us) + n] = bs[n]
OBVIOUS

LEMMA TemplLaid ==
    ASSUME y \in Seq(Nat), unigram_templs \in Seq(Nat \ {0}), bigram_templs \in Seq(Nat \ {0})
    PROVE  Laid(unigram_templs, bigram_templs,
                Offsets(unigram_templs \o bigram_templs), TemplStr)
<1> DEFINE us == unigram_templs
           bs == bigram_templs
           names == us \o bs
           N == Len(us) + Len(bs)
           at == Offsets(names)
           pad == Padding(YSize + at[Len(names)])
           Char(p) ==
             IF \E n \in 1 .. Len(names) : p = at[n - 1] + 1
             THEN IF p <= at[Len(us)] THEN "U" ELSE "B"
             ELSE IF p > at[Len(names)] \/ \E n \in 1 .. Len(names) : p = at[n] THEN NUL ELSE "x"
<1>1. names \in Seq(Nat \ {0}) /\ names \in Seq(Nat) /\ Len(names) = N
    BY JoinedNames
<1>2. N \in Nat /\ Len(us) \in Nat /\ Len(us) <= N /\ N \in 0 .. N /\ Len(us) \in 0 .. N
    OBVIOUS
<1>3. \A n \in 1 .. N : names[n] \in Nat \ {0}
    BY <1>1, ElementOf
<1>4. IsOffsets(names, at) /\ \A m, n \in 0 .. Len(names) : m <= n => at[m] + (n - m) <= at[n]
    BY <1>1, OffsetsAre, OffsetsGrow
<1>5. TemplStr = [p \in 1 .. at[N] + pad |-> Char(p)]
    BY <1>1 DEF TemplStr
<1> HIDE DEF names, at
<1>6. pad \in Nat /\ at[N] \in Nat
    <2>1. YSize \in Nat
        <3>1. IsOffsets(y, Offsets(y))
            BY OffsetsAre
        <3>2. Len(y) \in 0 .. Len(y)
            OBVIOUS
        <3> QED
            BY <3>1, <3>2 DEF YSize, IsOffsets
    <2>2. at[Len(names)] \in Nat
        BY <1>1, <1>2, <1>4 DEF IsOffsets
    <2>3. YSize + at[Len(names)] \in Nat
        BY <2>1, <2>2
    <2> QED
        BY <1>1, <2>2, <2>3, PaddingIs
<1> HIDE DEF pad, N
<1>M. PICK M : M = at[N] + pad
    OBVIOUS
<1>p. M \in Nat /\ at[N] <= M /\ TemplStr = [p \in 1 .. M |-> Char(p)]
    BY <1>5, <1>6, <1>M
<1>7. /\ \A n \in 0 .. N : at[n] \in Nat
      /\ at[0] = 0
      /\ \A n \in 1 .. N : at[n] = at[n - 1] + names[n] + 1
    BY <1>1, <1>4 DEF IsOffsets
<1>8. ASSUME NEW n \in 1 .. N PROVE n - 1 \in 0 .. N /\ n \in 0 .. N /\ at[n] >= at[n - 1] + 2
    <2>1. n - 1 \in 0 .. N /\ n \in 0 .. N
        BY <1>2
    <2>2. at[n] = at[n - 1] + names[n] + 1 /\ at[n - 1] \in Nat /\ names[n] \in Nat \ {0}
        BY <1>3, <1>7, <2>1
    <2> QED
        BY <2>1, <2>2
<1>m. ASSUME NEW m \in 0 .. N, NEW n \in 0 .. N, m <= n PROVE at[m] <= at[n]
    <2>1. at[m] + (n - m) <= at[n] /\ at[m] \in Nat /\ at[n] \in Nat
        BY <1>1, <1>4, <1>7, <1>m
    <2> QED
        BY <1>2, <1>m, <2>1
<1>9. \A p \in 1 .. M : Char(p) \in {"U", "B", "x", NUL} /\ TemplStr[p] = Char(p)
    BY <1>p
<1>10. TemplStr \in Seq({"U", "B", "x", NUL}) /\ Len(TemplStr) = M
    <2>1. TemplStr \in [1 .. M -> {"U", "B", "x", NUL}]
        <3>1. \A p \in 1 .. M : Char(p) \in {"U", "B", "x", NUL}
            BY <1>9
        <3> HIDE DEF Char
        <3> QED
            BY <1>p, <3>1
    <2>2. M \in Nat
        BY <1>p, <1>6
    <2> QED
        BY <2>1, <2>2
<1>11. ASSUME NEW n \in 0 .. N PROVE at[n] <= at[N]
    <2>1. n <= N
        BY <1>2
    <2> QED
        BY <1>2, <1>m, <2>1
<1>12. ASSUME NEW n \in 1 .. N
       PROVE  at[n - 1] + 1 \in 1 .. M /\ at[n] \in 1 .. M
    <2>1. n - 1 \in 0 .. N /\ n \in 0 .. N /\ at[n] >= at[n - 1] + 2
        BY <1>8
    <2>2. PICK a, b, c : a = at[n - 1] /\ b = at[n] /\ c = at[N]
        OBVIOUS
    <2>3. a \in Nat /\ b \in Nat /\ c \in Nat /\ b >= a + 2 /\ b <= c /\ c <= M
        BY <1>6, <1>7, <1>11, <1>p, <2>1, <2>2
    <2>4. a + 1 \in 1 .. M /\ b \in 1 .. M
        BY <1>p, <2>3
    <2> QED
        BY <2>2, <2>4
\* No first character is where another ends.
<1>13. \A n, m \in 1 .. N : at[n] # at[m - 1] + 1
    <2>1. SUFFICES ASSUME NEW n \in 1 .. N, NEW m \in 1 .. N PROVE at[n] # at[m - 1] + 1
        OBVIOUS
    <2>2. /\ n - 1 \in 0 .. N /\ n \in 0 .. N /\ m - 1 \in 0 .. N
          /\ at[n] \in Nat /\ at[n - 1] \in Nat /\ at[m - 1] \in Nat /\ at[n] >= at[n - 1] + 2
        BY <1>7, <1>8
    <2>3. CASE m - 1 <= n - 1
        <3>1. at[m - 1] <= at[n - 1]
            BY <1>m, <2>2, <2>3
        <3> QED
            BY <2>2, <3>1
    <2>4. CASE n <= m - 1
        <3>1. at[n] <= at[m - 1]
            BY <1>m, <2>2, <2>4
        <3> QED
            BY <2>2, <3>1
    <2> QED
        BY <2>3, <2>4
<1>14. ASSUME NEW n \in 1 .. N
       PROVE  /\ TemplStr[at[n - 1] + 1] = IF n <= Len(us) THEN "U" ELSE "B"
              /\ TemplStr[at[n]] = NUL
              /\ \A q \in at[n - 1] + 1 .. at[n] - 1 : TemplStr[q] # NUL
    <2>0. n - 1 \in 0 .. N /\ n \in 0 .. N /\ Len(us) \in 0 .. N /\ at[n] \in Nat /\ at[n - 1] \in Nat
          /\ at[Len(us)] \in Nat /\ at[n] >= at[n - 1] + 2 /\ Len(names) = N
        BY <1>1, <1>2, <1>7, <1>8
    <2>1. TemplStr[at[n - 1] + 1] = IF n <= Len(us) THEN "U" ELSE "B"
        <3>1. TemplStr[at[n - 1] + 1] = Char(at[n - 1] + 1)
            BY <1>9, <1>12
        <3>2. Char(at[n - 1] + 1) = IF at[n - 1] + 1 <= at[Len(us)] THEN "U" ELSE "B"
            BY <2>0
        <3>3. CASE n <= Len(us)
            <4>1. at[n] <= at[Len(us)]
                BY <1>m, <2>0, <3>3
            <4>2. at[n - 1] + 1 <= at[Len(us)]
                BY <2>0, <4>1
            <4> QED
                BY <3>1, <3>2, <3>3, <4>2
        <3>4. CASE ~(n <= Len(us))
            <4>1. Len(us) <= n - 1
                BY <2>0, <3>4
            <4>2. at[Len(us)] <= at[n - 1]
                BY <1>m, <2>0, <4>1
            <4>3. ~(at[n - 1] + 1 <= at[Len(us)])
                BY <2>0, <4>2
            <4> QED
                BY <3>1, <3>2, <3>4, <4>3
        <3> QED
            BY <3>3, <3>4
    <2>2. TemplStr[at[n]] = NUL
        <3>1. TemplStr[at[n]] = Char(at[n])
            BY <1>9, <1>12
        <3>2. ~\E m \in 1 .. Len(names) : at[n] = at[m - 1] + 1
            BY <1>13, <2>0
        <3> QED
            BY <2>0, <3>1, <3>2
    <2>3. ASSUME NEW q \in at[n - 1] + 1 .. at[n] - 1 PROVE TemplStr[q] # NUL
        <3>1. q \in 1 .. M /\ q <= at[N]
            <4>1. PICK a, b, c : a = at[n - 1] /\ b = at[n] /\ c = at[N]
                OBVIOUS
            <4>2. a \in Nat /\ b \in Nat /\ c \in Nat /\ b <= c /\ c <= M /\ q \in a + 1 .. b - 1
                BY <1>6, <1>11, <1>p, <2>0, <4>1
            <4>3. q \in 1 .. M /\ q <= c
                BY <1>p, <4>2
            <4> QED
                BY <4>1, <4>3
        <3>2. ASSUME NEW m \in 1 .. N PROVE q # at[m]
            <4>1. m \in 0 .. N /\ at[m] \in Nat
                BY <1>7, <1>8
            <4>2. CASE m <= n - 1
                <5>1. at[m] <= at[n - 1]
                    BY <1>m, <2>0, <4>1, <4>2
                <5> QED
                    BY <2>0, <4>1, <5>1
            <4>3. CASE n <= m
                <5>1. at[n] <= at[m]
                    BY <1>m, <2>0, <4>1, <4>3
                <5> QED
                    BY <2>0, <4>1, <5>1
            <4> QED
                BY <2>0, <4>1, <4>2, <4>3
        <3>3. Char(q) # NUL
            <4>1. ~(q > at[N])
                BY <1>6, <3>1
            <4>2. ~\E m \in 1 .. Len(names) : q = at[m]
                BY <2>0, <3>2
            <4> QED
                BY <2>0, <4>1, <4>2 DEF NUL
        <3> QED
            BY <1>9, <3>1, <3>3
    <2> QED
        BY <2>1, <2>2, <2>3
<1>15. ASSUME NEW q \in at[N] + 1 .. Len(TemplStr) PROVE TemplStr[q] = NUL
    <2>1. q \in 1 .. M /\ q > at[N]
        BY <1>p, <1>6, <1>10
    <2>2. ASSUME NEW m \in 1 .. N PROVE q # at[m - 1] + 1
        <3>0. m - 1 \in 0 .. N /\ m \in 0 .. N /\ at[m] >= at[m - 1] + 2
            BY <1>8
        <3>1. at[m] <= at[N] /\ at[m - 1] \in Nat /\ at[m] \in Nat
            BY <1>7, <1>11, <3>0
        <3> QED
            BY <1>p, <1>6, <2>1, <3>0, <3>1
    <2>3. Char(q) = NUL
        BY <1>1, <2>1, <2>2
    <2> QED
        BY <1>9, <2>1, <2>3
<1>16. at[N] <= Len(TemplStr)
    BY <1>p, <1>6, <1>10
<1> HIDE DEF Char
<1> QED
    BY <1>10, <1>14, <1>15, <1>16 DEF Laid, at, names, N

\* What a turn of the reader's loop starts from and gives.
Readers == [pos : Nat \ {0}, unigram : Seq(Int), bigram : Seq(Int)]

Chars == {"U", "B", "x", NUL}

\* A turn goes from its NUL to the next and counts what is between.
TurnTo(str, at, nul, to) ==
    LET type == str[at.pos]
        length == nul - at.pos
    IN to = [pos |-> nul + 1,
             unigram |-> IF type = "U" THEN Append(at.unigram, length) ELSE at.unigram,
             bigram |-> IF type = "B" THEN Append(at.bigram, length) ELSE at.bigram]

IsTurn(str, at, to) ==
    IF at.pos > Len(str) THEN to = at
    ELSE \E nul \in Nat :
           /\ TurnTo(str, at, nul, to)
           /\ at.pos <= nul
           /\ nul <= Len(str) => str[nul] = NUL
           /\ str[at.pos] # NUL =>
                \A q \in at.pos .. Len(str) : str[q] = NUL => nul <= q

LEMMA TurnIs ==
    ASSUME NEW str \in Seq(Chars), NEW at \in Readers, NEW to, to = Turn(str, at)
    PROVE  IsTurn(str, at, to) /\ to \in Readers
<1> DEFINE memory == str \o <<"x", NUL>>
           type == memory[at.pos]
           start == IF type = NUL THEN at.pos + 1 ELSE at.pos
           T == {q \in start .. Len(memory) : memory[q] = NUL}
           nul == Min(T)
<1>1. CASE at.pos > Len(str)
    BY <1>1 DEF Turn, IsTurn
<1>2. CASE ~(at.pos > Len(str))
    <2>1. /\ Len(str) \in Nat /\ Len(memory) = Len(str) + 2 /\ memory[Len(str) + 2] = NUL
          /\ \A q \in 1 .. Len(str) : memory[q] = str[q]
        OBVIOUS
    <2>2. at.pos \in 1 .. Len(str) /\ type = str[at.pos]
        BY <1>2, <2>1 DEF Readers
    <2>3. /\ at.unigram \in Seq(Int) /\ at.bigram \in Seq(Int)
          /\ at = [pos |-> at.pos, unigram |-> at.unigram, bigram |-> at.bigram]
        BY DEF Readers
    <2>4. to = [pos |-> nul + 1,
                unigram |-> IF type = "U" THEN Append(at.unigram, nul - at.pos) ELSE at.unigram,
                bigram |-> IF type = "B" THEN Append(at.bigram, nul - at.pos) ELSE at.bigram]
        BY <1>2 DEF Turn
    <2> HIDE DEF memory, type
    <2>5. start \in Nat /\ at.pos <= start /\ start <= Len(str) + 1 /\ (type = NUL => start = at.pos + 1)
          /\ (type # NUL => start = at.pos)
        BY <2>1, <2>2
    <2> HIDE DEF start
    <2>6. T \in SUBSET Nat /\ T # {}
        <3>1. Len(str) + 2 \in T
            BY <2>1, <2>5
        <3> QED
            BY <2>1, <2>5, <3>1
    <2>7. nul \in T /\ \A q \in T : nul <= q
        <3> HIDE DEF T
        <3> QED
            BY <2>6, MinIs
    <2>8. PICK z : z = nul
        OBVIOUS
    <2>9. /\ z \in Nat /\ start <= z /\ z <= Len(str) + 2 /\ memory[z] = NUL
          /\ \A q \in start .. Len(str) : str[q] = NUL => z <= q
        <3>1. z \in Nat /\ start <= z /\ z <= Len(str) + 2 /\ memory[z] = NUL
            BY <2>1, <2>5, <2>7, <2>8
        <3>2. ASSUME NEW q \in start .. Len(str), str[q] = NUL PROVE z <= q
            <4>1. q \in 1 .. Len(str) /\ q \in start .. Len(memory)
                BY <2>1, <2>2, <2>5
            <4>2. q \in T
                BY <2>1, <3>2, <4>1
            <4> QED
                BY <2>7, <2>8, <4>2
        <3> QED
            BY <3>1, <3>2
    <2> HIDE DEF T, nul
    <2>10. TurnTo(str, at, z, to)
        BY <2>2, <2>4, <2>8 DEF TurnTo
    <2>11. at.pos <= z
        BY <2>2, <2>5, <2>9
    <2>12. z <= Len(str) => str[z] = NUL
        BY <2>1, <2>2, <2>9, <2>11
    <2>14. str[at.pos] # NUL => \A q \in at.pos .. Len(str) : str[q] = NUL => z <= q
        BY <2>2, <2>5, <2>9
    <2>15. to \in Readers
        <3>1. z - at.pos \in Int /\ z + 1 \in Nat \ {0}
            BY <2>2, <2>9
        <3>2. Append(at.unigram, z - at.pos) \in Seq(Int) /\ Append(at.bigram, z - at.pos) \in Seq(Int)
            BY <2>3, <3>1
        <3> QED
            BY <2>3, <2>4, <2>8, <3>1, <3>2 DEF Readers
    <2>16. IsTurn(str, at, to)
        BY <1>2, <2>9, <2>10, <2>11, <2>12, <2>14 DEF IsTurn
    <2> QED
        BY <2>15, <2>16
<1> QED
    BY <1>1, <1>2

\* What n turns have read: a template each, then padding.
HasRead(us, bs, at, n, reader) ==
    IF n <= Len(us) + Len(bs)
    THEN /\ reader.pos = at[n] + 1
         /\ reader.unigram = SubSeq(us, 1, IF n <= Len(us) THEN n ELSE Len(us))
         /\ reader.bigram = SubSeq(bs, 1, IF n <= Len(us) THEN 0 ELSE n - Len(us))
    ELSE /\ reader.pos > at[Len(us) + Len(bs)]
         /\ reader.unigram = us /\ reader.bigram = bs

LEMMA OneMore ==
    ASSUME NEW S, NEW s \in Seq(S), NEW n \in Nat, n + 1 <= Len(s)
    PROVE  SubSeq(s, 1, n + 1) = Append(SubSeq(s, 1, n), s[n + 1])
<1> DEFINE t == SubSeq(s, 1, n)
           u == SubSeq(s, 1, n + 1)
<1>1. t \in Seq(S) /\ Len(t) = n /\ \A i \in 1 .. n : t[i] = s[i]
    OBVIOUS
<1>2. u \in Seq(S) /\ Len(u) = n + 1 /\ \A i \in 1 .. n + 1 : u[i] = s[i]
    OBVIOUS
<1> HIDE DEF t, u
<1>3. PICK v : v = Append(t, s[n + 1])
    OBVIOUS
<1>4. s[n + 1] \in S
    <2>1. n + 1 \in 1 .. Len(s)
        OBVIOUS
    <2> QED
        BY <2>1, ElementOf
<1>5. v \in Seq(S) /\ Len(v) = n + 1 /\ v[n + 1] = s[n + 1] /\ \A i \in 1 .. n : v[i] = t[i]
    BY <1>1, <1>3, <1>4
<1>6. \A i \in 1 .. n + 1 : i \in 1 .. n \/ i = n + 1
    OBVIOUS
<1>7. \A i \in 1 .. n + 1 : u[i] = v[i]
    BY <1>1, <1>2, <1>5, <1>6
<1>8. u = v
    BY <1>2, <1>5, <1>7
<1> QED
    BY <1>3, <1>8 DEF t, u

LEMMA ReadsOne ==
    ASSUME NEW us \in Seq(Nat \ {0}), NEW bs \in Seq(Nat \ {0}), NEW at, IsOffsets(us \o bs, at),
           NEW str, Laid(us, bs, at, str), NEW n \in Nat, NEW reader \in Readers,
           HasRead(us, bs, at, n, reader), NEW to, to = Turn(str, reader)
    PROVE  HasRead(us, bs, at, n + 1, to)
<1> DEFINE N == Len(us) + Len(bs)
           M == Len(str)
<1>1. /\ Len(us) \in Nat /\ Len(bs) \in Nat /\ N \in Nat /\ Len(us \o bs) = N
      /\ \A x \in 1 .. Len(us) : (us \o bs)[x] = us[x]
      /\ \A x \in 1 .. Len(bs) : (us \o bs)[Len(us) + x] = bs[x]
    BY JoinedNames
<1>2. str \in Seq(Chars) /\ M \in Nat
    BY DEF Laid, Chars
<1>3. IsTurn(str, reader, to) /\ to \in Readers
    BY <1>2, TurnIs
<1>4. \A x \in 0 .. N : at[x] \in Nat
    BY <1>1 DEF IsOffsets
<1>5. /\ at[N] <= M
      /\ \A q \in at[N] + 1 .. M : str[q] = NUL
    BY DEF Laid
<1>6. CASE n >= N
    <2>1. reader.pos > at[N] /\ reader.unigram = us /\ reader.bigram = bs
        <3>1. CASE n = N
            <4>1. reader.pos = at[N] + 1
                BY <1>1, <3>1 DEF HasRead
            <4>2. /\ reader.unigram = SubSeq(us, 1, IF n <= Len(us) THEN n ELSE Len(us))
                  /\ reader.bigram = SubSeq(bs, 1, IF n <= Len(us) THEN 0 ELSE n - Len(us))
                BY <1>1, <3>1 DEF HasRead
            <4>3. (IF n <= Len(us) THEN n ELSE Len(us)) = Len(us)
                  /\ (IF n <= Len(us) THEN 0 ELSE n - Len(us)) = Len(bs)
                BY <1>1, <3>1
            <4>4. SubSeq(us, 1, Len(us)) = us /\ SubSeq(bs, 1, Len(bs)) = bs
                OBVIOUS
            <4>5. at[N] \in Nat
                BY <1>1, <1>4
            <4>6. reader.unigram = us /\ reader.bigram = bs
                BY <4>2, <4>3, <4>4
            <4>7. at[N] + 1 > at[N]
                BY <4>5
            <4> QED
                BY <4>1, <4>6, <4>7
        <3>2. CASE n > N
            <4>1. ~(n <= N)
                BY <1>1, <3>2
            <4> QED
                BY <4>1 DEF HasRead
        <3>3. n = N \/ n > N
            <4>1. N \in Nat
                BY <1>1
            <4> HIDE DEF N
            <4> QED
                BY <1>6, <4>1
        <3> QED
            BY <3>1, <3>2, <3>3
    <2>2. to.unigram = us /\ to.bigram = bs /\ to.pos >= reader.pos
        <3>1. CASE reader.pos > M
            BY <1>3, <2>1, <3>1 DEF IsTurn, Readers
        <3>2. CASE ~(reader.pos > M)
            <4>1. PICK nul \in Nat : TurnTo(str, reader, nul, to) /\ reader.pos <= nul
                BY <1>3, <3>2 DEF IsTurn
            <4>2. str[reader.pos] = NUL
                <5>1. reader.pos \in Nat /\ at[N] \in Nat
                    BY <1>1, <1>4 DEF Readers
                <5>2. reader.pos \in at[N] + 1 .. M
                    BY <1>2, <2>1, <3>2, <5>1
                <5> QED
                    BY <1>5, <5>2
            <4>3. to = [pos |-> nul + 1, unigram |-> us, bigram |-> bs]
                BY <2>1, <4>1, <4>2 DEF TurnTo, NUL
            <4> QED
                BY <4>1, <4>3 DEF Readers
        <3> QED
            BY <3>1, <3>2
    <2>3. ~(n + 1 <= N)
        BY <1>1, <1>6
    <2>4. to.pos > at[N]
        <3>1. to.pos \in Nat /\ reader.pos \in Nat
            BY <1>3 DEF Readers
        <3>2. at[N] \in Nat
            BY <1>1, <1>4
        <3> QED
            BY <2>1, <2>2, <3>1, <3>2
    <2> QED
        BY <2>2, <2>3, <2>4 DEF HasRead
<1>7. CASE n < N
    <2>1. n + 1 \in 1 .. N /\ n \in 0 .. N /\ n + 1 \in 0 .. N /\ (n + 1) - 1 = n /\ n <= N /\ n + 1 <= N
        BY <1>1, <1>7
    <2>2. PICK a, b : a = at[n] /\ b = at[n + 1]
        OBVIOUS
    <2>3. PICK name : name = (us \o bs)[n + 1]
        OBVIOUS
    <2>4. /\ name = IF n < Len(us) THEN us[n + 1] ELSE bs[n + 1 - Len(us)]
          /\ name \in Nat \ {0}
        <3>1. CASE n < Len(us)
            <4>1. n + 1 \in 1 .. Len(us)
                BY <1>1, <3>1
            <4> QED
                BY <1>1, <2>3, <3>1, <4>1, ElementOf
        <3>2. CASE ~(n < Len(us))
            <4>1. PICK x : x = n + 1 - Len(us)
                OBVIOUS
            <4>2. x \in 1 .. Len(bs) /\ Len(us) + x = n + 1
                BY <1>1, <1>7, <3>2, <4>1
            <4>3. name = bs[x] /\ bs[x] \in Nat \ {0}
                BY <1>1, <2>3, <4>2, ElementOf
            <4> QED
                BY <3>2, <4>1, <4>3
        <3> QED
            BY <3>1, <3>2
    <2>5. a \in Nat /\ b \in Nat /\ b = a + name + 1
        BY <1>1, <1>4, <2>1, <2>2, <2>3 DEF IsOffsets
    <2>6. /\ str[a + 1] = IF n + 1 <= Len(us) THEN "U" ELSE "B"
          /\ str[b] = NUL
          /\ \A q \in a + 1 .. b - 1 : str[q] # NUL
        BY <2>1, <2>2 DEF Laid
    <2>n. name \in Nat \ {0}
        BY <2>4
    <2>7. b <= M
        <3>1. at[n + 1] + (N - (n + 1)) <= at[N]
            <4>1. us \o bs \in Seq(Nat)
                OBVIOUS
            <4>2. N \in 0 .. N
                BY <1>1
            <4> QED
                BY <1>1, <2>1, <4>1, <4>2, OffsetsGrow
        <3>2. at[N] \in Nat
            BY <1>1, <1>4
        <3> QED
            BY <1>1, <1>2, <1>5, <1>7, <2>2, <2>5, <3>1, <3>2
    <2>8. /\ reader.pos = a + 1
          /\ reader.unigram = SubSeq(us, 1, IF n <= Len(us) THEN n ELSE Len(us))
          /\ reader.bigram = SubSeq(bs, 1, IF n <= Len(us) THEN 0 ELSE n - Len(us))
        BY <2>1, <2>2 DEF HasRead
    <2>9. PICK nul \in Nat :
            /\ TurnTo(str, reader, nul, to)
            /\ a + 1 <= nul
            /\ nul <= M => str[nul] = NUL
            /\ str[a + 1] # NUL => \A q \in a + 1 .. M : str[q] = NUL => nul <= q
        <3>1. ~(reader.pos > M)
            BY <1>2, <2>n, <2>5, <2>7, <2>8
        <3> QED
            BY <1>3, <2>8, <3>1 DEF IsTurn
    <2>10. nul = b
        <3>1. str[a + 1] # NUL
            BY <2>6 DEF NUL
        <3>2. b \in a + 1 .. M
            BY <1>2, <2>n, <2>5, <2>7
        <3>3. nul <= b
            BY <2>6, <2>9, <3>1, <3>2
        <3>4. SUFFICES ASSUME nul # b PROVE FALSE
            OBVIOUS
        <3>5. nul \in a + 1 .. b - 1 /\ nul <= M
            BY <1>2, <2>5, <2>7, <2>9, <3>3, <3>4
        <3> QED
            BY <2>6, <2>9, <3>5
    <2>11. nul - (a + 1) = name
        BY <2>n, <2>5, <2>10
    <2>12. to = [pos |-> b + 1,
                 unigram |-> IF n + 1 <= Len(us) THEN Append(reader.unigram, name) ELSE reader.unigram,
                 bigram |-> IF n + 1 <= Len(us) THEN reader.bigram ELSE Append(reader.bigram, name)]
        BY <2>6, <2>8, <2>9, <2>10, <2>11 DEF TurnTo
    <2>13. CASE n + 1 <= Len(us)
        <3>1. n < Len(us) /\ n <= Len(us)
            BY <1>1, <2>13
        <3>2. SubSeq(us, 1, n + 1) = Append(SubSeq(us, 1, n), us[n + 1])
            BY <2>13, OneMore
        <3>3. to = [pos |-> b + 1, unigram |-> SubSeq(us, 1, n + 1), bigram |-> SubSeq(bs, 1, 0)]
            BY <2>4, <2>8, <2>12, <2>13, <3>1, <3>2
        <3> QED
            BY <2>1, <2>2, <2>13, <3>3 DEF HasRead
    <2>14. CASE ~(n + 1 <= Len(us))
        <3>1. PICK x \in Nat : n = Len(us) + x
            <4>1. n - Len(us) \in Nat /\ n = Len(us) + (n - Len(us))
                BY <1>1, <2>14
            <4> QED
                BY <4>1
        <3>2. x + 1 <= Len(bs) /\ n + 1 - Len(us) = x + 1 /\ ~(n < Len(us)) /\ (n + 1) - Len(us) = x + 1
            BY <1>1, <1>7, <2>14, <3>1
        <3>3. SubSeq(bs, 1, x + 1) = Append(SubSeq(bs, 1, x), bs[x + 1])
            BY <3>2, OneMore
        <3>4. /\ (IF n <= Len(us) THEN n ELSE Len(us)) = Len(us)
              /\ (IF n <= Len(us) THEN 0 ELSE n - Len(us)) = x
            BY <1>1, <3>1
        <3>5. to = [pos |-> b + 1, unigram |-> SubSeq(us, 1, Len(us)), bigram |-> SubSeq(bs, 1, x + 1)]
            BY <2>4, <2>8, <2>12, <2>14, <3>2, <3>3, <3>4
        <3>6. ~(n + 1 <= Len(us)) /\ n + 1 <= N /\ at[n + 1] = b
            BY <2>1, <2>2, <2>14
        <3>7. to.pos = at[n + 1] + 1
            BY <3>5, <3>6
        <3>8. /\ to.unigram = SubSeq(us, 1, IF n + 1 <= Len(us) THEN n + 1 ELSE Len(us))
              /\ to.bigram = SubSeq(bs, 1, IF n + 1 <= Len(us) THEN 0 ELSE (n + 1) - Len(us))
            <4>1. /\ (IF n + 1 <= Len(us) THEN n + 1 ELSE Len(us)) = Len(us)
                  /\ (IF n + 1 <= Len(us) THEN 0 ELSE (n + 1) - Len(us)) = x + 1
                BY <3>2, <3>6
            <4>2. to.unigram = SubSeq(us, 1, Len(us)) /\ to.bigram = SubSeq(bs, 1, x + 1)
                BY <3>5
            <4> QED
                BY <4>1, <4>2
        <3> QED
            BY <3>6, <3>7, <3>8 DEF HasRead
    <2> QED
        BY <2>13, <2>14
<1> QED
    BY <1>1, <1>6, <1>7

\* The states of the reader's loop, as the model computes them.
IsReading(str, after) ==
    after = [n \in 0 .. Len(str) |->
               IF n = 0 THEN [pos |-> 1, unigram |-> <<>>, bigram |-> <<>>]
               ELSE Turn(str, after[n - 1])]

LEMMA Readings ==
    ASSUME NEW str \in Seq(Chars)
    PROVE  \E after : IsReading(str, after)
<1> DEFINE n == Len(str)
           g == [x \in 1 .. n |-> [a \in Readers |-> Turn(str, a)]]
           v == [pos |-> 1, unigram |-> <<>>, bigram |-> <<>>]
<1>1. n \in Nat
    OBVIOUS
<1>2. v \in Readers
    BY DEF Readers
<1>3. g \in [1 .. n -> [Readers -> Readers]]
    <2>1. ASSUME NEW a \in Readers PROVE Turn(str, a) \in Readers
        BY TurnIs
    <2> QED
        BY <2>1
<1>4. \A x \in 1 .. n : \A a \in Readers : g[x][a] = Turn(str, a)
    OBVIOUS
<1> HIDE DEF g, v, n
<1>5. PICK w : Iterated(n, Readers, v, g, w)
    BY <1>1, <1>2, <1>3, Iterates
<1>6. w \in [0 .. n -> Readers] /\ w[0] = v /\ \A x \in 1 .. n : w[x] = g[x][w[x - 1]]
    BY <1>5 DEF Iterated
<1>7. ASSUME NEW x \in 0 .. n
      PROVE  w[x] = IF x = 0 THEN v ELSE Turn(str, w[x - 1])
    <2>1. CASE x = 0
        BY <1>6, <2>1
    <2>2. CASE x # 0
        <3>1. x \in 1 .. n /\ x - 1 \in 0 .. n
            BY <1>1, <2>2
        <3> QED
            BY <1>4, <1>6, <2>2, <3>1
    <2> QED
        BY <2>1, <2>2
<1>8. w = [x \in 0 .. n |-> IF x = 0 THEN v ELSE Turn(str, w[x - 1])]
    BY <1>6, <1>7
<1> QED
    BY <1>8 DEF IsReading, n, v

LEMMA ReadsTempls ==
    ASSUME NEW us \in Seq(Nat \ {0}), NEW bs \in Seq(Nat \ {0}), NEW at, IsOffsets(us \o bs, at),
           NEW str, Laid(us, bs, at, str)
    PROVE  TemplsOf(str).unigram = us /\ TemplsOf(str).bigram = bs
<1> DEFINE w == CHOOSE u : IsReading(str, u)
           N == Len(us) + Len(bs)
           M == Len(str)
<1>0. /\ Len(us) \in Nat /\ Len(bs) \in Nat /\ N \in Nat /\ M \in Nat /\ Len(us \o bs) = N
      /\ us \o bs \in Seq(Nat)
    BY JoinedNames DEF Laid
<1>1. str \in Seq(Chars)
    BY DEF Laid, Chars
<1>2. IsReading(str, w)
    BY <1>1, Readings
<1>3. TemplsOf(str) = w[M]
    BY DEF TemplsOf, IsReading
<1> HIDE DEF w
<1>4. \A n \in 0 .. M :
        w[n] = IF n = 0 THEN [pos |-> 1, unigram |-> <<>>, bigram |-> <<>>]
               ELSE Turn(str, w[n - 1])
    BY <1>2 DEF IsReading
<1>5. w[0] = [pos |-> 1, unigram |-> <<>>, bigram |-> <<>>]
    <2>1. 0 \in 0 .. M
        BY <1>0
    <2> QED
        BY <1>4, <2>1
<1> HIDE DEF N, M
<1> DEFINE D == {n \in Nat : n <= M => w[n] \in Readers /\ HasRead(us, bs, at, n, w[n])}
<1>6. 0 \in D
    <2>1. w[0] \in Readers
        BY <1>5 DEF Readers
    <2>2. at[0] = 0
        BY DEF IsOffsets
    <2>3. SubSeq(us, 1, 0) = <<>> /\ SubSeq(bs, 1, 0) = <<>>
        OBVIOUS
    <2>4. 0 <= Len(us) + Len(bs) /\ 0 <= Len(us)
        BY <1>0
    <2>5. HasRead(us, bs, at, 0, w[0])
        BY <1>5, <2>2, <2>3, <2>4 DEF HasRead
    <2> QED
        BY <2>1, <2>5
<1>7. ASSUME NEW n \in D PROVE n + 1 \in D
    <2>1. SUFFICES ASSUME n + 1 <= M
                   PROVE  w[n + 1] \in Readers /\ HasRead(us, bs, at, n + 1, w[n + 1])
        OBVIOUS
    <2>2. n \in Nat /\ n <= M /\ n + 1 \in 0 .. M /\ n + 1 # 0 /\ (n + 1) - 1 = n
        BY <1>0, <2>1
    <2>3. w[n] \in Readers /\ HasRead(us, bs, at, n, w[n])
        BY <2>2
    <2>4. w[n + 1] = Turn(str, w[n])
        BY <1>4, <2>2
    <2> QED
        BY <1>1, <2>2, <2>3, <2>4, TurnIs, ReadsOne
<1>8. D = Nat
    <2>1. D \in SUBSET Nat
        OBVIOUS
    <2> HIDE DEF D
    <2> QED
        BY <1>6, <1>7, <2>1, NatSetInduction
<1>9. HasRead(us, bs, at, M, w[M])
    <2>1. M \in D
        BY <1>0, <1>8
    <2>2. M <= M
        BY <1>0
    <2> QED
        BY <2>1, <2>2
<1>10. N <= M
    <2>1. at[0] + (N - 0) <= at[N]
        <3>1. 0 \in 0 .. N /\ N \in 0 .. N /\ 0 <= N
            BY <1>0
        <3> QED
            BY <1>0, <3>1, OffsetsGrow
    <2>2. at[0] = 0 /\ at[N] \in Nat /\ at[N] <= M
        <3>1. N \in 0 .. N
            BY <1>0
        <3>2. at[N] \in Nat /\ at[0] = 0
            BY <1>0, <3>1 DEF IsOffsets
        <3> QED
            BY <3>2 DEF Laid, N, M
    <2> QED
        BY <1>0, <2>1, <2>2
<1>11. CASE M > N
    <2>1. ~(M <= Len(us) + Len(bs))
        BY <1>0, <1>11 DEF N
    <2> QED
        BY <1>3, <1>9, <2>1 DEF HasRead
<1>12. CASE M = N
    <2>1. M <= Len(us) + Len(bs)
        BY <1>0, <1>12 DEF N
    <2>2. /\ w[M].unigram = SubSeq(us, 1, IF M <= Len(us) THEN M ELSE Len(us))
          /\ w[M].bigram = SubSeq(bs, 1, IF M <= Len(us) THEN 0 ELSE M - Len(us))
        BY <1>9, <2>1 DEF HasRead
    <2>3. /\ (IF M <= Len(us) THEN M ELSE Len(us)) = Len(us)
          /\ (IF M <= Len(us) THEN 0 ELSE M - Len(us)) = Len(bs)
        BY <1>0, <1>12 DEF N
    <2>4. SubSeq(us, 1, Len(us)) = us /\ SubSeq(bs, 1, Len(bs)) = bs
        OBVIOUS
    <2> QED
        BY <1>3, <2>2, <2>3, <2>4
<1> QED
    BY <1>0, <1>10, <1>11, <1>12

-----------------------------------------------------------------------------
(* The order of the keys, and the dictionary of a text model. *)

LEMMA BeforeIrreflexive ==
    ASSUME NEW k \in Seq(Int)
    PROVE  ~Before(k, k)
<1>1. SUFFICES ASSUME NEW i \in 1 .. Len(k), i > Len(k) \/ k[i] < k[i] PROVE FALSE
    BY DEF Before
<1>2. k[i] \in Int /\ ~(i > Len(k))
    BY ElementOf
<1> QED
    BY <1>1, <1>2

LEMMA BeforeTransitive ==
    ASSUME NEW k \in Seq(Int), NEW l \in Seq(Int), NEW m \in Seq(Int),
           Before(k, l), Before(l, m)
    PROVE  Before(k, m)
<1>0. Len(k) \in Nat /\ Len(l) \in Nat /\ Len(m) \in Nat
    OBVIOUS
<1>1. PICK a \in 1 .. Len(l) :
        /\ \A j \in 1 .. a - 1 : j <= Len(k) /\ k[j] = l[j]
        /\ a > Len(k) \/ k[a] < l[a]
    BY DEF Before
<1>2. PICK b \in 1 .. Len(m) :
        /\ \A j \in 1 .. b - 1 : j <= Len(l) /\ l[j] = m[j]
        /\ b > Len(l) \/ l[b] < m[b]
    BY DEF Before
<1>3. CASE a < b
    <2>1. a \in 1 .. b - 1 /\ a \in 1 .. Len(m) /\ \A j \in 1 .. a - 1 : j \in 1 .. b - 1
        BY <1>0, <1>3
    <2>2. l[a] = m[a] /\ \A j \in 1 .. a - 1 : j <= Len(k) /\ k[j] = m[j]
        BY <1>1, <1>2, <2>1
    <2>3. a > Len(k) \/ k[a] < m[a]
        BY <1>1, <2>2
    <2> QED
        BY <2>1, <2>2, <2>3 DEF Before
<1>4. CASE b < a
    <2>1. b \in 1 .. a - 1 /\ b \in 1 .. Len(l) /\ ~(b > Len(l)) /\ \A j \in 1 .. b - 1 : j \in 1 .. a - 1
        BY <1>0, <1>4
    <2>2. k[b] = l[b] /\ \A j \in 1 .. b - 1 : j <= Len(k) /\ k[j] = m[j]
        BY <1>1, <1>2, <2>1
    <2>3. k[b] < m[b]
        BY <1>2, <2>1, <2>2
    <2> QED
        BY <2>2, <2>3 DEF Before
<1>5. CASE a = b
    <2>1. \A j \in 1 .. b - 1 : j <= Len(k) /\ k[j] = m[j]
        BY <1>1, <1>2, <1>5
    <2>2. ~(b > Len(l)) /\ l[b] \in Int /\ m[b] \in Int /\ b \in 1 .. Len(l)
        BY <1>0, <1>5, ElementOf
    <2>3. b > Len(k) \/ k[b] < m[b]
        <3>1. CASE b > Len(k)
            BY <3>1
        <3>2. CASE ~(b > Len(k))
            <4>1. b \in 1 .. Len(k)
                BY <1>0, <3>2
            <4>2. k[b] \in Int
                BY <4>1, ElementOf
            <4>3. k[b] < l[b] /\ l[b] < m[b]
                BY <1>1, <1>2, <1>5, <2>2, <3>2
            <4> QED
                BY <2>2, <4>2, <4>3
        <3> QED
            BY <3>1, <3>2
    <2> QED
        BY <2>1, <2>3 DEF Before
<1> QED
    BY <1>3, <1>4, <1>5

\* The key with fewest others before it has none before it.
LEMMA FirstKey ==
    ASSUME NEW T, IsFiniteSet(T), T # {}, T \subseteq Seq(Int)
    PROVE  \E k \in T : \A l \in T : ~Before(l, k)
<1> DEFINE Preceding(k) == {l \in T : Before(l, k)}
           C == {Cardinality(Preceding(k)) : k \in T}
<1>1. ASSUME NEW k \in T PROVE IsFiniteSet(Preceding(k)) /\ Cardinality(Preceding(k)) \in Nat
    BY FS_Subset, FS_CardinalityType
<1>2. C \in SUBSET Nat /\ C # {}
    <2> HIDE DEF Preceding
    <2> QED
        BY <1>1
<1>3. PICK c \in C : \A d \in C : c <= d
    <2> HIDE DEF C
    <2> QED
        BY <1>2, LeastNat
<1>4. PICK k \in T : c = Cardinality(Preceding(k))
    OBVIOUS
<1>5. ASSUME NEW l \in T, Before(l, k) PROVE FALSE
    <2>1. Preceding(l) \subseteq Preceding(k)
        <3>1. ASSUME NEW m \in T, Before(m, l) PROVE Before(m, k)
            BY <1>5, <3>1, BeforeTransitive
        <3> QED
            BY <3>1
    <2>2. l \in Preceding(k) /\ l \notin Preceding(l)
        BY <1>5, BeforeIrreflexive
    <2> HIDE DEF Preceding
    <2>3. Cardinality(Preceding(l)) <= Cardinality(Preceding(k))
          /\ Cardinality(Preceding(l)) # Cardinality(Preceding(k))
        BY <1>1, <2>1, <2>2, FS_Subset
    <2>4. Cardinality(Preceding(k)) <= Cardinality(Preceding(l))
        BY <1>3, <1>4
    <2> QED
        BY <1>1, <2>3, <2>4
<1> QED
    BY <1>5

\* The encoder's dictionary: numbers, perhaps negative ones.
IsDic(d) == IsMap(d) /\ IsFiniteSet(DOMAIN d)

LEMMA KeysTyped ==
    ASSUME NEW d, IsMap(d), NEW k \in DOMAIN d
    PROVE  k \in Seq(1 .. MaxChar) /\ k \in Seq(Int) /\ Len(k) \in Nat
<1>1. k \in Seq(1 .. MaxChar)
    BY DEF IsMap
<1>2. k \in Seq(Int)
    BY <1>1, MaxCharAssumption
<1> QED
    BY <1>1, <1>2

LEMMA ColumnTyped ==
    ASSUME NEW k \in Seq(1 .. MaxChar)
    PROVE  Column(k) \in Seq(1 .. MaxChar)
<1> DEFINE blanks == {i \in 1 .. Len(k) : k[i] = Blank}
<1>1. CASE blanks = {}
    BY <1>1 DEF Column
<1>2. CASE blanks # {}
    <2>1. blanks \in SUBSET Nat
        OBVIOUS
    <2>2. PICK b : b = Min(blanks)
        OBVIOUS
    <2>3. b \in blanks
        <3> HIDE DEF blanks
        <3> QED
            BY <1>2, <2>1, <2>2, MinIs
    <2>4. b \in 1 .. Len(k)
        BY <2>3
    <2>5. Column(k) = SubSeq(k, 1, b - 1)
        BY <1>2, <2>2 DEF Column
    <2>6. PICK n : n = b - 1
        OBVIOUS
    <2>7. n \in Nat /\ n <= Len(k)
        BY <2>4, <2>6
    <2>8. \A i \in 1 .. n : k[i] \in 1 .. MaxChar
        <3>1. \A i \in 1 .. n : i \in 1 .. Len(k)
            BY <2>7
        <3> QED
            BY <3>1, ElementOf
    <2>9. SubSeq(k, 1, n) = [i \in 1 .. n |-> k[i]]
        BY <2>7
    <2> QED
        BY <2>5, <2>6, <2>7, <2>8, <2>9
<1> QED
    BY <1>1, <1>2

LEMMA ConvertedIs ==
    ASSUME IsDic(dic)
    PROVE  /\ IsMap(Converted)
           /\ (\A k \in DOMAIN dic : Column(k) = k) => Converted = dic
<1> DEFINE Is(key, k) ==
             /\ Column(k) = key
             /\ \A l \in DOMAIN dic : Column(l) = key => ~Before(l, k)
           First(key) == CHOOSE k \in DOMAIN dic : Is(key, k)
           columns == {Column(k) : k \in DOMAIN dic}
<1>1. Converted = [key \in columns |-> dic[First(key)]]
    BY DEF Converted
<1>2. \A k \in DOMAIN dic : k \in Seq(1 .. MaxChar) /\ k \in Seq(Int)
    BY KeysTyped DEF IsDic
<1>3. ASSUME NEW key \in columns PROVE First(key) \in DOMAIN dic /\ Is(key, First(key))
    <2> DEFINE T == {k \in DOMAIN dic : Column(k) = key}
    <2>1. IsFiniteSet(T) /\ T # {} /\ T \subseteq Seq(Int)
        <3>1. IsFiniteSet(T)
            BY FS_Subset DEF IsDic
        <3> QED
            BY <1>2, <3>1
    <2>2. PICK k \in T : \A l \in T : ~Before(l, k)
        <3> HIDE DEF T
        <3> QED
            BY <2>1, FirstKey
    <2>3. k \in DOMAIN dic /\ Is(key, k)
        BY <2>2
    <2> HIDE DEF Is
    <2> QED
        BY <2>3
<1>4. IsMap(Converted)
    <2>1. columns \subseteq Seq(1 .. MaxChar) /\ columns # {}
        BY <1>2, ColumnTyped DEF IsDic, IsMap
    <2>2. \A key \in columns : dic[First(key)] \in Int
        <3> HIDE DEF First
        <3> QED
            BY <1>3 DEF IsDic, IsMap
    <2> HIDE DEF First, columns
    <2> QED
        BY <1>1, <2>1, <2>2 DEF IsMap
<1>5. ASSUME \A k \in DOMAIN dic : Column(k) = k PROVE Converted = dic
    <2>1. columns = DOMAIN dic
        BY <1>5
    <2>2. ASSUME NEW key \in DOMAIN dic PROVE First(key) = key
        <3>1. First(key) \in DOMAIN dic /\ Column(First(key)) = key
            BY <1>3, <2>1
        <3> HIDE DEF First
        <3> QED
            BY <1>5, <3>1
    <2>3. dic = [key \in DOMAIN dic |-> dic[key]]
        BY DEF IsDic, IsMap
    <2> HIDE DEF First, columns
    <2> QED
        BY <1>1, <2>1, <2>2, <2>3
<1> QED
    BY <1>4, <1>5

-----------------------------------------------------------------------------
(* The inductive invariant. *)

\* The encoder's index is what it was after learning.
Learned ==
    /\ y \in Seq(Nat)
    /\ unigram_templs \in Seq(Nat \ {0}) /\ bigram_templs \in Seq(Nat \ {0})
    /\ IsDic(dic) /\ DOMAIN dic \subseteq Keys

\* What the double array is built of.
Source == IF text = "converted" THEN Converted ELSE dic

\* Whether a double array of dic has been built.
Numbers ==
    (status \in {"saved", "opened", "rejected", "died"} \/ text = "converted") =>
        \A k \in DOMAIN dic : dic[k] >= 0

\* What the last save wrote, to where it was cut off.
Written(cut) ==
    [ysize |-> YSize, templ |-> TemplStr, units |-> units, size |-> size,
     dsize |-> UnitSize * size, maxid |-> maxid, cut |-> cut]

IInv ==
    /\ Learned
    /\ status = "learned" => text = "none"
    /\ status \notin {"learned", "failed"} => BuildInv /\ value = Source
    /\ Numbers
    /\ status = "saved" => Built /\ file = Written(file.cut)
    /\ FindsWhatWasSaved
    /\ OpensOnlyWhole

LEMMA NumberedIs ==
    ASSUME y \in Seq(Nat), NEW keys \in KeySets
    PROVE  IsDic(Numbered(keys)) /\ DOMAIN Numbered(keys) \subseteq Keys
<1>1. /\ keys \subseteq Keys /\ keys # {} /\ IsFiniteSet(keys)
      /\ keys \subseteq Seq(1 .. MaxChar)
    BY KeysAssumption
<1>2. ASSUME NEW k \in keys
      PROVE  AsInt(Len(y) * Cardinality({l \in keys : Before(l, k)})) \in Int
    <2>1. PICK c : c = Cardinality({l \in keys : Before(l, k)})
        OBVIOUS
    <2>2. c \in Nat
        <3>1. IsFiniteSet({l \in keys : Before(l, k)})
            BY <1>1, FS_Subset
        <3> QED
            BY <2>1, <3>1, FS_CardinalityType
    <2>3. Len(y) * c \in Nat
        BY <2>2
    <2>4. AsInt(Len(y) * c) \in Int
        BY <2>3, NumbersAssumption DEF AsInt
    <2> QED
        BY <2>1, <2>4
<1>3. Numbered(keys) \in [keys -> Int]
    BY <1>2 DEF Numbered
<1>4. DOMAIN Numbered(keys) = keys
    BY <1>3
<1> QED
    BY <1>1, <1>3, <1>4 DEF IsDic, IsMap

LEMMA IInvInit == Init => IInv
<1> SUFFICES ASSUME Init PROVE IInv
    OBVIOUS
<1>1. y \in Seq(Nat)
    BY NamesAssumption DEF Init
<1>2. unigram_templs \in Seq(Nat \ {0}) /\ bigram_templs \in Seq(Nat \ {0})
    BY NamesAssumption DEF Init
<1>3. IsDic(dic) /\ DOMAIN dic \subseteq Keys
    BY <1>1, NumberedIs DEF Init
<1>4. status = "learned" /\ text = "none"
    BY DEF Init
<1> QED
    BY <1>1, <1>2, <1>3, <1>4 DEF IInv, Learned, Numbers, FindsWhatWasSaved, OpensOnlyWhole

\* The encoder's index is not changed.
LEMMA StaysLearned ==
    ASSUME Learned, UNCHANGED encoder
    PROVE  /\ Learned' /\ Converted' = Converted
           /\ YSize' = YSize /\ TemplStr' = TemplStr /\ maxid' = maxid
<1>1. y' = y /\ unigram_templs' = unigram_templs /\ bigram_templs' = bigram_templs /\ dic' = dic
    BY DEF encoder
<1>2. Learned'
    BY <1>1 DEF Learned
<1>3. Converted' = Converted
    BY <1>1 DEF Converted
<1>4. YSize' = YSize
    BY <1>1 DEF YSize
<1>5. TemplStr' = TemplStr
    BY <1>1, <1>4 DEF TemplStr
<1>6. maxid' = maxid
    BY <1>1 DEF maxid
<1> QED
    BY <1>2, <1>3, <1>4, <1>5, <1>6

\* A finished array finds the keys it was built of.
LEMMA BuiltFinds ==
    ASSUME BuildInv, Built
    PROVE  /\ size \in Nat
           /\ \A k \in DOMAIN value : value[k] >= 0
           /\ \A k \in Seq(1 .. MaxChar) :
                Search(units, size, k) = IF k \in DOMAIN value THEN value[k] ELSE -1
<1>1. PICK node : Finished(node)
    BY DEF BuildInv, Built, Finished
<1>2. size \in Nat
    BY <1>1 DEF Finished, Tree, Cells
<1>3. \A k \in DOMAIN value : k \in Seq(1 .. MaxChar)
    BY DEF BuildInv, IsMap
<1>4. \A k \in DOMAIN value : value[k] >= 0
    BY <1>1, <1>3, SearchFinds
<1>5. \A k \in Seq(1 .. MaxChar) :
        Search(units, size, k) = IF k \in DOMAIN value THEN value[k] ELSE -1
    BY <1>1, SearchFinds
<1> QED
    BY <1>2, <1>4, <1>5

LEMMA BuildStays ==
    ASSUME BuildInv, UNCHANGED buildVars
    PROVE  BuildInv'
<1>1. /\ value' = value /\ units' = units /\ used' = used /\ size' = size
      /\ next_check_pos' = next_check_pos /\ error' = error /\ stack' = stack
    BY DEF buildVars
<1>2. IsMap(value)' /\ (used = {} => next_check_pos = 0 /\ stack = <<>>)'
    BY <1>1 DEF BuildInv, IsMap
<1>3. ASSUME NEW node, Tree(node) PROVE Tree(node)'
    <2>1. Cells(node)'
        BY <1>1, <1>3 DEF Tree, Cells, Holds
    <2>2. Calls(node)'
        BY <1>1, <1>3 DEF Tree, Calls, Frame, IsCall
    <2>3. Links(node)'
        BY <1>1, <1>3 DEF Tree, Links, Linked, Pending
    <2>4. Rooted(node)'
        BY <1>1, <1>3 DEF Tree, Rooted
    <2> QED
        BY <2>1, <2>2, <2>3, <2>4 DEF Tree
<1> QED
    BY <1>1, <1>2, <1>3 DEF BuildInv

\* What is left to prove of a step that does not open the file.
LEMMA NotOpened ==
    ASSUME status' # "opened"
    PROVE  FindsWhatWasSaved' /\ OpensOnlyWhole'
BY DEF FindsWhatWasSaved, OpensOnlyWhole

LEMMA SaveInv ==
    ASSUME IInv, Save
    PROVE  IInv'
<1>1. /\ status = "learned" /\ BuildBegins(dic) /\ status' = "building"
      /\ UNCHANGED encoder /\ text' = text /\ dic' = dic /\ text = "none"
    BY DEF Save, encoder, IInv
<1>2. Learned'
    BY <1>1, StaysLearned DEF IInv
<1>3. BuildInv'
    BY <1>1, BuildBeginsInv DEF IInv, Learned, IsDic
<1>4. value' = Source'
    BY <1>1 DEF Source, BuildBegins
<1>5. Numbers'
    BY <1>1 DEF Numbers
<1>6. FindsWhatWasSaved' /\ OpensOnlyWhole'
    BY <1>1, NotOpened
<1> QED
    BY <1>1, <1>2, <1>3, <1>4, <1>5, <1>6 DEF IInv

LEMMA BuildModelInv ==
    ASSUME IInv, Build
    PROVE  IInv'
<1>1. /\ status = "building" /\ BuildStep /\ status' = status
      /\ UNCHANGED encoder /\ text' = text /\ dic' = dic
    BY DEF Build, encoder
<1>2. Learned' /\ Converted' = Converted
    BY <1>1, StaysLearned DEF IInv
<1>3. BuildInv'
    BY <1>1, BuildStepInv DEF IInv
<1>4. value' = value
    BY <1>1 DEF BuildStep, InsertRoot, Leaf, Call, Return, BuildEnds, Insert
<1>5. value' = Source'
    BY <1>1, <1>2, <1>4 DEF IInv, Source
<1>6. Numbers'
    BY <1>1 DEF IInv, Numbers
<1>7. FindsWhatWasSaved' /\ OpensOnlyWhole'
    BY <1>1, NotOpened
<1> QED
    BY <1>1, <1>2, <1>3, <1>5, <1>6, <1>7 DEF IInv

LEMMA StopsInv ==
    ASSUME IInv, SaveFails \/ Dies
    PROVE  IInv'
<1>1. /\ UNCHANGED buildVars /\ UNCHANGED encoder /\ text' = text /\ dic' = dic
      /\ status \in {"building", "saved"} /\ status' \in {"failed", "died"}
      /\ status' = "died" => status = "saved"
    BY DEF SaveFails, Dies, encoder
<1>2. Learned' /\ Converted' = Converted
    BY <1>1, StaysLearned DEF IInv
<1>3. BuildInv'
    <2>1. BuildInv
        BY <1>1 DEF IInv
    <2> QED
        BY <1>1, <2>1, BuildStays
<1>4. value' = Source'
    BY <1>1, <1>2 DEF IInv, Source, buildVars
<1>5. Numbers'
    BY <1>1 DEF IInv, Numbers
<1>6. FindsWhatWasSaved' /\ OpensOnlyWhole'
    BY <1>1, NotOpened
<1> QED
    BY <1>1, <1>2, <1>3, <1>4, <1>5, <1>6 DEF IInv

LEMMA WriteInv ==
    ASSUME IInv, Write
    PROVE  IInv'
<1>1. /\ status = "building" /\ Built /\ status' = "saved"
      /\ UNCHANGED buildVars /\ UNCHANGED encoder /\ dic' = dic
      /\ text' = "converted" <=> text = "converted"
    BY DEF Write, encoder
<1>2. Learned /\ Learned' /\ Converted' = Converted
      /\ YSize' = YSize /\ TemplStr' = TemplStr /\ maxid' = maxid
    BY <1>1, StaysLearned DEF IInv
<1>3. BuildInv /\ BuildInv' /\ value = Source
    BY <1>1, BuildStays DEF IInv
<1>4. value' = Source'
    BY <1>1, <1>2, <1>3 DEF Source, buildVars
<1>5. Numbers'
    <2>1. ASSUME text # "converted", NEW k \in DOMAIN dic PROVE dic[k] >= 0
        BY <1>1, <1>3, <2>1, BuiltFinds DEF Source
    <2>2. ASSUME text = "converted", NEW k \in DOMAIN dic PROVE dic[k] >= 0
        BY <2>2 DEF IInv, Numbers
    <2> QED
        BY <1>1, <2>1, <2>2 DEF Numbers
<1>6. Built'
    BY <1>1 DEF Built, buildVars
<1>7. PICK cut : file' = Written(cut)
    BY DEF Write, Written
<1>8. file'.cut = cut
    BY <1>7 DEF Written
<1>9. file' = Written(file.cut)'
    BY <1>1, <1>2, <1>7, <1>8 DEF Written, buildVars
<1>10. FindsWhatWasSaved' /\ OpensOnlyWhole'
    BY <1>1, NotOpened
<1> QED
    BY <1>1, <1>2, <1>3, <1>4, <1>5, <1>6, <1>9, <1>10 DEF IInv

LEMMA ConvertInv ==
    ASSUME IInv, Convert
    PROVE  IInv'
<1>1. /\ status = "saved" /\ text' = "converted" /\ status' \in {"building", "failed"}
      /\ UNCHANGED encoder /\ dic' = dic
      /\ status' = "building" => BuildBegins(Converted)
    BY DEF Convert, encoder
<1>2. Learned' /\ Converted' = Converted /\ IsMap(Converted)
    BY <1>1, StaysLearned, ConvertedIs DEF IInv, Learned
<1>3. status' # "failed" => BuildInv' /\ value' = Source'
    <2>1. SUFFICES ASSUME BuildBegins(Converted) PROVE BuildInv' /\ value' = Source'
        BY <1>1
    <2>2. value' = Converted
        BY <2>1 DEF BuildBegins
    <2>3. value' = Source'
        BY <1>1, <1>2, <2>2 DEF Source
    <2> QED
        BY <1>2, <2>1, <2>3, BuildBeginsInv
<1>4. Numbers'
    BY <1>1 DEF IInv, Numbers
<1>5. FindsWhatWasSaved' /\ OpensOnlyWhole'
    BY <1>1, NotOpened
<1> QED
    BY <1>1, <1>2, <1>3, <1>4, <1>5 DEF IInv

\* The lengths of the fields.
LEMMA Lengths ==
    ASSUME Learned, size \in Nat
    PROVE  /\ YSize \in Nat /\ Len(TemplStr) \in Nat
           /\ UnitSize * size \in Nat /\ maxid \in Nat
<1>1. YSize \in Nat
    <2>1. IsOffsets(y, Offsets(y))
        BY OffsetsAre DEF Learned
    <2>2. Len(y) \in 0 .. Len(y)
        BY DEF Learned
    <2> QED
        BY <2>1, <2>2 DEF YSize, IsOffsets
<1>2. Len(TemplStr) \in Nat
    BY TemplLaid DEF Learned, Laid
<1>3. maxid \in Nat
    <2>1. Cardinality(DOMAIN dic) \in Nat
        BY FS_CardinalityType DEF Learned, IsDic
    <2>2. Len(y) \in Nat
        BY DEF Learned
    <2> QED
        BY <2>1, <2>2 DEF maxid
<1>4. UnitSize * size \in Nat
    BY DEF UnitSize
<1> QED
    BY <1>1, <1>2, <1>3, <1>4

\* Where a length was lost, what is read in its place already takes the sum
\* past the end of the file.
LEMMA SumIsWhole ==
    ASSUME NEW f, f.ysize \in Nat, Len(f.templ) \in Nat, f.dsize \in Nat, f.maxid \in Nat,
           NEW ysize \in Read(f, "ysize", f.ysize), NEW tsize \in Read(f, "tsize", Len(f.templ)),
           NEW dsize \in Read(f, "dsize", f.dsize), NEW weights \in Read(f, "maxid", f.maxid),
           Accepts(f, Header + ysize + tsize + dsize + 4 * weights)
    PROVE  f.cut = Whole(f)
<1>1. /\ Ends(f)["maxid"] = 20 /\ Ends(f)["dsize"] = 28 /\ Ends(f)["ysize"] = 32
      /\ Ends(f)["tsize"] = 36 + f.ysize
    BY DEF Ends, Header
<1>2. PICK z, t, d, m : z = f.ysize /\ t = Len(f.templ) /\ d = f.dsize /\ m = f.maxid
    OBVIOUS
<1>3. z \in Nat /\ t \in Nat /\ d \in Nat /\ m \in Nat
    BY <1>2
<1>4. /\ ysize \in Nat /\ (32 <= f.cut => ysize = z)
      /\ tsize \in Nat /\ (36 + z <= f.cut => tsize = t)
      /\ dsize \in Nat /\ (28 <= f.cut => dsize = d)
      /\ weights \in Nat /\ (20 <= f.cut => weights = m)
    BY <1>1, <1>2, <1>3, NumbersAssumption DEF Read
<1>5. f.cut = 36 + ysize + tsize + dsize + 4 * weights
    BY DEF Accepts, Header
<1>6. PICK c : c = f.cut
    OBVIOUS
<1>7. c \in Nat /\ 32 <= c /\ 28 <= c /\ 20 <= c
    BY <1>4, <1>5, <1>6
<1>8. ysize = z /\ dsize = d /\ weights = m
    BY <1>4, <1>6, <1>7
<1>9. 36 + z <= c
    BY <1>3, <1>4, <1>5, <1>6, <1>8
<1>10. tsize = t
    BY <1>4, <1>6, <1>9
<1> QED
    BY <1>2, <1>5, <1>8, <1>10 DEF Whole, Header

LEMMA OpenFileInv ==
    ASSUME IInv, OpenFile
    PROVE  IInv'
<1>1. /\ status = "saved" /\ status' \in {"opened", "rejected"}
      /\ UNCHANGED buildVars /\ UNCHANGED encoder
      /\ text' = text /\ file' = file /\ dic' = dic
    BY DEF OpenFile, encoder
<1>2. Learned /\ Learned' /\ Converted' = Converted
      /\ YSize' = YSize /\ TemplStr' = TemplStr /\ maxid' = maxid
    BY <1>1, StaysLearned DEF IInv
<1>3. BuildInv /\ BuildInv' /\ value = Source /\ Built /\ file = Written(file.cut)
    BY <1>1, BuildStays DEF IInv
<1>4. value' = Source'
    BY <1>1, <1>2, <1>3 DEF Source, buildVars
<1>5. Numbers' /\ \A k \in DOMAIN dic : dic[k] >= 0
    BY <1>1 DEF IInv, Numbers
<1>6. /\ file.ysize = YSize /\ file.templ = TemplStr /\ file.units = units /\ file.size = size
      /\ file.dsize = UnitSize * size /\ file.maxid = maxid
    BY <1>3 DEF Written
<1>7. FindsWhatWasSaved'
    <2>1. SUFFICES ASSUME status' = "opened" PROVE FindsWhatWasSaved'
        BY NotOpened
    <2>2. opened' = [unigram |-> TemplsOf(file.templ).unigram,
                     bigram |-> TemplsOf(file.templ).bigram,
                     found |-> [k \in Keys |-> Search(file.units, file.size, k)]]
        BY <2>1 DEF OpenFile
    <2>3. TemplsOf(TemplStr).unigram = unigram_templs /\ TemplsOf(TemplStr).bigram = bigram_templs
        <3>1. Laid(unigram_templs, bigram_templs,
                   Offsets(unigram_templs \o bigram_templs), TemplStr)
            BY <1>2, TemplLaid DEF Learned
        <3>2. unigram_templs \o bigram_templs \in Seq(Nat)
            BY <1>2 DEF Learned
        <3>3. IsOffsets(unigram_templs \o bigram_templs, Offsets(unigram_templs \o bigram_templs))
            BY <3>2, OffsetsAre
        <3> QED
            BY <1>2, <3>1, <3>3, ReadsTempls DEF Learned
    <2>4. opened'.unigram = unigram_templs' /\ opened'.bigram = bigram_templs'
        BY <1>1, <1>6, <2>2, <2>3 DEF encoder
    <2>5. ASSUME text # "converted" \/ \A k \in DOMAIN dic : Column(k) = k, NEW k \in Keys
          PROVE  opened'.found[k] = IF k \in DOMAIN dic THEN dic[k] ELSE -1
        <3>1. value = dic
            BY <1>2, <1>3, <2>5, ConvertedIs DEF Source, Learned
        <3>2. k \in Seq(1 .. MaxChar)
            BY KeysAssumption
        <3>3. opened'.found[k] = Search(units, size, k)
            BY <1>6, <2>2
        <3> QED
            BY <1>3, <3>1, <3>2, <3>3, BuiltFinds
    <2> QED
        BY <1>1, <1>5, <2>4, <2>5 DEF FindsWhatWasSaved
<1>8. OpensOnlyWhole'
    <2>1. SUFFICES ASSUME status' = "opened" PROVE OpensOnlyWhole'
        BY NotOpened
    <2>2. PICK ysize \in Read(file, "ysize", file.ysize),
               tsize \in Read(file, "tsize", Len(file.templ)),
               dsize \in Read(file, "dsize", file.dsize),
               weights \in Read(file, "maxid", file.maxid) :
            Accepts(file, Header + ysize + tsize + dsize + 4 * weights)
        BY <2>1 DEF OpenFile
    <2>3. /\ file.ysize \in Nat /\ Len(file.templ) \in Nat /\ file.dsize \in Nat
          /\ file.maxid \in Nat
        BY <1>2, <1>3, <1>6, BuiltFinds, Lengths
    <2>4. file.cut = Whole(file)
        BY <2>2, <2>3, SumIsWhole
    <2> QED
        BY <1>1, <2>4 DEF OpensOnlyWhole, Whole
<1> QED
    BY <1>1, <1>2, <1>3, <1>4, <1>5, <1>7, <1>8 DEF IInv

LEMMA StuttersInv ==
    ASSUME IInv, UNCHANGED vars
    PROVE  IInv'
<1>1. /\ status' = status /\ UNCHANGED buildVars /\ UNCHANGED encoder
      /\ text' = text /\ file' = file /\ opened' = opened
      /\ dic' = dic /\ unigram_templs' = unigram_templs /\ bigram_templs' = bigram_templs
    BY DEF vars, encoder
<1>2. Learned' /\ Converted' = Converted
      /\ YSize' = YSize /\ TemplStr' = TemplStr /\ maxid' = maxid
    BY <1>1, StaysLearned DEF IInv
<1>3. status' \notin {"learned", "failed"} => BuildInv' /\ value' = Source'
    <2>1. SUFFICES ASSUME status' \notin {"learned", "failed"} PROVE BuildInv' /\ value' = Source'
        OBVIOUS
    <2>2. BuildInv /\ value = Source
        BY <1>1, <2>1 DEF IInv
    <2>3. value' = Source'
        BY <1>1, <1>2, <2>2 DEF Source, buildVars
    <2> QED
        BY <1>1, <2>2, <2>3, BuildStays
<1>4. Numbers'
    BY <1>1 DEF IInv, Numbers
<1>5. status' = "saved" => Built' /\ file' = Written(file.cut)'
    BY <1>1, <1>2 DEF IInv, Built, Written, buildVars
<1>6. FindsWhatWasSaved' /\ OpensOnlyWhole'
    <2>1. FindsWhatWasSaved'
        BY <1>1 DEF IInv, FindsWhatWasSaved
    <2>2. OpensOnlyWhole'
        BY <1>1 DEF IInv, OpensOnlyWhole, Whole
    <2> QED
        BY <2>1, <2>2
<1> QED
    BY <1>1, <1>2, <1>3, <1>4, <1>5, <1>6 DEF IInv

\* The inductive invariant holds of every state.
THEOREM Invariant == Spec => []IInv
<1>1. IInv /\ [Next]_vars => IInv'
    BY SaveInv, BuildModelInv, StopsInv, WriteInv, ConvertInv, OpenFileInv, StuttersInv DEF Next
<1> QED
    BY IInvInit, <1>1, PTL DEF Spec

-----------------------------------------------------------------------------
(* Theorems. *)

(* Whatever the keys, tags and templates, an opened model gives every key  *)
(* the id it had, no other key an id, and the templates of the template    *)
(* file: darts.h packs and walks the same trie, and the loop over the      *)
(* template string ends every template where save did.                     *)
THEOREM FindsKeys == Spec => []FindsWhatWasSaved
<1>1. IInv => FindsWhatWasSaved
    BY DEF IInv
<1> QED
    BY Invariant, <1>1, PTL

(* Whatever memory holds past the end of a file that was cut off, the sum  *)
(* of the lengths read misses the end of the file (feature_index.cpp:273). *)
THEOREM OpensWhole == Spec => []OpensOnlyWhole
<1>1. IInv => OpensOnlyWhole
    BY DEF IInv
<1> QED
    BY Invariant, <1>1, PTL

(* While build() is at work and after it, every unit that is taken belongs *)
(* to a node of the trie of the keys, and leads where it should or has a   *)
(* call that will see to it.                                               *)
THEOREM BuildsTrie ==
    Spec => [](status \in {"building", "saved"} /\ error = 0 => \E node : Tree(node))
<1>1. IInv => (status \in {"building", "saved"} /\ error = 0 => \E node : Tree(node))
    BY DEF IInv, BuildInv
<1> QED
    BY Invariant, <1>1, PTL
=============================================================================
