--------------------------- MODULE FreeListProofs ---------------------------
(***************************************************************************)
(* The blocks of a FreeList are disjoint, and inside their chunks unless a *)
(* request of a chunk or more is to blame, for every chunk size and every  *)
(* mix of block lengths.                                                   *)
(*                                                                         *)
(* Neither property is inductive alone: that a new block misses the live   *)
(* ones follows from where the cursor stands.  Behind carries that fact:   *)
(* every live block ends at or before the cursor, and Cursor keeps the     *)
(* cursor in a chunk that exists, or says which request lost it.           *)
(***************************************************************************)
EXTENDS FreeList, TLAPS

\* The cursor is at the start of an empty list, in an existing chunk, or past
\* the one an oversized request was the first to need.
Cursor ==
    \/ nchunks = 0 /\ li = 0 /\ pi = 0
    \/ li < nchunks
    \/ nchunks = 0 /\ 0 < li /\ \E a \in live : Oversized(a)

\* Every live block ends at or before the cursor.
Behind ==
    \A b \in live : b.chunk < li \/ (b.chunk = li /\ b.off + b.len <= pi)

\* The inductive invariant.
IInv ==
    /\ TypeOK
    /\ Cursor
    /\ Behind
    /\ BlocksInBounds
    /\ LiveDisjoint

\* The lengths callers ask for are positive.
LEMMA LensBounds == \A len \in Lens : len \in Nat /\ 1 <= len
BY LensAssumption

\* The fields of a block are numbers.
LEMMA BlockFields ==
    ASSUME NEW b \in Block
    PROVE  /\ b.chunk \in Nat
           /\ b.off \in Nat
           /\ b.len \in Nat /\ 1 <= b.len
BY LensBounds DEF Block

(***************************************************************************)
(* alloc(len) returns a block at the cursor or at the start of the next    *)
(* chunk, behind which all the live blocks lie (freelist.h:37-48).  Unless *)
(* it is oversized, or the cursor was lost, its chunk exists or is about   *)
(* to be appended, and it ends before the chunk does.                      *)
(***************************************************************************)
LEMMA AllocPlaces ==
    ASSUME IInv, NEW len \in Lens
    PROVE  LET b == BlockAt(len) IN
           /\ b \in Block
           /\ b.len = len
           /\ \/ b.chunk = li /\ b.off = pi /\ b.off + len < Size
              \/ b.chunk = li + 1 /\ b.off = 0
           /\ \A a \in live : Disjoint(a, b)
<1>1. len \in Nat /\ 1 <= len
    BY LensBounds
<1>2. li \in Nat /\ pi \in Nat /\ nchunks \in Nat
    BY DEF IInv, TypeOK
<1>3. \A a \in live : a.chunk \in Nat /\ a.off \in Nat /\ a.len \in Nat
    BY BlockFields DEF IInv, TypeOK
<1>4. CASE pi + len >= Size
    <2>1. BlockAt(len) = [chunk |-> li + 1, off |-> 0, len |-> len]
        BY <1>4 DEF BlockAt
    <2> QED
        BY <1>1, <1>2, <1>3, <2>1 DEF IInv, Behind, Disjoint, Block
<1>5. CASE ~(pi + len >= Size)
    <2>1. BlockAt(len) = [chunk |-> li, off |-> pi, len |-> len]
        BY <1>5 DEF BlockAt
    <2> QED
        BY <1>1, <1>2, <1>3, <1>5, <2>1, SizeAssumption
           DEF IInv, Behind, Disjoint, Block
<1> QED
    BY <1>4, <1>5

\* A fresh list satisfies the invariant: it has no chunk and no live block.
LEMMA InitInvariant == Init => IInv
BY DEF Init, IInv, TypeOK, Cursor, Behind, BlocksInBounds, LiveDisjoint

\* Neither alloc nor free breaks the invariant.
LEMMA StepInvariant == IInv /\ [Next]_vars => IInv'
<1> SUFFICES ASSUME IInv, [Next]_vars PROVE IInv'
    OBVIOUS
<1>1. CASE Free
    BY <1>1, SizeAssumption
       DEF Free, IInv, TypeOK, Cursor, Behind, BlocksInBounds, LiveDisjoint
<1>2. ASSUME NEW len \in Lens, Alloc(len) PROVE IInv'
    <2> DEFINE b == BlockAt(len)
    <2>1. /\ b \in Block
          /\ b.len = len
          /\ \/ b.chunk = li /\ b.off = pi /\ b.off + len < Size
             \/ b.chunk = li + 1 /\ b.off = 0
          /\ \A a \in live : Disjoint(a, b)
        BY AllocPlaces
    <2>2. /\ nchunks' = IF b.chunk = nchunks THEN nchunks + 1 ELSE nchunks
          /\ li' = b.chunk
          /\ pi' = b.off + len
          /\ live' = live \cup {b}
        BY <1>2 DEF Alloc
    <2>3. /\ len \in Nat /\ 1 <= len
          /\ li \in Nat /\ pi \in Nat /\ nchunks \in Nat
          /\ b.chunk \in Nat /\ b.off \in Nat
        BY <2>1, LensBounds, BlockFields DEF IInv, TypeOK
    <2>p. b.chunk = li + 1 /\ b.off = 0 => pi + len >= Size
        BY <2>3 DEF BlockAt
    <2>n. nchunks = 0 /\ li = 0 /\ pi = 0 => live = {}
        BY BlockFields DEF IInv, TypeOK, Behind
    <2>4. \A a \in live : a.chunk \in Nat /\ a.off \in Nat /\ a.len \in Nat
        BY BlockFields DEF IInv, TypeOK
    <2> HIDE DEF b
    <2>5. TypeOK'
        BY <2>1, <2>2, <2>3 DEF IInv, TypeOK
    <2>c. \A a : Oversized(a)' <=> Oversized(a)
        BY DEF Oversized
    <2>6. Cursor'
        <3>1. CASE nchunks = 0 /\ li = 0 /\ pi = 0
            <4>1. CASE b.chunk = li
                BY <2>2, <2>3, <3>1, <4>1 DEF Cursor
            <4>2. CASE b.chunk = li + 1 /\ b.off = 0
                <5>1. Oversized(b)
                    BY <2>1, <2>3, <2>p, <3>1, <4>2 DEF Oversized
                <5> QED
                    BY <2>2, <2>3, <2>c, <3>1, <4>2, <5>1 DEF Cursor
            <4> QED BY <2>1, <4>1, <4>2
        <3>2. CASE li < nchunks
            BY <2>1, <2>2, <2>3, <3>2 DEF Cursor
        <3>3. CASE nchunks = 0 /\ 0 < li /\ \E a \in live : Oversized(a)
            BY <2>1, <2>2, <2>3, <2>c, <3>3 DEF Cursor
        <3> QED BY <3>1, <3>2, <3>3 DEF IInv, Cursor
    <2>7. Behind'
        BY <2>1, <2>2, <2>3, <2>4 DEF IInv, Behind
    <2>8. BlocksInBounds'
        <3>1. CASE nchunks = 0 /\ nchunks' = 0
            <4>1. \E a \in live' : Oversized(a)
                <5>1. CASE li = 0 /\ pi = 0
                    <6>1. Oversized(b)
                        BY <2>1, <2>2, <2>3, <2>p, <3>1, <5>1 DEF Oversized
                    <6> QED BY <2>2, <6>1
                <5>2. CASE \E a \in live : Oversized(a)
                    BY <2>2, <5>2
                <5> QED BY <2>3, <3>1, <5>1, <5>2 DEF IInv, Cursor
            <4> QED BY <2>c, <3>1, <4>1 DEF BlocksInBounds
        <3>2. CASE nchunks = 0 /\ nchunks' # 0
            <4>1. live = {} /\ li = 0 /\ pi = 0 /\ b.chunk = 0
                BY <2>1, <2>2, <2>3, <2>n, <3>2 DEF IInv, Cursor
            <4>2. live' = {b} /\ nchunks' = 1 /\ b.off + b.len < Size
                BY <2>1, <2>2, <2>3, <3>2, <4>1
            <4> QED
                BY <2>1, <2>3, <4>1, <4>2, SizeAssumption DEF BlocksInBounds
        <3>3. CASE nchunks # 0
            <4>1. li < nchunks /\ nchunks <= nchunks'
                BY <2>2, <2>3, <3>3 DEF IInv, Cursor
            <4>2. \A a \in live : \/ a.chunk < nchunks' /\ a.off + a.len <= Size
                                 \/ a.len > Size
                BY <2>2, <2>3, <2>4, <3>3, <4>1 DEF IInv, BlocksInBounds
            <4>3. b.chunk < nchunks'
                BY <2>1, <2>2, <2>3, <4>1
            <4>4. b.off + b.len <= Size \/ b.len > Size
                BY <2>1, <2>3, SizeAssumption
            <4> QED BY <2>2, <4>2, <4>3, <4>4 DEF BlocksInBounds
        <3> QED BY <3>1, <3>2, <3>3
    <2>9. LiveDisjoint'
        BY <2>1, <2>2, <2>3, <2>4 DEF IInv, LiveDisjoint, Disjoint
    <2> QED
        BY <2>5, <2>6, <2>7, <2>8, <2>9 DEF IInv
<1>3. CASE UNCHANGED vars
    BY <1>3
       DEF vars, IInv, TypeOK, Cursor, Behind, BlocksInBounds, LiveDisjoint
<1> QED
    BY <1>1, <1>2, <1>3 DEF Next

(***************************************************************************)
(* Every block handed out lies inside a chunk that exists, for every chunk *)
(* size and every mix of requests, unless it is longer than a chunk itself *)
(* or an oversized request came to a list that had no chunk yet.           *)
(***************************************************************************)
THEOREM InBounds == Spec => []BlocksInBounds
<1>1. IInv => BlocksInBounds
    BY DEF IInv
<1> QED
    BY InitInvariant, StepInvariant, <1>1, PTL DEF Spec

(***************************************************************************)
(* Two blocks handed out since the last free() never share a cell.         *)
(***************************************************************************)
THEOREM NoOverlap == Spec => []LiveDisjoint
<1>1. IInv => LiveDisjoint
    BY DEF IInv
<1> QED
    BY InitInvariant, StepInvariant, <1>1, PTL DEF Spec

(***************************************************************************)
(* alloc never hands out a block that is already in use.                   *)
(***************************************************************************)
THEOREM AlwaysFresh == Spec => FreshBlock
<1>1. ASSUME IInv, [Next]_vars
      PROVE  [live' # {} => \E b \in live' : b \notin live /\ live' = live \cup {b}]_vars
    <2>1. CASE Free
        BY <2>1 DEF Free
    <2>2. ASSUME NEW len \in Lens, Alloc(len)
          PROVE  \E b \in live' : b \notin live /\ live' = live \cup {b}
        <3> DEFINE b == BlockAt(len)
        <3>1. b \in Block /\ b.len = len /\ \A a \in live : Disjoint(a, b)
            BY AllocPlaces, <1>1
        <3>2. live' = live \cup {b}
            BY <2>2 DEF Alloc
        <3>3. ~ Disjoint(b, b)
            BY <3>1, BlockFields DEF Disjoint
        <3> HIDE DEF b
        <3> QED
            BY <3>1, <3>2, <3>3
    <2> QED
        BY <1>1, <2>1, <2>2 DEF Next
<1> QED
    BY InitInvariant, StepInvariant, <1>1, PTL DEF Spec, FreshBlock

\* The chunk is in use, or it is the first and an oversized block skipped it.
Taken(c) ==
    \/ \E b \in live : b.chunk = c
    \/ c = 0 /\ \E b \in live : Oversized(b)

\* The chunks the cursor has passed are taken, and the one it is in is in use
\* unless the list has just been freed.
Used ==
    /\ \A c \in 0 .. li - 1 : Taken(c)
    /\ pi > 0 => \E b \in live : b.chunk = li
    /\ pi = 0 => li = 0

\* A step of the list keeps that, and appends a chunk only when all are used.
LEMMA UsedStep ==
    ASSUME IInv, Used, [Next]_vars
    PROVE  /\ Used'
           /\ nchunks' \in {nchunks, nchunks + 1}
           /\ nchunks' # nchunks =>
                \A c \in 0 .. nchunks - 1 :
                    \/ \E b \in live : b.chunk = c
                    \/ c = 0 /\ \E b \in live' : Oversized(b)
<1>t. li \in Nat /\ pi \in Nat /\ nchunks \in Nat
    BY DEF IInv, TypeOK
<1>1. CASE Free
    BY <1>1 DEF Free, Used
<1>2. ASSUME NEW len \in Lens, Alloc(len)
      PROVE  /\ Used'
             /\ nchunks' \in {nchunks, nchunks + 1}
             /\ nchunks' # nchunks =>
                  \A c \in 0 .. nchunks - 1 :
                      \/ \E b \in live : b.chunk = c
                      \/ c = 0 /\ \E b \in live' : Oversized(b)
    <2> DEFINE b == BlockAt(len)
    <2>1. len \in Nat /\ 1 <= len
        BY LensBounds
    <2>2. /\ nchunks' = IF b.chunk = nchunks THEN nchunks + 1 ELSE nchunks
          /\ li' = b.chunk
          /\ pi' = b.off + len
          /\ live' = live \cup {b}
        BY <1>2 DEF Alloc
    <2>3. \/ b.chunk = li
          \/ b.chunk = li + 1 /\ (pi > 0 \/ (li = 0 /\ Oversized(b)))
        BY <1>t, <2>1 DEF BlockAt, Used, Oversized
    <2>o. b.off \in Nat /\ b.chunk \in Nat
        BY <1>t DEF BlockAt
    <2>c. \A a : Oversized(a)' <=> Oversized(a)
        BY DEF Oversized
    <2> HIDE DEF b
    <2>4. \A c \in 0 .. li' - 1 :
              \/ \E a \in live : a.chunk = c
              \/ c = 0 /\ \E a \in live' : Oversized(a)
        <3> SUFFICES ASSUME NEW c \in 0 .. li' - 1
                     PROVE  \/ \E a \in live : a.chunk = c
                            \/ c = 0 /\ \E a \in live' : Oversized(a)
            OBVIOUS
        <3>1. CASE c \in 0 .. li - 1
            BY <2>2, <3>1 DEF Used, Taken
        <3>2. CASE ~(c \in 0 .. li - 1)
            <4>1. c = li /\ (pi > 0 \/ (li = 0 /\ Oversized(b)))
                BY <1>t, <2>2, <2>3, <2>o, <3>2
            <4> QED BY <2>2, <4>1 DEF Used
        <3> QED BY <3>1, <3>2
    <2>5. Used'
        <3>1. \A c \in 0 .. li' - 1 : Taken(c)'
            BY <2>2, <2>4, <2>c DEF Taken
        <3>2. pi' > 0 /\ \E a \in live' : a.chunk = li'
            BY <2>1, <2>2, <2>o
        <3> QED BY <3>1, <3>2 DEF Used
    <2>7. nchunks' # nchunks =>
            \A c \in 0 .. nchunks - 1 :
                \/ \E a \in live : a.chunk = c
                \/ c = 0 /\ \E a \in live' : Oversized(a)
        BY <1>t, <2>2, <2>4
    <2> QED BY <1>t, <2>2, <2>5, <2>7
<1>3. CASE UNCHANGED vars
    BY <1>3 DEF vars, Used, Taken, Oversized
<1> QED BY <1>1, <1>2, <1>3 DEF Next

(***************************************************************************)
(* free() keeps the chunks, and one is appended only when every chunk is   *)
(* in use, up to a first one that an oversized request skipped: a list     *)
(* that serves the same sentences again allocates nothing.                 *)
(***************************************************************************)
THEOREM GrowsWhenFull == Spec => GrowsOnlyWhenFull
<1>1. Init => Used
    BY DEF Init, Used
<1>2. IInv /\ Used /\ [Next]_vars => IInv' /\ Used'
    BY UsedStep, StepInvariant
<1>3. IInv /\ Used /\ [Next]_vars =>
        [/\ nchunks' \in {nchunks, nchunks + 1}
         /\ nchunks' # nchunks =>
              \A c \in 0 .. nchunks - 1 :
                  \/ \E b \in live : b.chunk = c
                  \/ c = 0 /\ \E b \in live' : Oversized(b)]_vars
    BY UsedStep
<1> QED
    BY InitInvariant, <1>1, <1>2, <1>3, PTL DEF Spec, GrowsOnlyWhenFull

(***************************************************************************)
(* The cursor and the counts stay numbers, and live holds blocks.          *)
(***************************************************************************)
THEOREM TypeCorrect == Spec => []TypeOK
<1>1. IInv => TypeOK
    BY DEF IInv
<1> QED
    BY InitInvariant, StepInvariant, <1>1, PTL DEF Spec

=============================================================================
