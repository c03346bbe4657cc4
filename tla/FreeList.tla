------------------------------ MODULE FreeList ------------------------------
(***************************************************************************)
(* The chunked arena of freelist.h, FreeList<T>: a vector of chunks of     *)
(* Size cells each, and a cursor (li, pi) = (chunk, offset in the chunk).  *)
(* alloc(len) moves on to the next chunk when len cells would not end      *)
(* before the last cell of the current one, appends a chunk when the       *)
(* cursor stands past the vector, and returns the cells at the cursor.     *)
(* free() only moves the cursor back to the first cell: the chunks stay    *)
(* allocated and are handed out again.                                     *)
(*                                                                         *)
(* The lattice's nodes and paths (two lists per worker thread), the rows   *)
(* of feature ids and the text of every token live in such lists, and no   *)
(* block is ever freed alone, so what has been handed out since the last   *)
(* free() must lie inside the chunks and must not overlap.  alloc does not *)
(* compare the request with the chunk: what that costs a caller that asks  *)
(* for a chunk or more is part of the model.                               *)
(***************************************************************************)
EXTENDS Integers, FiniteSets

CONSTANTS Size,     \* cells per chunk (set_size, or the constructor's argument)
          Lens,     \* the lengths callers ask for
          MaxBlocks \* bound of the state space: live blocks between two free()s

(***************************************************************************)
(* newNode and newPath ask for 1 cell of 8192 and of 131072, and a row of  *)
(* feature ids for at most the number of templates plus 1 of 131072.  The  *)
(* text of a token asks for its length plus 1 of 8192, and nothing bounds  *)
(* that: read() stops at lines of 8191 characters, which ask for exactly a *)
(* chunk, but the two public add() pass on what their caller gave.  So no  *)
(* bound relates the requests to the chunk.                                *)
(***************************************************************************)
ASSUME SizeAssumption == Size \in Nat \ {0}
ASSUME LensAssumption == Lens \subseteq Nat \ {0}
ASSUME BoundAssumption == MaxBlocks \in Nat

VARIABLES nchunks,  \* freeList.size()
          li, pi,   \* the cursor
          live      \* the blocks handed out since the last free()

vars == <<nchunks, li, pi, live>>

Block == [chunk : Nat, off : Nat, len : Lens]

\* The block is as long as a chunk, or longer.
Oversized(b) == b.len >= Size

\* The blocks share no cell.
Disjoint(a, b) ==
    \/ a.chunk # b.chunk
    \/ a.off + a.len <= b.off
    \/ b.off + b.len <= a.off

\* A constructor that leaves the cursor as it finds it.
InitNoCursor ==
    /\ nchunks = 0
    /\ li = 0
    /\ pi \in {-1, 0}
    /\ live = {}

Init ==
    /\ nchunks = 0
    /\ li = 0
    /\ pi = 0
    /\ live = {}

-----------------------------------------------------------------------------

\* alloc that never moves on to the next chunk.
OverrunAt(len) == [chunk |-> li, off |-> pi, len |-> len]

\* alloc that moves the offset back and not the chunk on.
SameChunkAt(len) ==
    [chunk |-> li, off |-> IF pi + len >= Size THEN 0 ELSE pi, len |-> len]

\* Where alloc(len) places the block.
BlockAt(len) ==
    IF pi + len >= Size
    THEN [chunk |-> li + 1, off |-> 0, len |-> len]
    ELSE [chunk |-> li, off |-> pi, len |-> len]

\* alloc that ends with pi = len.
AllocAssigns(len) ==
    LET b == BlockAt(len) IN
    /\ Cardinality(live) < MaxBlocks
    /\ nchunks' = IF b.chunk = nchunks THEN nchunks + 1 ELSE nchunks
    /\ li' = b.chunk
    /\ pi' = len
    /\ live' = live \cup {b}

Alloc(len) ==
    LET b == BlockAt(len) IN
    /\ Cardinality(live) < MaxBlocks
    /\ nchunks' = IF b.chunk = nchunks THEN nchunks + 1 ELSE nchunks
    /\ li' = b.chunk
    /\ pi' = b.off + len
    /\ live' = live \cup {b}

\* free() that forgets the offset.
FreeChunkOnly ==
    /\ li' = 0
    /\ live' = {}
    /\ UNCHANGED <<nchunks, pi>>

Free ==
    /\ li' = 0
    /\ pi' = 0
    /\ live' = {}
    /\ UNCHANGED nchunks

Next == Free \/ \E len \in Lens : Alloc(len)

Spec == Init /\ [][Next]_vars

-----------------------------------------------------------------------------

TypeOK ==
    /\ nchunks \in Nat
    /\ li \in Nat
    /\ pi \in Nat
    /\ live \subseteq Block

(***************************************************************************)
(* Every block handed out lies in a chunk that exists, and inside it, so   *)
(* that its caller may write all the cells it asked for, unless the block  *)
(* itself is longer than a chunk, or the list was still without a chunk    *)
(* when some caller asked for a chunk or more: that request moves the      *)
(* cursor past the chunk alloc would have appended, and no block has a     *)
(* chunk from there to the next free().  A request of any other kind is    *)
(* safe, also between and after oversized ones.                            *)
(***************************************************************************)
BlocksInBounds ==
    \A b \in live :
        \/ b.chunk < nchunks /\ b.off + b.len <= Size
        \/ b.len > Size
        \/ nchunks = 0 /\ \E a \in live : Oversized(a)

(***************************************************************************)
(* Blocks handed out since the last free() do not overlap, however the     *)
(* lengths mix and however often the chunks have been reused.              *)
(***************************************************************************)
LiveDisjoint ==
    \A a, b \in live : a # b => Disjoint(a, b)

(***************************************************************************)
(* No two calls between two free()s return the same block: the number of   *)
(* live blocks grows by one at every alloc.                                *)
(***************************************************************************)
FreshBlock ==
    [][live' # {} => \E b \in live' : b \notin live /\ live' = live \cup {b}]_vars

(***************************************************************************)
(* free() keeps the memory: the number of chunks never drops, and a chunk  *)
(* is only added when every chunk there is holds a live block, so a list   *)
(* that serves the same sentences again allocates nothing.  The one chunk  *)
(* that may be empty then is the first: an oversized request skips it when *)
(* it is the first after a free().                                         *)
(***************************************************************************)
GrowsOnlyWhenFull ==
    [][/\ nchunks' \in {nchunks, nchunks + 1}
       /\ nchunks' # nchunks =>
            \A c \in 0 .. nchunks - 1 :
                \/ \E b \in live : b.chunk = c
                \/ c = 0 /\ \E b \in live' : Oversized(b)]_vars

=============================================================================
