---------------------------- MODULE FeatureStore ----------------------------
(***************************************************************************)
(* Where a trained model's features come from: EncoderFeatureIndex's       *)
(* dictionary, the FeatureCache and what links them (feature.cpp,          *)
(* feature_index.cpp, feature_cache.cpp).                                  *)
(*                                                                         *)
(* buildFeatures applies the unigram templates at every token of a         *)
(* sentence and the bigram templates at every token but the first; getID   *)
(* gives each expansion (a key) a block of weight indices, L of them for a *)
(* unigram key and L * L for a bigram key, and counts it.  The ids of one  *)
(* token make a row of the cache: an int array in a FreeList, ended by -1. *)
(* A sentence keeps one number, the index of its first row.  After reading,*)
(* shrink drops the keys seen less than freq times, renumbers the others   *)
(* and rewrites every row in place.  Then, and in every iteration,         *)
(* rebuildFeatures walks the rows again from the sentence's first one.     *)
(*                                                                         *)
(* A key is a model value: what a template expands to at a token is an     *)
(* arbitrary member of the template's set of keys.                         *)
(***************************************************************************)
EXTENDS Integers, Sequences, FiniteSets, SequencesExt

CONSTANTS Unigram, Bigram, \* per template, the keys it can expand to
          KeyOrder,        \* all keys, in the order of the std::map
          L,               \* y_.size(), the number of labels
          freq,            \* the option -f
          ChunkSize,       \* cells in a chunk of the rows' FreeList
          MaxChunks,       \* bound of the state space: chunks of that list
          MaxSents, MaxLen \* bound of the state space: sentences, tokens in one

UKeys == UNION {Unigram[j] : j \in 1 .. Len(Unigram)}
BKeys == UNION {Bigram[j] : j \in 1 .. Len(Bigram)}
Keys == UKeys \cup BKeys

ASSUME TemplatesAssumption ==
    Unigram \in Seq(SUBSET UKeys) /\ Bigram \in Seq(SUBSET BKeys)
\* The first character of a key, U or B, is its template's.
ASSUME KeysAssumption ==
    /\ UKeys \cap BKeys = {}
    /\ KeyOrder \in Seq(Keys)
    /\ \A x \in Keys : \E p \in 1 .. Len(KeyOrder) : KeyOrder[p] = x
    /\ \A p, q \in 1 .. Len(KeyOrder) : KeyOrder[p] = KeyOrder[q] => p = q
ASSUME NumbersAssumption ==
    /\ L \in Nat \ {0}
    /\ freq \in Nat
    /\ MaxSents \in Nat
    /\ MaxLen \in Nat \ {0}
\* A row is shorter than a chunk of 131072 cells.
ASSUME ChunkAssumption ==
    /\ ChunkSize \in Nat
    /\ Len(Unigram) + 1 < ChunkSize
    /\ Len(Bigram) + 1 < ChunkSize
    /\ MaxChunks \in Nat

NoId == -1      \* a key that is not in the dictionary
Sentinel == -1  \* the end of a row
Garbage == -2   \* a cell nobody has written

VARIABLES
    pc,
    id, count, maxid,   \* dic_ and maxid_
    sents,              \* per tagger its feature_id_ and its keys, token by token
    cur,                \* the sentence, row and template buildFeatures is at
    feature,            \* the ids of the row being collected
    rows,               \* the FeatureCache: where each row starts
    cells,              \* the memory of the rows
    nchunks, li, pi,    \* the rows' FreeList
    pos, new_maxid, old2new \* shrink's loop

dicVars == <<id, count, maxid>>
listVars == <<rows, cells, nchunks, li, pi>>
shrinkVars == <<pos, new_maxid, old2new>>
vars == <<pc, dicVars, sents, cur, feature, listVars, shrinkVars>>

List == INSTANCE FreeList WITH
    Size <- ChunkSize,
    Lens <- 1 .. ChunkSize - 1,
    MaxBlocks <- MaxSents * 2 * MaxLen,
    live <- {rows[r] : r \in 1 .. Len(rows)}

Addresses == (0 .. MaxChunks - 1) \X (0 .. ChunkSize - 1)

Idle == [len |-> 0, row |-> 0, tmpl |-> 1]

Init ==
    /\ pc = "read"
    /\ id = [x \in Keys |-> NoId]
    /\ count = [x \in Keys |-> 0]
    /\ maxid = 0
    /\ sents = << >>
    /\ cur = Idle
    /\ feature = << >>
    /\ rows = << >>
    /\ cells = [a \in Addresses |-> Garbage]
    /\ nchunks = 0 /\ li = 0 /\ pi = 0
    /\ pos = 1
    /\ new_maxid = 0
    /\ old2new = [x \in {} |-> 0]

-----------------------------------------------------------------------------
(* buildFeatures. *)

\* The weight indices a key owns.
Width(x) == IF x \in UKeys THEN L ELSE L * L

\* The rows of a sentence: first one per token, then one per adjacent pair.
IsNodeRow == cur.row < cur.len
Templates == IF IsNodeRow THEN Unigram ELSE Bigram

\* shrink() of a tagger with n tokens: set_feature_id, and the loops begin.
Begin(n) ==
    /\ pc = "read"
    /\ Len(sents) < MaxSents
    /\ sents' = Append(sents, [fid |-> Len(rows), len |-> n,
                               keys |-> [r \in 1 .. 2 * n - 1 |-> << >>]])
    /\ cur' = [len |-> n, row |-> 0, tmpl |-> 1]
    /\ pc' = "build"
    /\ UNCHANGED <<dicVars, feature, listVars, shrinkVars>>

\* getID that finds the key and does not count it.
LookUpUncounted(x) ==
    IF id[x] = NoId
    THEN /\ id' = [id EXCEPT ![x] = maxid]
         /\ count' = [count EXCEPT ![x] = 1]
         /\ maxid' = maxid + Width(x)
    ELSE UNCHANGED dicVars

\* getID that leaves the new key without its number.
LookUpForgotten(x) ==
    IF id[x] = NoId
    THEN /\ count' = [count EXCEPT ![x] = 1]
         /\ maxid' = maxid + Width(x)
         /\ UNCHANGED id
    ELSE /\ count' = [count EXCEPT ![x] = @ + 1]
         /\ UNCHANGED <<id, maxid>>

\* getID that gives every key the width of a unigram key.
LookUpNarrow(x) ==
    IF id[x] = NoId
    THEN /\ id' = [id EXCEPT ![x] = maxid]
         /\ count' = [count EXCEPT ![x] = 1]
         /\ maxid' = maxid + L
    ELSE /\ count' = [count EXCEPT ![x] = @ + 1]
         /\ UNCHANGED <<id, maxid>>

\* EncoderFeatureIndex::getID.
LookUp(x) ==
    IF id[x] = NoId
    THEN /\ id' = [id EXCEPT ![x] = maxid]
         /\ count' = [count EXCEPT ![x] = 1]
         /\ maxid' = maxid + Width(x)
    ELSE /\ count' = [count EXCEPT ![x] = @ + 1]
         /\ UNCHANGED <<id, maxid>>

\* A template expands to a key, whose id joins the row.
GetID(x) ==
    /\ pc = "build"
    /\ cur.tmpl <= Len(Templates)
    /\ x \in Templates[cur.tmpl]
    /\ LookUp(x)
    /\ feature' = Append(feature, id'[x])
    /\ sents' = [sents EXCEPT ![Len(sents)].keys[cur.row + 1] = Append(@, x)]
    /\ cur' = [cur EXCEPT !.tmpl = @ + 1]
    /\ UNCHANGED <<pc, listVars, shrinkVars>>

\* The macro of a template cannot be expanded: reading stops.
ApplyRuleFails ==
    /\ pc = "build"
    /\ cur.tmpl <= Len(Templates)
    /\ pc' = "failed"
    /\ UNCHANGED <<dicVars, sents, cur, feature, listVars, shrinkVars>>

\* f.size() + 1, for the sentinel.
RowLength(f) == Len(f) + 1

\* What add and shrink write at block b: the ids and the sentinel.
Written(b, f) ==
    [a \in Addresses |->
        IF a[1] = b.chunk /\ a[2] \in b.off .. b.off + Len(f)
        THEN IF a[2] = b.off + Len(f) THEN Sentinel ELSE f[a[2] - b.off + 1]
        ELSE cells[a]]

\* FeatureCache::add, and on to the next row.
AddRow ==
    LET b == List!BlockAt(RowLength(feature)) IN
    /\ pc = "build"
    /\ cur.tmpl > Len(Templates)
    /\ b.chunk < MaxChunks
    /\ rows' = Append(rows, b)
    /\ List!Alloc(RowLength(feature))
    /\ cells' = Written(b, feature)
    /\ feature' = << >>
    /\ IF cur.row + 1 < 2 * cur.len - 1
       THEN cur' = [cur EXCEPT !.row = @ + 1, !.tmpl = 1] /\ UNCHANGED pc
       ELSE cur' = Idle /\ pc' = "read"
    /\ UNCHANGED <<dicVars, sents, shrinkVars>>

-----------------------------------------------------------------------------
(* EncoderFeatureIndex::shrink. *)

\* The file is over.
BeginShrink ==
    /\ pc = "read"
    /\ pc' = IF freq <= 1 THEN "ready" ELSE "renumber"
    /\ UNCHANGED <<dicVars, sents, cur, feature, listVars, shrinkVars>>

\* The keys that are dropped.
Rare(x) == count[x] < freq

\* The dictionary's next key is erased.
Erase ==
    /\ pc = "renumber"
    /\ pos <= Len(KeyOrder)
    /\ LET x == KeyOrder[pos] IN
       /\ id[x] = NoId \/ Rare(x)
       /\ id' = [id EXCEPT ![x] = NoId]
       /\ count' = [count EXCEPT ![x] = 0]
    /\ pos' = pos + 1
    /\ UNCHANGED <<pc, maxid, sents, cur, feature, listVars, new_maxid, old2new>>

\* It is kept under the next free number.
Keep ==
    /\ pc = "renumber"
    /\ pos <= Len(KeyOrder)
    /\ LET x == KeyOrder[pos] IN
       /\ id[x] # NoId
       /\ ~ Rare(x)
       /\ old2new' = [o \in DOMAIN old2new \cup {id[x]} |->
                         IF o = id[x] THEN new_maxid ELSE old2new[o]]
       /\ id' = [id EXCEPT ![x] = new_maxid]
       /\ new_maxid' = new_maxid + Width(x)
    /\ pos' = pos + 1
    /\ UNCHANGED <<pc, count, maxid, sents, cur, feature, listVars>>

\* The keys are done; the cache is next.
BeginRows ==
    /\ pc = "renumber"
    /\ pos > Len(KeyOrder)
    /\ pc' = "rows"
    /\ pos' = 1
    /\ UNCHANGED <<dicVars, sents, cur, feature, listVars, new_maxid, old2new>>

\* The ids from address (c, o) on, up to the sentinel.
Row(b) ==
    LET ends == {e \in b.off .. ChunkSize - 1 : cells[<<b.chunk, e>>] = Sentinel}
        end == CHOOSE e \in ends : \A d \in ends : e <= d
    IN IF ends = {}
       THEN <<Garbage>>
       ELSE [j \in 1 .. end - b.off |-> cells[<<b.chunk, b.off + j - 1>>]]

\* The survivors stay where they are, and so do the others.
OnlyRenumbered(f) ==
    [j \in 1 .. Len(f) |-> IF f[j] \in DOMAIN old2new THEN old2new[f[j]] ELSE f[j]]

\* What m makes of the elements of s it knows, in their order.
Through(m, s) ==
    FoldLeft(LAMBDA out, o : IF o \in DOMAIN m THEN Append(out, m[o]) ELSE out,
             << >>, s)

\* The survivors of a row, under their new numbers.
Renumbered(f) == Through(old2new, f)

\* FeatureCache::shrink rewrites one row in place.
ShrinkRow ==
    /\ pc = "rows"
    /\ pos <= Len(rows)
    /\ cells' = Written(rows[pos], Renumbered(Row(rows[pos])))
    /\ pos' = pos + 1
    /\ UNCHANGED <<pc, dicVars, sents, cur, feature, rows, nchunks, li, pi,
                   new_maxid, old2new>>

\* maxid_ = new_maxid; the weights can be allocated.
EndShrink ==
    /\ pc = "rows"
    /\ pos > Len(rows)
    /\ maxid' = new_maxid
    /\ pc' = "ready"
    /\ UNCHANGED <<id, count, sents, cur, feature, listVars, shrinkVars>>

Next ==
    \/ \E n \in 1 .. MaxLen : Begin(n)
    \/ \E x \in Keys : GetID(x)
    \/ ApplyRuleFails
    \/ AddRow
    \/ BeginShrink
    \/ Erase
    \/ Keep
    \/ BeginRows
    \/ ShrinkRow
    \/ EndShrink

Spec == Init /\ [][Next]_vars

-----------------------------------------------------------------------------
(* What rebuildFeatures finds: fid is advanced row by row. *)

\* The row of token c (from 0) of sentence s.
NodeRow(s, c) == Row(rows[s.fid + c + 1])

\* The row of the transition into token c (from 1) of sentence s.
PathRow(s, c) == Row(rows[s.fid + s.len + (c - 1) + 1])

-----------------------------------------------------------------------------

TypeOK ==
    /\ pc \in {"read", "build", "failed", "renumber", "rows", "ready"}
    /\ id \in [Keys -> {NoId} \cup Nat]
    /\ count \in [Keys -> Nat]
    /\ maxid \in Nat
    /\ cur \in [len : 0 .. MaxLen, row : Nat, tmpl : Nat]
    /\ feature \in Seq(Nat)
    /\ rows \in Seq(List!Block)
    /\ DOMAIN cells = Addresses
    /\ nchunks \in 0 .. MaxChunks /\ li \in Nat /\ pi \in Nat
    /\ pos \in Nat
    /\ new_maxid \in Nat
    /\ \A o \in DOMAIN old2new : o \in Nat /\ old2new[o] \in Nat

(***************************************************************************)
(* The weight indices 0 .. maxid-1 are tiled by the blocks of the keys in  *)
(* the dictionary: every index belongs to one key and one only, while      *)
(* features are added and after the renumbering.  Two keys that shared an  *)
(* index would share a weight.                                             *)
(***************************************************************************)
Owns(x, f) == id[x] # NoId /\ id[x] <= f /\ f < id[x] + Width(x)

IdsTile ==
    pc \notin {"renumber", "rows"} =>
        /\ \A f \in 0 .. maxid - 1 : \E x \in Keys : Owns(x, f)
        /\ \A x, y \in Keys :
             x # y /\ id[x] # NoId /\ id[y] # NoId =>
               id[x] + Width(x) <= id[y] \/ id[y] + Width(y) <= id[x]
        /\ \A x \in Keys : id[x] # NoId => id[x] + Width(x) <= maxid

\* Where the sentences' templates have expanded to x: sentence, row, template.
Occurrences(x) ==
    {o \in (1 .. Len(sents)) \X (1 .. 2 * MaxLen - 1)
                              \X (1 .. Len(Unigram) + Len(Bigram)) :
        /\ o[2] \in DOMAIN sents[o[1]].keys
        /\ o[3] \in DOMAIN sents[o[1]].keys[o[2]]
        /\ sents[o[1]].keys[o[2]][o[3]] = x}

(***************************************************************************)
(* A key's count is the number of times the training data has it, and what *)
(* -f keeps are exactly the keys that often enough: the features of the    *)
(* model do not depend on the order of the sentences.                      *)
(***************************************************************************)
FrequencyDecides ==
    \A x \in Keys :
        LET seen == Cardinality(Occurrences(x)) IN
        /\ pc = "read" => count[x] = seen /\ (id[x] # NoId <=> seen >= 1)
        /\ pc = "ready" => (id[x] # NoId <=> seen >= 1 /\ seen >= freq)

(***************************************************************************)
(* The rows rebuildFeatures reads for a sentence, found by its first row's *)
(* number alone, hold the features of its own tokens and transitions, in   *)
(* their order: each key that is left in the dictionary, under the number  *)
(* it has there now.  So no row overwrote another's sentinel, no sentence  *)
(* reads its neighbour's rows, and shrink left no old number behind.       *)
(***************************************************************************)
Ids(ks) == Through([x \in {k \in Keys : id[k] # NoId} |-> id[x]], ks)

RowsFaithful ==
    pc \in {"read", "ready"} =>
        \A s \in 1 .. Len(sents) :
            /\ \A c \in 0 .. sents[s].len - 1 :
                 NodeRow(sents[s], c) = Ids(sents[s].keys[c + 1])
            /\ \A c \in 1 .. sents[s].len - 1 :
                 PathRow(sents[s], c) = Ids(sents[s].keys[sents[s].len + c])

=============================================================================
