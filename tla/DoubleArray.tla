---------------------------- MODULE DoubleArray ----------------------------
(***************************************************************************)
(* The double array of darts.h: a trie of keys packed into one array of    *)
(* units.  The children of a node begin at its base; a unit belongs to the *)
(* children that begin at its check, and 0 marks a free unit.  A key is a  *)
(* sequence of characters 1 .. MaxChar (the type has MaxChar = 255); the   *)
(* step for character c has code c + 1, the step for the end of a key      *)
(* code 0, and the unit it leads to holds -value-1 instead of a base.      *)
(*                                                                         *)
(* insert() places the children of a node and calls itself for each one:   *)
(* the calls at work are frames of a stack, and a frame's left are the     *)
(* codes of the children that its loop has still to come to.               *)
(***************************************************************************)
EXTENDS Integers, Sequences, FiniteSets, FiniteSetsExt

CONSTANT MaxChar    \* the greatest character

ASSUME MaxCharAssumption == MaxChar \in Nat \ {0}

VARIABLES
  value,            \* the keys to store, each with its value
  units,            \* array_: the units that are not as resize left them
  used,             \* used_: where children begin
  size,
  next_check_pos,
  error,
  stack

buildVars == <<value, units, used, size, next_check_pos, error, stack>>

CheckOf(array, pos) == IF pos \in DOMAIN array THEN array[pos].check ELSE 0

-----------------------------------------------------------------------------
(* fetch(): the codes by which a set of keys goes on from depth. *)

CodeAt(key, depth) == IF depth = Len(key) THEN 0 ELSE key[depth + 1] + 1

Codes(keys, depth) == {CodeAt(k, depth) : k \in keys}

Below(keys, depth, code) == {k \in keys : CodeAt(k, depth) = code}

-----------------------------------------------------------------------------
(* insert() *)

(* Mutant of Fits: used_ is not asked. *)
FitsUnlessTaken(codes, pos) ==
  \A c \in codes : CheckOf(units, pos - Min(codes) + c) = 0

(* The loop looks for a place where every child finds a free unit and no   *)
(* other children begin.                                                   *)
Fits(codes, pos) ==
  LET begin == pos - Min(codes)
  IN begin \notin used /\ \A c \in codes : CheckOf(units, begin + c) = 0

(* It begins at next_check_pos_, which it moves on to the first free unit  *)
(* it meets, or past all it has seen when that was nearly full.            *)
Insert(keys, depth) ==
  LET codes == Codes(keys, depth)
      from == Max({Min(codes) + 1, next_check_pos})
      room == from .. Max({from, size}) + MaxChar + 2
      pos == Min({p \in room : Fits(codes, p)})
      free == Min({p \in room : CheckOf(units, p) = 0})
      taken == Cardinality({p \in from .. pos : CheckOf(units, p) # 0})
      begin == pos - Min(codes)
      cells == {begin + c : c \in codes}
  IN /\ units' = [p \in DOMAIN units \cup cells |->
                    IF p \in cells THEN [base |-> 0, check |-> begin] ELSE units[p]]
     /\ used' = used \cup {begin}
     /\ size' = Max({size, begin + Max(codes) + 1})
     /\ next_check_pos' = IF 100 * taken >= 95 * (pos - free + 1) THEN pos ELSE free
     /\ stack' = Append(stack, [keys |-> keys, depth |-> depth, begin |-> begin,
                                left |-> codes])
     /\ UNCHANGED <<value, error>>

Top == stack[Len(stack)]

InsertRoot ==
  /\ stack = <<>> /\ used = {}
  /\ Insert(DOMAIN value, 0)

(* The end of a key: a value that would not be negative as -value-1 is     *)
(* error -2, and all the calls return.                                     *)
Leaf ==
  /\ stack # <<>> /\ 0 \in Top.left
  /\ \E key \in Below(Top.keys, Top.depth, 0) :
       LET base == -value[key] - 1
       IN /\ units' = [units EXCEPT ![Top.begin].base = base]
          /\ error' = IF base >= 0 THEN -2 ELSE error
  /\ stack' = [stack EXCEPT ![Len(stack)].left = @ \ {0}]
  /\ UNCHANGED <<value, used, size, next_check_pos>>

Call ==
  /\ stack # <<>> /\ Top.left # {} /\ 0 \notin Top.left
  /\ Insert(Below(Top.keys, Top.depth, Min(Top.left)), Top.depth + 1)

Return ==
  /\ Len(stack) > 1 /\ Top.left = {}
  /\ LET caller == Len(stack) - 1
         code == Min(stack[caller].left)
     IN /\ units' = [units EXCEPT ![stack[caller].begin + code].base = Top.begin]
        /\ stack' = [i \in 1 .. caller |->
                       IF i = caller THEN [stack[i] EXCEPT !.left = @ \ {code}] ELSE stack[i]]
  /\ UNCHANGED <<value, used, size, next_check_pos, error>>

-----------------------------------------------------------------------------
(* build() of the sorted keys of a map: a new array, insert() from the     *)
(* root, and a margin for any character after the last base.               *)
BuildBegins(map) ==
  /\ value' = map
  /\ units' = [pos \in {0} |-> [base |-> 1, check |-> 0]]
  /\ used' = {}
  /\ size' = 0 /\ next_check_pos' = 0 /\ error' = 0
  /\ stack' = <<>>

Margin == MaxChar + 2

BuildEnds ==
  /\ Len(stack) = 1 /\ Top.left = {}
  /\ size' = size + Margin
  /\ stack' = <<>>
  /\ UNCHANGED <<value, units, used, next_check_pos, error>>

BuildStep ==
  /\ error = 0
  /\ InsertRoot \/ Leaf \/ Call \/ Return \/ BuildEnds

Built == error = 0 /\ stack = <<>> /\ used # {}

-----------------------------------------------------------------------------
(* exactMatchSearch(): follow the characters from the root's base.  A step *)
(* off the array reads what the file has there.                            *)
Outside(pos, length) == pos >= length

Follow(array, length, at, char) ==
  LET pos == at.base + char + 1
  IN IF at.is # "on" THEN at
     ELSE IF Outside(pos, length) THEN [at EXCEPT !.is = "wild"]
     ELSE IF CheckOf(array, pos) # at.base THEN [at EXCEPT !.is = "lost"]
     ELSE [at EXCEPT !.base = array[pos].base]

Search(array, length, key) ==
  LET walk[n \in 0 .. Len(key)] ==
        IF n = 0 THEN [base |-> array[0].base, is |-> "on"]
        ELSE Follow(array, length, walk[n - 1], key[n])
      at == walk[Len(key)]
  IN IF at.is = "lost" THEN -1
     ELSE IF at.is = "wild" \/ Outside(at.base, length) THEN -2
     ELSE IF CheckOf(array, at.base) = at.base /\ array[at.base].base < 0
     THEN -array[at.base].base - 1
     ELSE -1
=============================================================================
