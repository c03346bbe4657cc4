------------------------------- MODULE Tagger -------------------------------
(***************************************************************************)
(* Taggers and models in use: who owns which FeatureIndex and Allocator,   *)
(* and what the sentence of a tagger keeps from one call of the interface  *)
(* to the next (ModelImpl and TaggerImpl of tagger.h and tagger.cpp, modes *)
(* TEST and TEST_SHARED).  The client may make any call in any order.  A   *)
(* call that reads or writes what it may not - a null pointer, freed       *)
(* memory, past the end of a table, the n-best list of another sentence -  *)
(* is recorded in fault, where a behaviour ends.  misused records whether  *)
(* the client broke a rule it can state in terms of its own calls.         *)
(***************************************************************************)
EXTENDS Integers, FiniteSets

CONSTANTS Taggers,      \* variables that hold a tagger, or nothing
          Models,       \* Model objects
          Indexes,      \* FeatureIndex objects that can be alive at once
          Allocators,   \* Allocator objects that can be alive at once
          MaxTokens,    \* longest sentence
          NBests,       \* values of -n
          Vlevels,      \* values of -v
          MaxTags,      \* most tags of a model
          None          \* the null pointer

ASSUME TaggerAssumption ==
  /\ Indexes \cap Allocators = {}
  /\ MaxTokens \in Nat \ {0}
  /\ NBests \subseteq Nat /\ Vlevels \subseteq Nat
  /\ MaxTags \in Nat \ {0}
  /\ None \notin Indexes \cup Allocators

VARIABLES tg,       \* the data members of each tagger
          model,    \* feature_index_, its tags and the settings of a ModelImpl
          live,     \* indexes and allocators that are allocated
          client,   \* what the client knows of each tagger
          misused,  \* the client has broken a rule
          fault     \* a call has done what no call may do

vars == <<tg, model, live, client, misused, fault>>

-----------------------------------------------------------------------------
(* The data members of a TaggerImpl.  homes are the allocators that hold   *)
(* the strings and nodes of its tokens, columns the indexes by whose tags  *)
(* their columns in node_ are sized, and the first built columns hold      *)
(* nodes.  penalty_ has rows rows of width cells each.  agenda says what   *)
(* agenda_ holds: the candidates of the last parse, those of nodes that    *)
(* were freed or reused since, none, or no queue at all.  scored says that *)
(* cost_ has a value, which the constructor does not give it.              *)

NoTagger == [mode |-> "none", index |-> None, alloc |-> None, nbest |-> 0,
             vlevel |-> 0, ysize |-> 0, tokens |-> 0, homes |-> {},
             columns |-> {}, built |-> 0, rows |-> 0, width |-> 0,
             agenda |-> "null", scored |-> FALSE]

Constructed == [NoTagger EXCEPT !.mode = "TEST"]

(* What -n and -v ask for, and the tags of the model file.  A file without *)
(* tags is left out.                                                       *)
Settings == [nbest : NBests, vlevel : Vlevels, ysize : 1 .. MaxTags]

NoModel == [index |-> None, nbest |-> 0, vlevel |-> 0, ysize |-> 0]

(* A tagger given an index, with the tags of that index and the settings.  *)
Configured(s, i, o) == [s EXCEPT !.index = i, !.nbest = o.nbest,
                                 !.vlevel = o.vlevel, !.ysize = o.ysize]

(* The identity that the next new object gets. *)
Some(S) == CHOOSE x \in S : TRUE

Outdated(agenda) == IF agenda = "current" THEN "old" ELSE agenda

Referenced == {tg[t].index : t \in Taggers} \cup {tg[t].alloc : t \in Taggers}
              \cup {model[m].index : m \in Models}
              \cup UNION {tg[t].homes \cup tg[t].columns : t \in Taggers}

FreshIndexes == Indexes \ (live \cup Referenced)
FreshAllocators == Allocators \ (live \cup Referenced)

Usable(pointer) == pointer # None /\ pointer \in live

(* Mutants of ClosedFrees: a sharing tagger deletes the index with its     *)
(* allocator, or deletes neither.                                          *)
ClosedFreesShared(s) == IF s.mode = "none" THEN {} ELSE {s.index, s.alloc} \ {None}

ClosedFreesTestOnly(s) ==
  IF s.mode = "TEST" THEN {s.index, s.alloc} \ {None} ELSE {}

(* What close() deletes, and what it leaves of the tagger. *)
ClosedFrees(s) == (CASE s.mode = "TEST" -> {s.index, s.alloc}
                     [] s.mode = "TEST_SHARED" -> {s.alloc}
                     [] OTHER -> {}) \ {None}

Closed(s) ==
  [s EXCEPT !.index = IF s.mode = "TEST" THEN None ELSE @,
            !.alloc = None,
            !.agenda = IF s.alloc = None THEN @ ELSE Outdated(@)]

(* clear(): the allocator takes back strings and nodes; penalty_, agenda_  *)
(* and the settings stay.                                                  *)
ClearFault(s) == ~Usable(s.alloc)

Cleared(s) == [s EXCEPT !.tokens = 0, !.homes = {}, !.columns = {},
                        !.built = 0, !.agenda = Outdated(@), !.scored = TRUE]

AddFault(s) == ~Usable(s.alloc) \/ ~Usable(s.index)

(* add(), n times. *)
Added(s, n) == [s EXCEPT !.tokens = @ + n,
                         !.homes = IF n = 0 THEN @ ELSE @ \cup {s.alloc},
                         !.columns = IF n = 0 THEN @ ELSE @ \cup {s.index}]

TokensFault(s) == s.tokens > 0 /\ (~Usable(s.index) \/ ~(s.homes \subseteq live))

(* A node of some token and some tag of the index is null, freed, or past  *)
(* the end of its column.                                                  *)
NodesFault(s) == \/ s.built < s.tokens
                 \/ ~(s.homes \subseteq live) \/ ~(s.columns \subseteq {s.index})

(* next() on the agenda: the queue of this parse gives results until it is *)
(* drained.                                                                *)
NextFault(s) == s.agenda \in {"null", "old"}

AgendaAfterNext(s) == IF s.agenda = "current" THEN {"current", "empty"}
                                              ELSE {s.agenda}

(* Mutant of InitNbest: a queue that is there already is kept. *)
InitNbestOnce(agenda) == IF agenda = "null" THEN "current" ELSE agenda

(* initNbest(): the queue is made if there is none, emptied and filled     *)
(* with the nodes of the last token.                                       *)
InitNbest(agenda) == "current"

(* parse(): buildFeatures, the lattice with its penalties, Viterbi, and    *)
(* the first candidates of the n-best search.  An empty sentence returns   *)
(* before initNbest; a new lattice reuses the nodes of the old one.        *)
BuildFault(s) == ~Usable(s.alloc) \/ ~Usable(s.index) \/ TokensFault(s)

ParseFault(s) ==
  \/ BuildFault(s)
  \/ ~(s.columns \subseteq {s.index})
  \/ s.tokens > 0 /\ s.rows > 0 /\ (s.rows < s.tokens \/ s.width < s.ysize)

Parsed(s) ==
  IF s.tokens = 0 THEN s
  ELSE [s EXCEPT !.agenda = IF s.nbest > 0 THEN InitNbest(Outdated(@))
                                           ELSE Outdated(@),
                 !.built = s.tokens, !.scored = TRUE]

(* toString(): with n-best output next() decides whether there is a        *)
(* result, otherwise the last Viterbi path is printed.  From level 1 on it *)
(* prints the cost of the result, which next() sets, and reads the nodes.  *)
ToStringFault(s) ==
  \/ s.nbest > 0 /\ NextFault(s)
  \/ TokensFault(s)
  \/ s.vlevel > 0 /\ s.nbest = 0 /\ ~s.scored
  \/ s.vlevel > 0 /\ (s.nbest = 0 \/ s.agenda = "current") /\ NodesFault(s)

AfterToString(s) ==
  IF s.nbest > 0 THEN {[s EXCEPT !.agenda = a] : a \in AgendaAfterNext(s)}
                 ELSE {s}

-----------------------------------------------------------------------------
(* Every call below names the rule of use it would break: opened is set by *)
(* an open that succeeds, parsed by a parse() of tokens, until the next    *)
(* add, and ranked by one under n-best.                                    *)

Unknown == [opened |-> FALSE, ranked |-> FALSE, parsed |-> FALSE]

Opened == [Unknown EXCEPT !.opened = TRUE]

Unread(c) == [c EXCEPT !.ranked = FALSE, !.parsed = FALSE]

(* After a parse() of n tokens by s. *)
Answered(c, s, n) == [c EXCEPT !.ranked = s.nbest > 0 /\ n > 0, !.parsed = n > 0]

Call(t, broken, faulty, s, c) ==
  /\ tg' = IF faulty THEN tg ELSE [tg EXCEPT ![t] = s]
  /\ client' = [client EXCEPT ![t] = c]
  /\ misused' = (misused \/ broken)
  /\ fault' = faulty

(* createTagger(arg): a tagger whose open fails is deleted again, and the  *)
(* client is left without one.                                             *)
CreateTagger(t) ==
  /\ tg[t].mode = "none"
  /\ FreshIndexes # {} /\ FreshAllocators # {}
  /\ LET i == Some(FreshIndexes)
         a == Some(FreshAllocators)
     IN /\ live' = live \cup {i, a}
        /\ \E o \in Settings :
             Call(t, FALSE, FALSE,
                  Configured([Constructed EXCEPT !.alloc = a], i, o), Opened)
  /\ UNCHANGED model

(* Model::createTagger(): nothing without an index. *)
CreateFromModel(t, m) ==
  /\ tg[t].mode = "none"
  /\ model[m].index # None
  /\ FreshAllocators # {}
  /\ LET a == Some(FreshAllocators) IN
     /\ live' = live \cup {a}
     /\ Call(t, FALSE, FALSE,
             Configured([Constructed EXCEPT !.mode = "TEST_SHARED", !.alloc = a],
                        model[m].index, model[m]), Opened)
  /\ UNCHANGED model

(* A penalty table, once made, keeps the rows and the width it was made    *)
(* with: n more tokens would not fit, or a model with y tags.              *)
Overrun(s, n) == s.rows > 0 /\ s.tokens + n > s.rows
Narrow(s, y) == s.rows > 0 /\ s.width < y

(* open(param) on a tagger the client has: the previous model is closed,   *)
(* and the mode stays what it was.  A tagger that shared its model now     *)
(* holds an index of its own, which it will never delete.  A file that     *)
(* cannot be read, or a cost factor that is not positive, leaves the tags  *)
(* as they were.                                                           *)
Open(t, ok) ==
  /\ tg[t].mode # "none"
  /\ FreshIndexes # {} /\ FreshAllocators # {}
  /\ \E o \in Settings :
       LET i == Some(FreshIndexes)
           a == Some(FreshAllocators)
           set == Configured([Closed(tg[t]) EXCEPT !.alloc = a], i, o)
           closed == live \ ClosedFrees(tg[t])
           broken == tg[t].mode = "TEST_SHARED" \/ tg[t].tokens > 0
       IN IF ok
          THEN /\ live' = closed \cup {i, a}
               /\ Call(t, broken \/ Narrow(tg[t], o.ysize), FALSE, set, Opened)
          ELSE /\ live' = (closed \cup {i, a}) \ ClosedFrees(set)
               /\ Call(t, broken, FALSE,
                       [Closed(set) EXCEPT !.ysize = tg[t].ysize], Unknown)
  /\ UNCHANGED model

(* open(arg) whose options Param refuses: false, before anything is        *)
(* closed.  To the client this is an open that failed.                     *)
RefusedOpen(t) ==
  /\ tg[t].mode # "none"
  /\ Call(t, FALSE, FALSE, tg[t], Unknown)
  /\ UNCHANGED <<live, model>>

(* close(), and open() with --help or --version, which closes and returns  *)
(* before it sets anything.                                                *)
Close(t) ==
  /\ tg[t].mode # "none"
  /\ live' = live \ ClosedFrees(tg[t])
  /\ Call(t, FALSE, FALSE, Closed(tg[t]), Unknown)
  /\ UNCHANGED model

(* delete tagger: ~TaggerImpl closes it. *)
DeleteTagger(t) ==
  /\ tg[t].mode # "none"
  /\ live' = live \ ClosedFrees(tg[t])
  /\ Call(t, FALSE, FALSE, NoTagger, Unknown)
  /\ UNCHANGED model

(* set_model(model): a TEST tagger gives up its index, and every tagger    *)
(* keeps the allocator it has, be there one or not.  So a tagger that was  *)
(* closed is not opened by it.                                             *)
SetModel(t, m) ==
  LET i == model[m].index
  IN /\ tg[t].mode # "none"
     /\ live' = IF tg[t].mode = "TEST" THEN live \ {tg[t].index} ELSE live
     /\ Call(t, i = None \/ tg[t].tokens > 0 \/ Narrow(tg[t], model[m].ysize),
             i = None,
             Configured([tg[t] EXCEPT !.mode = "TEST_SHARED"], i, model[m]),
             Unread(client[t]))
     /\ UNCHANGED model

SetNbest(t, n) ==
  /\ tg[t].mode # "none"
  /\ Call(t, FALSE, FALSE, [tg[t] EXCEPT !.nbest = n], client[t])
  /\ UNCHANGED <<live, model>>

SetVlevel(t, v) ==
  /\ tg[t].mode # "none"
  /\ Call(t, FALSE, FALSE, [tg[t] EXCEPT !.vlevel = v], client[t])
  /\ UNCHANGED <<live, model>>

(* An open tagger uses the index of a model. *)
Sharing(i) == \E t \in Taggers : /\ client[t].opened
                                 /\ tg[t].mode = "TEST_SHARED"
                                 /\ tg[t].index = i /\ i # None

(* ModelImpl::open: reset() deletes the previous index, whoever uses it;   *)
(* a file that cannot be read leaves none.  Options that Param refuses     *)
(* change nothing, and make no step.                                       *)
OpenModel(m, ok) ==
  /\ FreshIndexes # {}
  /\ LET i == Some(FreshIndexes)
     IN /\ live' = (live \ {model[m].index}) \cup (IF ok THEN {i} ELSE {})
        /\ \E o \in Settings : model' =
             [model EXCEPT ![m] = [index |-> IF ok THEN i ELSE None,
                                   nbest |-> o.nbest, vlevel |-> o.vlevel,
                                   ysize |-> IF ok THEN o.ysize ELSE 0]]
  /\ misused' = (misused \/ Sharing(model[m].index))
  /\ UNCHANGED <<tg, client, fault>>

DeleteModel(m) ==
  /\ live' = live \ {model[m].index}
  /\ model' = [model EXCEPT ![m] = NoModel]
  /\ misused' = (misused \/ Sharing(model[m].index))
  /\ UNCHANGED <<tg, client, fault>>

-----------------------------------------------------------------------------
(* The sentence of a tagger. *)

Clear(t) ==
  /\ tg[t].mode # "none"
  /\ Call(t, ~client[t].opened, ClearFault(tg[t]), Cleared(tg[t]),
          Unread(client[t]))
  /\ UNCHANGED <<live, model>>

Add(t) ==
  /\ tg[t].mode # "none"
  /\ tg[t].tokens < MaxTokens
  /\ Call(t, ~client[t].opened \/ Overrun(tg[t], 1), AddFault(tg[t]),
          Added(tg[t], 1), [client[t] EXCEPT !.parsed = FALSE])
  /\ UNCHANGED <<live, model>>

(* set_penalty(i, j, p): the first call makes the table. *)
SetPenalty(t, i, j) ==
  LET s == tg[t]
      made == IF s.rows > 0 \/ s.tokens = 0 THEN s
              ELSE [s EXCEPT !.rows = s.tokens, !.width = s.ysize]
  IN /\ s.mode # "none"
     /\ Call(t, i >= s.tokens \/ j >= s.ysize,
             i >= made.rows \/ j >= made.width, made, client[t])
     /\ UNCHANGED <<live, model>>

(* parse(); a template line with a bad %x makes buildFeatures give up.     *)
Parse(t, ok) ==
  /\ tg[t].mode # "none"
  /\ IF ok
     THEN Call(t, ~client[t].opened, ParseFault(tg[t]), Parsed(tg[t]),
               Answered(client[t], tg[t], tg[t].tokens))
     ELSE /\ tg[t].tokens > 0
          /\ Call(t, ~client[t].opened, BuildFault(tg[t]), tg[t],
                  Unread(client[t]))
  /\ UNCHANGED <<live, model>>

(* prob(i, j), alpha(i, j), best_cost(i, j) and the other functions that   *)
(* read the nodes of the sentence.                                         *)
Inspect(t) ==
  /\ tg[t].tokens > 0
  /\ Call(t, ~client[t].parsed, NodesFault(tg[t]), tg[t], client[t])
  /\ UNCHANGED <<live, model>>

NextBest(t) ==
  /\ tg[t].mode # "none"
  /\ \E a \in AgendaAfterNext(tg[t]) :
       Call(t, ~client[t].ranked, NextFault(tg[t]),
            [tg[t] EXCEPT !.agenda = a], client[t])
  /\ UNCHANGED <<live, model>>

(* toString(), and parse(in, n, out, m), which never reads in: it prints   *)
(* the sentence the tagger has, if there is one.                           *)
TaggerToString(t) ==
  /\ tg[t].mode # "none"
  /\ \E s \in AfterToString(tg[t]) :
       Call(t, \/ ~client[t].opened
               \/ tg[t].nbest > 0 /\ ~client[t].ranked
               \/ tg[t].vlevel > 0 /\ ~client[t].parsed,
            ToStringFault(tg[t]), s, client[t])
  /\ UNCHANGED <<live, model>>

(* parse(text): read() clears and adds the lines, up to one with too few   *)
(* columns when it leaves the text unread; then parse(), which may leave   *)
(* it unparsed, and toString().                                            *)
ParseText(t, n, outcome) ==
  LET read == Added(Cleared(tg[t]), n)
      parsed == Parsed(read)
      reads == \/ ClearFault(tg[t])
               \/ (n > 0 \/ outcome = "unread") /\ AddFault(Cleared(tg[t]))
      broken == ~client[t].opened \/ Overrun(Cleared(tg[t]), n)
  IN /\ tg[t].mode # "none"
     /\ \/ /\ outcome = "unread"
           /\ Call(t, broken, reads, read, Unread(client[t]))
        \/ /\ outcome = "unparsed" /\ n > 0
           /\ Call(t, broken, reads \/ BuildFault(read), read, Unread(client[t]))
        \/ /\ outcome = "answered"
           /\ \E s \in AfterToString(parsed) :
                Call(t, broken \/ (n = 0 /\ tg[t].nbest > 0),
                     reads \/ ParseFault(read) \/ ToStringFault(parsed), s,
                     Answered(client[t], tg[t], n))
     /\ UNCHANGED <<live, model>>

-----------------------------------------------------------------------------
Init ==
  /\ tg = [t \in Taggers |-> NoTagger]
  /\ model = [m \in Models |-> NoModel]
  /\ live = {}
  /\ client = [t \in Taggers |-> Unknown]
  /\ misused = FALSE
  /\ fault = FALSE

Next ==
  /\ ~fault
  /\ \/ \E t \in Taggers :
          \/ CreateTagger(t) \/ RefusedOpen(t) \/ Close(t) \/ DeleteTagger(t)
          \/ \E ok \in BOOLEAN : Open(t, ok) \/ Parse(t, ok)
          \/ \E m \in Models : CreateFromModel(t, m) \/ SetModel(t, m)
          \/ \E n \in NBests : SetNbest(t, n)
          \/ \E v \in Vlevels : SetVlevel(t, v)
          \/ Clear(t) \/ Add(t) \/ NextBest(t) \/ TaggerToString(t) \/ Inspect(t)
          \/ \E i \in 0 .. MaxTokens - 1, j \in 0 .. MaxTags - 1 :
               SetPenalty(t, i, j)
          \/ \E n \in 0 .. MaxTokens,
                outcome \in {"answered", "unparsed", "unread"} :
               ParseText(t, n, outcome)
     \/ \E m \in Models :
          \/ DeleteModel(m)
          \/ \E ok \in BOOLEAN : OpenModel(m, ok)

Spec == Init /\ [][Next]_vars

-----------------------------------------------------------------------------
(* Properties. *)

TypeOK ==
  /\ tg \in [Taggers -> [mode : {"none", "TEST", "TEST_SHARED"},
                         index : Indexes \cup {None},
                         alloc : Allocators \cup {None},
                         nbest : NBests \cup {0}, vlevel : Vlevels \cup {0},
                         ysize : 0 .. MaxTags, tokens : 0 .. MaxTokens,
                         homes : SUBSET Allocators, columns : SUBSET Indexes,
                         built : 0 .. MaxTokens, rows : 0 .. MaxTokens,
                         width : 0 .. MaxTags,
                         agenda : {"null", "current", "old", "empty"},
                         scored : BOOLEAN]]
  /\ model \in [Models -> [index : Indexes \cup {None}, nbest : NBests \cup {0},
                           vlevel : Vlevels \cup {0}, ysize : 0 .. MaxTags]]
  /\ live \subseteq Indexes \cup Allocators
  /\ client \in [Taggers -> [opened : BOOLEAN, ranked : BOOLEAN, parsed : BOOLEAN]]
  /\ misused \in BOOLEAN /\ fault \in BOOLEAN

(* Two taggers never share an allocator, a tagger in mode TEST is the only *)
(* user of its index (it is the one that deletes it), and as long as the   *)
(* client keeps the rules, whatever an open tagger or a model points at is *)
(* allocated: the pointers that open, close, set_model and                 *)
(* Model::createTagger (tagger.cpp:118-298) hand round have one owner.     *)
OwnedOnce ==
  /\ \A t, u \in Taggers :
       t # u /\ tg[t].alloc # None => tg[t].alloc # tg[u].alloc
  /\ \A t \in Taggers : tg[t].mode = "TEST" /\ tg[t].index # None =>
       /\ \A u \in Taggers \ {t} : tg[u].index # tg[t].index
       /\ \A m \in Models : model[m].index # tg[t].index
  /\ ~misused =>
       /\ \A t \in Taggers : client[t].opened =>
            Usable(tg[t].index) /\ Usable(tg[t].alloc)
       /\ \A m \in Models : model[m].index # None => Usable(model[m].index)

(* A client that keeps the rules never makes a tagger dereference a null   *)
(* or freed pointer, leave the penalty table or a node column, print a     *)
(* cost that has no value, or take up the n-best candidates of another     *)
(* sentence (tagger.cpp:216-475, 690-795; tagger.h:112-140).               *)
FaultsAreMisuse == fault => misused

OwnedIndexes == {tg[t].index : t \in {u \in Taggers : tg[u].mode = "TEST"}}
                \cup {model[m].index : m \in Models}

(* And it loses no memory: what is allocated is what a tagger or a model   *)
(* will delete (close at tagger.cpp:266, set_model at 278, reset in        *)
(* ModelImpl::open at 167).                                                *)
NothingLeaks ==
  ~misused => live = (OwnedIndexes \cup {tg[t].alloc : t \in Taggers}) \ {None}

(* crfpp.h:303 says that clear() clears all context: a tagger without      *)
(* tokens would have no token-level penalties.                             *)
ClearedHasNoPenalties == \A t \in Taggers : tg[t].tokens = 0 => tg[t].rows = 0
=============================================================================
