---------------------------- MODULE TaggerProofs ----------------------------
(***************************************************************************)
(* Ownership of indexes and allocators, and the soundness of the calls of  *)
(* a client that keeps the rules, for any number of taggers, models,       *)
(* objects and tokens.                                                     *)
(***************************************************************************)
EXTENDS Tagger, TLAPS

Sentences == [mode : {"none", "TEST", "TEST_SHARED"},
              index : Indexes \cup {None},
              alloc : Allocators \cup {None},
              nbest : NBests \cup {0}, vlevel : Vlevels \cup {0},
              ysize : 0 .. MaxTags, tokens : 0 .. MaxTokens,
              homes : SUBSET Allocators, columns : SUBSET Indexes,
              built : 0 .. MaxTokens, rows : 0 .. MaxTokens,
              width : 0 .. MaxTags,
              agenda : {"null", "current", "old", "empty"},
              scored : BOOLEAN]

Records == [index : Indexes \cup {None}, nbest : NBests \cup {0},
            vlevel : Vlevels \cup {0}, ysize : 0 .. MaxTags]

Contexts == [opened : BOOLEAN, ranked : BOOLEAN, parsed : BOOLEAN]

(* A new object is one that nothing refers to. *)
LEMMA SomeIn == ASSUME NEW S, S # {} PROVE Some(S) \in S
BY DEF Some

LEMMA NewIndex == ASSUME FreshIndexes # {}
                  PROVE  Some(FreshIndexes) \in FreshIndexes
BY SomeIn

LEMMA NewAllocator == ASSUME FreshAllocators # {}
                      PROVE  Some(FreshAllocators) \in FreshAllocators
BY SomeIn

-----------------------------------------------------------------------------
(* Types. *)

(* The type invariant, by the names of its sets. *)
LEMMA Typed ==
  TypeOK <=> /\ tg \in [Taggers -> Sentences]
             /\ model \in [Models -> Records]
             /\ live \subseteq Indexes \cup Allocators
             /\ client \in [Taggers -> Contexts]
             /\ misused \in BOOLEAN /\ fault \in BOOLEAN
BY DEF TypeOK, Sentences, Contexts, Records

(* Zero is among the counts and the tags. *)
LEMMA Zero == 0 \in 0 .. MaxTokens /\ 0 \in 0 .. MaxTags
BY TaggerAssumption

(* The settings of a call, and those of a model, are settings of a tagger. *)
LEMMA Configurable ==
  ASSUME NEW s \in Sentences, NEW i \in Indexes \cup {None},
         NEW o, o \in Settings \/ o \in Records
  PROVE  Configured(s, i, o) \in Sentences
<1>1. o.nbest \in NBests \cup {0} /\ o.vlevel \in Vlevels \cup {0}
  BY DEF Settings, Records
<1>2. o.ysize \in 0 .. MaxTags
  <2>1. CASE o \in Settings
    <3>1. o.ysize \in 1 .. MaxTags
      BY <2>1 DEF Settings
    <3> QED BY <3>1, TaggerAssumption
  <2>2. CASE o \in Records
    BY <2>2 DEF Records
  <2> QED BY <2>1, <2>2
<1> DEFINE nbest == o.nbest
           vlevel == o.vlevel
           ysize == o.ysize
<1>3. Configured(s, i, o) = [s EXCEPT !.index = i, !.nbest = nbest,
                                      !.vlevel = vlevel, !.ysize = ysize]
  BY DEF Configured
<1> HIDE DEF nbest, vlevel, ysize
<1> QED BY <1>1, <1>2, <1>3 DEF Sentences, nbest, vlevel, ysize

(* What the calls make of a sentence is one. *)
LEMMA Results ==
  ASSUME NEW s \in Sentences
  PROVE  /\ Closed(s) \in Sentences
         /\ Cleared(s) \in Sentences
         /\ s.alloc # None /\ s.index # None =>
              \A n \in Nat : s.tokens + n <= MaxTokens => Added(s, n) \in Sentences
         /\ Parsed(s) \in Sentences
         /\ \A u \in AfterToString(s) : u \in Sentences
<1>1. Closed(s) \in Sentences
  BY DEF Sentences, Closed, Outdated
<1>2. Cleared(s) \in Sentences
  <2>1. /\ {} \in SUBSET Allocators
        /\ {} \in SUBSET Indexes
    OBVIOUS
  <2> QED BY Zero, <2>1 DEF Sentences, Cleared, Outdated
<1>3. ASSUME NEW n \in Nat, s.tokens + n <= MaxTokens, s.alloc # None, s.index # None
      PROVE  Added(s, n) \in Sentences
  <2> DEFINE homes == IF n = 0 THEN s.homes ELSE s.homes \cup {s.alloc}
             columns == IF n = 0 THEN s.columns ELSE s.columns \cup {s.index}
             tokens == s.tokens + n
  <2>1. tokens \in 0 .. MaxTokens
    BY <1>3, TaggerAssumption DEF Sentences
  <2>2. /\ homes \in SUBSET Allocators
        /\ columns \in SUBSET Indexes
    BY <1>3 DEF Sentences
  <2>3. Added(s, n) = [s EXCEPT !.tokens = tokens, !.homes = homes,
                                !.columns = columns]
    BY DEF Added
  <2> HIDE DEF homes, columns, tokens
  <2> QED BY <2>1, <2>2, <2>3 DEF Sentences
<1>4. Parsed(s) \in Sentences
  BY DEF Sentences, Parsed, InitNbest, Outdated
<1>5. \A u \in AfterToString(s) : u \in Sentences
  BY DEF Sentences, AfterToString, AgendaAfterNext
<1> QED BY <1>1, <1>2, <1>3, <1>4, <1>5

(* Init and every call keep the types. *)
LEMMA TypeInit == Init => TypeOK
<1> SUFFICES ASSUME Init PROVE TypeOK
  OBVIOUS
<1>1. NoTagger \in Sentences
  <2>1. /\ {} \in SUBSET Allocators
        /\ {} \in SUBSET Indexes
    OBVIOUS
  <2> QED BY Zero, <2>1 DEF NoTagger, Sentences
<1>2. NoModel \in Records
  BY Zero DEF NoModel, Records
<1>3. Unknown \in Contexts
  BY DEF Unknown, Contexts
<1> QED BY <1>1, <1>2, <1>3, Typed DEF Init

(* Every call, type by type. *)
LEMMA TypeStep == TypeOK /\ [Next]_vars => TypeOK'
<1> SUFFICES ASSUME TypeOK, [Next]_vars PROVE TypeOK'
  OBVIOUS
<1>t. /\ tg \in [Taggers -> Sentences]
      /\ model \in [Models -> Records]
      /\ live \subseteq Indexes \cup Allocators
      /\ client \in [Taggers -> Contexts]
      /\ misused \in BOOLEAN /\ fault \in BOOLEAN
  BY Typed
<1> SUFFICES
      /\ tg' \in [Taggers -> Sentences]
      /\ model' \in [Models -> Records]
      /\ live' \subseteq Indexes \cup Allocators
      /\ client' \in [Taggers -> Contexts]
      /\ misused' \in BOOLEAN /\ fault' \in BOOLEAN
  BY DEF TypeOK, Sentences, Contexts, Records
<1>n. /\ NoTagger \in Sentences
      /\ Constructed \in Sentences
      /\ Unknown \in Contexts
      /\ Opened \in Contexts
      /\ NoModel \in Records
  <2>1. /\ {} \in SUBSET Allocators
        /\ {} \in SUBSET Indexes
    OBVIOUS
  <2>2. NoTagger \in Sentences /\ Constructed \in Sentences
    BY Zero, <2>1 DEF NoTagger, Constructed, Sentences
  <2> QED BY Zero, <2>2 DEF Unknown, Opened, Contexts, NoModel, Records
<1>c. \A c \in Contexts : /\ Unread(c) \in Contexts
                          /\ [c EXCEPT !.parsed = FALSE] \in Contexts
                          /\ \A s, n : Answered(c, s, n) \in Contexts
  <2>1. ASSUME NEW c \in Contexts
        PROVE  Unread(c) \in Contexts /\ [c EXCEPT !.parsed = FALSE] \in Contexts
    BY DEF Contexts, Unread
  <2>2. ASSUME NEW c \in Contexts, NEW s, NEW n PROVE Answered(c, s, n) \in Contexts
    <3> DEFINE ranked == s.nbest > 0 /\ n > 0
               parsed == n > 0
    <3>1. ranked \in BOOLEAN /\ parsed \in BOOLEAN
      OBVIOUS
    <3>2. Answered(c, s, n) = [c EXCEPT !.ranked = ranked, !.parsed = parsed]
      BY DEF Answered
    <3> HIDE DEF ranked, parsed
    <3> QED BY <3>1, <3>2 DEF Contexts
  <2> QED BY <2>1, <2>2
<1>f. /\ FreshIndexes # {} => Some(FreshIndexes) \in Indexes
      /\ FreshAllocators # {} => Some(FreshAllocators) \in Allocators
  BY NewIndex, NewAllocator DEF FreshIndexes, FreshAllocators
<1>m. ASSUME NEW t \in Taggers
      PROVE  tg[t] \in Sentences /\ client[t] \in Contexts
  BY <1>t
<1>o. ASSUME NEW m \in Models
      PROVE  model[m] \in Records /\ model[m].index \in Indexes \cup {None}
  BY <1>t DEF Records
<1>1. ASSUME NEW t \in Taggers, CreateTagger(t)
      PROVE  /\ tg' \in [Taggers -> Sentences]
             /\ live' \subseteq Indexes \cup Allocators
             /\ client' \in [Taggers -> Contexts]
             /\ misused' \in BOOLEAN /\ fault' \in BOOLEAN
  <2> DEFINE i == Some(FreshIndexes)
             a == Some(FreshAllocators)
  <2>1. i \in Indexes /\ a \in Allocators
    BY <1>1, <1>f DEF CreateTagger
  <2>2. PICK o \in Settings :
          Call(t, FALSE, FALSE, Configured([Constructed EXCEPT !.alloc = a], i, o),
               Opened)
    BY <1>1 DEF CreateTagger
  <2>3. Configured([Constructed EXCEPT !.alloc = a], i, o) \in Sentences
    <3>1. [Constructed EXCEPT !.alloc = a] \in Sentences
      BY <2>1, <1>n DEF Sentences
    <3> QED BY <2>1, <3>1, Configurable
  <2>4. live' = live \cup {i, a}
    BY <1>1 DEF CreateTagger
  <2> HIDE DEF i, a
  <2> QED BY <1>t, <1>n, <2>1, <2>2, <2>3, <2>4 DEF Call
<1>2. ASSUME NEW t \in Taggers, NEW m \in Models, CreateFromModel(t, m)
      PROVE  /\ tg' \in [Taggers -> Sentences]
             /\ live' \subseteq Indexes \cup Allocators
             /\ client' \in [Taggers -> Contexts]
             /\ misused' \in BOOLEAN /\ fault' \in BOOLEAN
  <2> DEFINE a == Some(FreshAllocators)
             s == Configured([Constructed EXCEPT !.mode = "TEST_SHARED", !.alloc = a],
                             model[m].index, model[m])
  <2>1. a \in Allocators
    BY <1>2, <1>f DEF CreateFromModel
  <2>2. Call(t, FALSE, FALSE, s, Opened)
    BY <1>2 DEF CreateFromModel
  <2>3. s \in Sentences
    <3>1. [Constructed EXCEPT !.mode = "TEST_SHARED", !.alloc = a] \in Sentences
      BY <2>1, <1>n DEF Sentences
    <3> QED BY <3>1, <1>o, Configurable
  <2>4. live' = live \cup {a}
    BY <1>2 DEF CreateFromModel
  <2> HIDE DEF a, s
  <2> QED BY <1>t, <1>n, <2>1, <2>2, <2>3, <2>4 DEF Call
<1>3. ASSUME NEW t \in Taggers, NEW ok \in BOOLEAN, Open(t, ok)
      PROVE  /\ tg' \in [Taggers -> Sentences]
             /\ live' \subseteq Indexes \cup Allocators
             /\ client' \in [Taggers -> Contexts]
             /\ misused' \in BOOLEAN /\ fault' \in BOOLEAN
  <2> DEFINE i == Some(FreshIndexes)
             a == Some(FreshAllocators)
             before == [Closed(tg[t]) EXCEPT !.alloc = a]
             broken == tg[t].mode = "TEST_SHARED" \/ tg[t].tokens > 0
  <2>1. i \in Indexes /\ a \in Allocators
    BY <1>3, <1>f DEF Open
  <2>2. PICK o \in Settings :
          LET set == Configured(before, i, o)
              closed == live \ ClosedFrees(tg[t])
          IN IF ok
             THEN /\ live' = closed \cup {i, a}
                  /\ Call(t, broken \/ Narrow(tg[t], o.ysize), FALSE, set, Opened)
             ELSE /\ live' = (closed \cup {i, a}) \ ClosedFrees(set)
                  /\ Call(t, broken, FALSE,
                          [Closed(set) EXCEPT !.ysize = tg[t].ysize], Unknown)
    BY <1>3 DEF Open
  <2> DEFINE set == Configured(before, i, o)
             left == [Closed(set) EXCEPT !.ysize = tg[t].ysize]
             narrow == Narrow(tg[t], o.ysize)
  <2>3. before \in Sentences
    <3>1. Closed(tg[t]) \in Sentences
      BY Results, <1>m
    <3> HIDE DEF a
    <3> QED BY <2>1, <3>1 DEF Sentences
  <2>4. set \in Sentences
    <3> HIDE DEF before, i
    <3> QED BY <2>1, <2>3, Configurable
  <2>5. left \in Sentences
    <3>1. Closed(set) \in Sentences /\ tg[t].ysize \in 0 .. MaxTags
      BY Results, <1>m, <2>4 DEF Sentences
    <3> HIDE DEF set
    <3> QED BY <3>1 DEF Sentences
  <2>6. live' \subseteq Indexes \cup Allocators
    BY <1>t, <2>1, <2>2
  <2> HIDE DEF i, a, before, set, left, narrow, broken
  <2>7. CASE ok
    <3>1. Call(t, broken \/ narrow, FALSE, set, Opened)
      BY <2>2, <2>7 DEF set, narrow
    <3> QED BY <1>t, <1>n, <2>4, <2>6, <3>1 DEF Call
  <2>8. CASE ~ok
    <3>1. Call(t, broken, FALSE, left, Unknown)
      BY <2>2, <2>8 DEF set, left
    <3> QED BY <1>t, <1>n, <2>5, <2>6, <3>1 DEF Call
  <2> QED BY <2>7, <2>8
<1>4. ASSUME NEW t \in Taggers, Close(t)
      PROVE  /\ tg' \in [Taggers -> Sentences]
             /\ live' \subseteq Indexes \cup Allocators
             /\ client' \in [Taggers -> Contexts]
             /\ misused' \in BOOLEAN /\ fault' \in BOOLEAN
  BY <1>t, <1>n, <1>m, <1>4, Results DEF Close, Call
<1>5. ASSUME NEW t \in Taggers, DeleteTagger(t)
      PROVE  /\ tg' \in [Taggers -> Sentences]
             /\ live' \subseteq Indexes \cup Allocators
             /\ client' \in [Taggers -> Contexts]
             /\ misused' \in BOOLEAN /\ fault' \in BOOLEAN
  BY <1>t, <1>n, <1>5 DEF DeleteTagger, Call
<1>6. ASSUME NEW t \in Taggers, NEW m \in Models, SetModel(t, m)
      PROVE  /\ tg' \in [Taggers -> Sentences]
             /\ live' \subseteq Indexes \cup Allocators
             /\ client' \in [Taggers -> Contexts]
             /\ misused' \in BOOLEAN /\ fault' \in BOOLEAN
  <2> DEFINE shared == [tg[t] EXCEPT !.mode = "TEST_SHARED"]
             s == Configured(shared, model[m].index, model[m])
             c == Unread(client[t])
             broken == \/ model[m].index = None \/ tg[t].tokens > 0
                       \/ Narrow(tg[t], model[m].ysize)
  <2>1. s \in Sentences
    <3>1. shared \in Sentences
      BY <1>m DEF Sentences
    <3> HIDE DEF shared
    <3> QED BY <1>o, <3>1, Configurable
  <2>2. c \in Contexts
    BY <1>m, <1>c
  <2>3. /\ Call(t, broken, model[m].index = None, s, c)
        /\ live' \subseteq live
    BY <1>6 DEF SetModel
  <2> HIDE DEF s, c, broken
  <2> QED BY <1>t, <2>1, <2>2, <2>3 DEF Call
<1>7. ASSUME NEW t \in Taggers, NEW n \in NBests, SetNbest(t, n)
      PROVE  /\ tg' \in [Taggers -> Sentences]
             /\ live' \subseteq Indexes \cup Allocators
             /\ client' \in [Taggers -> Contexts]
             /\ misused' \in BOOLEAN /\ fault' \in BOOLEAN
  <2>1. [tg[t] EXCEPT !.nbest = n] \in Sentences
    BY <1>m DEF Sentences
  <2> QED BY <1>t, <1>m, <1>7, <2>1 DEF SetNbest, Call
<1>8. ASSUME NEW t \in Taggers, Clear(t)
      PROVE  /\ tg' \in [Taggers -> Sentences]
             /\ live' \subseteq Indexes \cup Allocators
             /\ client' \in [Taggers -> Contexts]
             /\ misused' \in BOOLEAN /\ fault' \in BOOLEAN
  <2>1. Unread(client[t]) \in Contexts
    BY <1>m, <1>c
  <2> QED BY <1>t, <1>m, <1>8, <2>1, Results DEF Clear, Call, ClearFault, Usable
<1>9. ASSUME NEW t \in Taggers, Add(t)
      PROVE  /\ tg' \in [Taggers -> Sentences]
             /\ live' \subseteq Indexes \cup Allocators
             /\ client' \in [Taggers -> Contexts]
             /\ misused' \in BOOLEAN /\ fault' \in BOOLEAN
  <2>1. ~AddFault(tg[t]) => Added(tg[t], 1) \in Sentences
    <3>1. tg[t].tokens + 1 <= MaxTokens
      BY <1>9, <1>m, TaggerAssumption DEF Add, Sentences
    <3> QED BY <1>m, <3>1, Results DEF AddFault, Usable
  <2>2. AddFault(tg[t]) \in BOOLEAN
    BY DEF AddFault, Usable
  <2> DEFINE s == Added(tg[t], 1)
             c == [client[t] EXCEPT !.parsed = FALSE]
             broken == ~client[t].opened \/ Overrun(tg[t], 1)
  <2>3. Call(t, broken, AddFault(tg[t]), s, c) /\ live' = live
    BY <1>9 DEF Add
  <2>4. c \in Contexts
    BY <1>m, <1>c
  <2> HIDE DEF s, c, broken
  <2> QED BY <1>t, <2>1, <2>2, <2>3, <2>4 DEF Call, s
<1>10. ASSUME NEW t \in Taggers, NEW i \in 0 .. MaxTokens - 1,
              NEW j \in 0 .. MaxTags - 1, SetPenalty(t, i, j)
      PROVE  /\ tg' \in [Taggers -> Sentences]
             /\ live' \subseteq Indexes \cup Allocators
             /\ client' \in [Taggers -> Contexts]
             /\ misused' \in BOOLEAN /\ fault' \in BOOLEAN
  <2> DEFINE s == tg[t]
             made == IF s.rows > 0 \/ s.tokens = 0 THEN s
                     ELSE [s EXCEPT !.rows = s.tokens, !.width = s.ysize]
             broken == i >= s.tokens \/ j >= s.ysize
             faulty == i >= made.rows \/ j >= made.width
  <2>1. made \in Sentences
    BY <1>m DEF Sentences
  <2>2. /\ Call(t, broken, faulty, made, client[t])
        /\ live' = live
    BY <1>10 DEF SetPenalty
  <2>3. faulty \in BOOLEAN
    OBVIOUS
  <2> HIDE DEF s, made, broken, faulty
  <2> QED BY <1>t, <1>m, <2>1, <2>2, <2>3 DEF Call
<1>11. ASSUME NEW t \in Taggers, NEW ok \in BOOLEAN, Parse(t, ok)
      PROVE  /\ tg' \in [Taggers -> Sentences]
             /\ live' \subseteq Indexes \cup Allocators
             /\ client' \in [Taggers -> Contexts]
             /\ misused' \in BOOLEAN /\ fault' \in BOOLEAN
  <2> DEFINE faulty == IF ok THEN ParseFault(tg[t]) ELSE BuildFault(tg[t])
             s == IF ok THEN Parsed(tg[t]) ELSE tg[t]
             c == IF ok THEN Answered(client[t], tg[t], tg[t].tokens)
                        ELSE Unread(client[t])
  <2>1. c \in Contexts
    BY <1>m, <1>c
  <2>2. s \in Sentences
    BY <1>m, Results
  <2>3. faulty \in BOOLEAN
    BY DEF ParseFault, BuildFault
  <2>4. Call(t, ~client[t].opened, faulty, s, c) /\ live' = live
    BY <1>11 DEF Parse
  <2> HIDE DEF c, s, faulty
  <2> QED BY <1>t, <2>1, <2>2, <2>3, <2>4 DEF Call
<1>12. ASSUME NEW t \in Taggers, NextBest(t)
      PROVE  /\ tg' \in [Taggers -> Sentences]
             /\ live' \subseteq Indexes \cup Allocators
             /\ client' \in [Taggers -> Contexts]
             /\ misused' \in BOOLEAN /\ fault' \in BOOLEAN
  <2>1. PICK a \in AgendaAfterNext(tg[t]) :
          Call(t, ~client[t].ranked, NextFault(tg[t]), [tg[t] EXCEPT !.agenda = a],
               client[t])
    BY <1>12 DEF NextBest
  <2>2. [tg[t] EXCEPT !.agenda = a] \in Sentences
    BY <1>m DEF Sentences, AgendaAfterNext
  <2> QED BY <1>t, <1>m, <1>12, <2>1, <2>2 DEF NextBest, Call, NextFault
<1>13. ASSUME NEW t \in Taggers, TaggerToString(t)
      PROVE  /\ tg' \in [Taggers -> Sentences]
             /\ live' \subseteq Indexes \cup Allocators
             /\ client' \in [Taggers -> Contexts]
             /\ misused' \in BOOLEAN /\ fault' \in BOOLEAN
  <2>1. PICK s \in AfterToString(tg[t]) :
          Call(t, \/ ~client[t].opened
                  \/ tg[t].nbest > 0 /\ ~client[t].ranked
                  \/ tg[t].vlevel > 0 /\ ~client[t].parsed,
               ToStringFault(tg[t]), s, client[t])
    BY <1>13 DEF TaggerToString
  <2>2. s \in Sentences
    BY <1>m, Results
  <2> QED BY <1>t, <1>m, <1>13, <2>1, <2>2 DEF TaggerToString, Call, ToStringFault
<1>14. ASSUME NEW t \in Taggers, NEW n \in 0 .. MaxTokens,
              NEW outcome \in {"answered", "unparsed", "unread"},
              ParseText(t, n, outcome)
      PROVE  /\ tg' \in [Taggers -> Sentences]
             /\ live' \subseteq Indexes \cup Allocators
             /\ client' \in [Taggers -> Contexts]
             /\ misused' \in BOOLEAN /\ fault' \in BOOLEAN
  <2> DEFINE clean == Cleared(tg[t])
             read == Added(clean, n)
             parsed == Parsed(read)
             reads == \/ ClearFault(tg[t])
                      \/ (n > 0 \/ outcome = "unread") /\ AddFault(clean)
             broken == ~client[t].opened \/ Overrun(clean, n)
  <2>1. clean \in Sentences /\ clean.tokens = 0
    BY <1>m, Results, ZenonT(60) DEF Cleared, Sentences
  <2>2. n \in Nat /\ n <= MaxTokens
    BY TaggerAssumption
  <2>3. ~reads => read \in Sentences
    <3>1. CASE n = 0
      <4>1. read = [clean EXCEPT !.tokens = clean.tokens + 0,
                                 !.homes = clean.homes, !.columns = clean.columns]
        BY <3>1 DEF Added
      <4> HIDE DEF clean, read
      <4>2. clean.tokens + 0 \in 0 .. MaxTokens
        BY <2>1, TaggerAssumption
      <4>3. /\ clean.homes \in SUBSET Allocators
            /\ clean.columns \in SUBSET Indexes
        BY <2>1 DEF Sentences
      <4> QED BY <2>1, <4>1, <4>2, <4>3 DEF Sentences
    <3>2. CASE n > 0 /\ ~reads
      <4>1. clean.alloc # None /\ clean.index # None
        BY <3>2 DEF AddFault, Usable
      <4>2. clean.tokens + n <= MaxTokens
        <5> HIDE DEF clean
        <5> QED BY <2>1, <2>2
      <4> HIDE DEF clean
      <4> QED BY <2>1, <2>2, <4>1, <4>2, Results DEF read
    <3> QED BY <2>2, <3>1, <3>2
  <2>4. live' = live
    BY <1>14 DEF ParseText
  <2>c. /\ Unread(client[t]) \in Contexts
        /\ Answered(client[t], tg[t], n) \in Contexts
    BY <1>m, <1>c
  <2>r. reads \in BOOLEAN
    OBVIOUS
  <2> HIDE DEF clean, read, parsed, reads, broken
  <2>5. ASSUME NEW s \in AfterToString(parsed),
               Call(t, broken \/ (n = 0 /\ tg[t].nbest > 0),
                    reads \/ ParseFault(read) \/ ToStringFault(parsed), s,
                    Answered(client[t], tg[t], n))
        PROVE  /\ tg' \in [Taggers -> Sentences]
               /\ client' \in [Taggers -> Contexts]
               /\ misused' \in BOOLEAN /\ fault' \in BOOLEAN
    <3>2. ~reads => s \in Sentences
      BY <2>3, Results DEF parsed
    <3> DEFINE faulty == reads \/ ParseFault(read) \/ ToStringFault(parsed)
    <3>4. faulty \in BOOLEAN /\ (~faulty => ~reads)
      OBVIOUS
    <3>5. Call(t, broken \/ (n = 0 /\ tg[t].nbest > 0), faulty, s,
               Answered(client[t], tg[t], n))
      BY <2>5
    <3> HIDE DEF faulty
    <3> QED BY <1>t, <2>c, <3>2, <3>4, <3>5 DEF Call
  <2>6. ASSUME NEW faulty \in BOOLEAN, ~faulty => ~reads,
               Call(t, broken, faulty, read, Unread(client[t]))
        PROVE  /\ tg' \in [Taggers -> Sentences]
               /\ client' \in [Taggers -> Contexts]
               /\ misused' \in BOOLEAN /\ fault' \in BOOLEAN
    BY <1>t, <2>c, <2>3, <2>6 DEF Call
  <2>7. CASE outcome = "unread"
    <3>1. Call(t, broken, reads, read, Unread(client[t]))
      BY <1>14, <2>7 DEF ParseText, clean, read, reads, broken
    <3> QED BY <1>t, <2>4, <2>6, <2>r, <3>1
  <2>8. CASE outcome = "unparsed"
    <3>1. Call(t, broken, reads \/ BuildFault(read), read, Unread(client[t]))
      BY <1>14, <2>8 DEF ParseText, clean, read, reads, broken
    <3> QED BY <1>t, <2>4, <2>6, <3>1
  <2>9. CASE outcome = "answered"
    <3>1. \E s \in AfterToString(parsed) :
            Call(t, broken \/ (n = 0 /\ tg[t].nbest > 0),
                 reads \/ ParseFault(read) \/ ToStringFault(parsed), s,
                 Answered(client[t], tg[t], n))
      BY <1>14, <2>9 DEF ParseText, clean, read, parsed, reads, broken
    <3> QED BY <1>t, <2>4, <2>5, <3>1
  <2> QED BY <2>7, <2>8, <2>9
<1>15. ASSUME NEW m \in Models, OpenModel(m, TRUE) \/ OpenModel(m, FALSE) \/ DeleteModel(m)
       PROVE  /\ model' \in [Models -> Records]
              /\ live' \subseteq Indexes \cup Allocators
              /\ misused' \in BOOLEAN
              /\ UNCHANGED <<tg, client, fault>>
  <2>1. Sharing(model[m].index) \in BOOLEAN
    BY DEF Sharing
  <2>2. CASE OpenModel(m, TRUE)
    <3>1. PICK o \in Settings :
            model' = [model EXCEPT ![m] =
                        [index |-> Some(FreshIndexes), nbest |-> o.nbest,
                         vlevel |-> o.vlevel, ysize |-> o.ysize]]
      BY <2>2 DEF OpenModel
    <3>2. o.nbest \in NBests /\ o.vlevel \in Vlevels /\ o.ysize \in 1 .. MaxTags
      BY DEF Settings
    <3>3. o.ysize \in 0 .. MaxTags
      BY <3>2, TaggerAssumption
    <3>4. Some(FreshIndexes) \in Indexes
      BY <1>f, <2>2 DEF OpenModel
    <3>5. model' \in [Models -> Records]
      BY <1>t, <3>1, <3>2, <3>3, <3>4 DEF Records
    <3> QED BY <1>t, <2>1, <2>2, <3>4, <3>5 DEF OpenModel
  <2>3. CASE OpenModel(m, FALSE)
    <3>1. PICK o \in Settings :
            model' = [model EXCEPT ![m] =
                        [index |-> None, nbest |-> o.nbest,
                         vlevel |-> o.vlevel, ysize |-> 0]]
      BY <2>3 DEF OpenModel
    <3>2. o.nbest \in NBests /\ o.vlevel \in Vlevels
      BY DEF Settings
    <3>3. model' \in [Models -> Records]
      BY <1>t, <3>1, <3>2, Zero DEF Records
    <3> QED BY <1>t, <2>1, <2>3, <3>3 DEF OpenModel
  <2>4. CASE DeleteModel(m)
    BY <1>t, <1>n, <2>1, <2>4 DEF DeleteModel
  <2> QED BY <1>15, <2>2, <2>3, <2>4
<1>18. ASSUME NEW t \in Taggers, RefusedOpen(t)
       PROVE  /\ tg' \in [Taggers -> Sentences]
              /\ live' \subseteq Indexes \cup Allocators
              /\ client' \in [Taggers -> Contexts]
              /\ misused' \in BOOLEAN /\ fault' \in BOOLEAN
  BY <1>t, <1>n, <1>m, <1>18 DEF RefusedOpen, Call
<1>19. ASSUME NEW t \in Taggers, NEW v \in Vlevels, SetVlevel(t, v)
       PROVE  /\ tg' \in [Taggers -> Sentences]
              /\ live' \subseteq Indexes \cup Allocators
              /\ client' \in [Taggers -> Contexts]
              /\ misused' \in BOOLEAN /\ fault' \in BOOLEAN
  <2>1. [tg[t] EXCEPT !.vlevel = v] \in Sentences
    BY <1>m DEF Sentences
  <2> QED BY <1>t, <1>m, <1>19, <2>1 DEF SetVlevel, Call
<1>20. ASSUME NEW t \in Taggers, Inspect(t)
       PROVE  /\ tg' \in [Taggers -> Sentences]
              /\ live' \subseteq Indexes \cup Allocators
              /\ client' \in [Taggers -> Contexts]
              /\ misused' \in BOOLEAN /\ fault' \in BOOLEAN
  BY <1>t, <1>m, <1>20 DEF Inspect, Call, NodesFault
<1>16. CASE Next
  <2>1. ASSUME NEW t \in Taggers,
               \/ CreateTagger(t) \/ Close(t) \/ DeleteTagger(t)
               \/ \E ok \in BOOLEAN : Open(t, ok)
               \/ \E m \in Models : CreateFromModel(t, m) \/ SetModel(t, m)
               \/ \E n \in NBests : SetNbest(t, n)
               \/ \E v \in Vlevels : SetVlevel(t, v)
               \/ RefusedOpen(t)
               \/ \E ok \in BOOLEAN : Parse(t, ok)
               \/ Clear(t) \/ Add(t) \/ NextBest(t) \/ TaggerToString(t) \/ Inspect(t)
               \/ \E i \in 0 .. MaxTokens - 1, j \in 0 .. MaxTags - 1 :
                    SetPenalty(t, i, j)
               \/ \E n \in 0 .. MaxTokens, outcome \in {"answered", "unparsed", "unread"} :
                    ParseText(t, n, outcome)
        PROVE  model' = model
    BY <2>1 DEF CreateTagger, Close, DeleteTagger, Open, CreateFromModel, SetModel,
                SetNbest, SetVlevel, RefusedOpen, Clear, Add, Parse, NextBest,
                TaggerToString, Inspect, SetPenalty, ParseText
  <2> QED BY <1>18, <1>19, <1>20, <1>t, <1>1, <1>2, <1>3, <1>4, <1>5, <1>6, <1>7, <1>8, <1>9, <1>10,
             <1>11, <1>12, <1>13, <1>14, <1>15, <1>16, <2>1 DEF Next
<1>17. CASE UNCHANGED vars
  BY <1>t, <1>17 DEF vars
<1> QED BY <1>16, <1>17

(* Every call leaves every tagger and model with members of their types. *)
THEOREM TypeCorrect == Spec => []TypeOK
BY TypeInit, TypeStep, PTL DEF Spec
-----------------------------------------------------------------------------
(* Ownership.  OwnedOnce is inductive once it is known that two models     *)
(* never share an index (open would free it under the other) and that a    *)
(* variable without a tagger holds no allocator (it would be overwritten). *)

ModelsApart ==
  \A m, n \in Models : m # n /\ model[m].index # None => model[m].index # model[n].index

NothingHeld ==
  \A t \in Taggers : tg[t].mode = "none" => ~client[t].opened /\ tg[t].alloc = None

IInv == /\ TypeOK
        /\ ModelsApart
        /\ NothingHeld
        /\ OwnedOnce

(* At first nobody holds anything. *)
LEMMA OwnedInit == Init => IInv
<1> SUFFICES ASSUME Init PROVE IInv
  OBVIOUS
<1>1. TypeOK
  BY TypeInit
<1>2. \A t \in Taggers : /\ tg[t].mode = "none" /\ tg[t].index = None /\ tg[t].alloc = None
                         /\ client[t].opened = FALSE
  BY DEF Init, NoTagger, Unknown
<1>3. \A m \in Models : model[m].index = None
  BY DEF Init, NoModel
<1> QED BY <1>1, <1>2, <1>3 DEF IInv, ModelsApart, NothingHeld, OwnedOnce

(* A call that moves no pointer of any tagger and frees nothing. *)
Quiet == /\ \A t \in Taggers : /\ tg'[t].mode = tg[t].mode
                               /\ tg'[t].index = tg[t].index
                               /\ tg'[t].alloc = tg[t].alloc
                               /\ client'[t].opened => client[t].opened
         /\ live' = live
         /\ model' = model
         /\ misused => misused'

LEMMA QuietKeeps == ASSUME IInv, Quiet, TypeOK' PROVE IInv'
BY DEF IInv, ModelsApart, NothingHeld, OwnedOnce, Quiet, Usable

(* ... and leaks nothing. *)
LEMMA QuietLeaks == ASSUME TypeOK, NothingLeaks, Quiet PROVE NothingLeaks'
<1>1. /\ {tg[t].index : t \in {u \in Taggers : tg[u].mode = "TEST"}}'
           = {tg[t].index : t \in {u \in Taggers : tg[u].mode = "TEST"}}
      /\ {tg[t].alloc : t \in Taggers}' = {tg[t].alloc : t \in Taggers}
      /\ {model[m].index : m \in Models}' = {model[m].index : m \in Models}
  BY DEF Quiet
<1> QED BY <1>1 DEF NothingLeaks, OwnedIndexes, Quiet

(* Most calls are quiet: they only touch the sentence. *)
SamePointers(r, s) == r.mode = s.mode /\ r.index = s.index /\ r.alloc = s.alloc

(* The sentences, and those with a null pointer noted among their homes.   *)
Noted == [mode : {"none", "TEST", "TEST_SHARED"},
          index : Indexes \cup {None}, alloc : Allocators \cup {None},
          nbest : NBests \cup {0}, vlevel : Vlevels \cup {0},
          ysize : 0 .. MaxTags, tokens : Int,
          homes : SUBSET (Allocators \cup {None}),
          columns : SUBSET (Indexes \cup {None}), built : Int,
          rows : 0 .. MaxTokens, width : 0 .. MaxTags,
          agenda : {"null", "current", "old", "empty"}, scored : BOOLEAN]

LEMMA SentenceNoted == ASSUME NEW s \in Sentences PROVE s \in Noted
<1>1. s.tokens \in Int /\ s.built \in Int
  <2>1. s.tokens \in 0 .. MaxTokens /\ s.built \in 0 .. MaxTokens
    BY DEF Sentences
  <2> QED BY <2>1, TaggerAssumption
<1> QED BY <1>1 DEF Sentences, Noted

(* add() and parse() make such sentences of such sentences. *)
LEMMA AddedNoted ==
  ASSUME NEW s \in Noted, NEW n \in Nat PROVE Added(s, n) \in Noted
<1> DEFINE homes == IF n = 0 THEN s.homes ELSE s.homes \cup {s.alloc}
           columns == IF n = 0 THEN s.columns ELSE s.columns \cup {s.index}
           tokens == s.tokens + n
<1>1. /\ tokens \in Int
      /\ homes \in SUBSET (Allocators \cup {None})
      /\ columns \in SUBSET (Indexes \cup {None})
  BY DEF Noted
<1>2. Added(s, n) = [s EXCEPT !.tokens = tokens, !.homes = homes, !.columns = columns]
  BY DEF Added
<1> HIDE DEF homes, columns, tokens
<1> QED BY <1>1, <1>2 DEF Noted

LEMMA ParsedNoted == ASSUME NEW s \in Noted PROVE Parsed(s) \in Noted
<1> DEFINE agenda == IF s.nbest > 0 THEN InitNbest(Outdated(s.agenda))
                                    ELSE Outdated(s.agenda)
           tokens == s.tokens
<1>1. tokens \in Int /\ agenda \in {"null", "current", "old", "empty"}
  BY DEF Noted, InitNbest, Outdated
<1>2. Parsed(s) = IF s.tokens = 0 THEN s
                  ELSE [s EXCEPT !.agenda = agenda, !.built = tokens, !.scored = TRUE]
  BY DEF Parsed
<1> HIDE DEF agenda, tokens
<1>3. [s EXCEPT !.agenda = agenda, !.built = tokens, !.scored = TRUE] \in Noted
  BY <1>1 DEF Noted
<1> QED BY <1>2, <1>3

(* The parts of the calls move no pointer of the tagger. *)
LEMMA SentenceOnly ==
  ASSUME NEW s \in Noted
  PROVE  /\ SamePointers(Cleared(s), s)
         /\ \A n \in Nat : SamePointers(Added(s, n), s)
         /\ SamePointers(Parsed(s), s)
         /\ \A u \in AfterToString(s) : SamePointers(u, s)
         /\ \A a : SamePointers([s EXCEPT !.agenda = a], s)
         /\ \A a : SamePointers([s EXCEPT !.nbest = a], s)
         /\ \A a : SamePointers([s EXCEPT !.vlevel = a], s)
         /\ \A a, b : SamePointers([s EXCEPT !.rows = a, !.width = b], s)
BY DEF Noted, SamePointers, Cleared, Added, Parsed, AfterToString

(* So neither do the calls. *)
LEMMA QuietCalls ==
  ASSUME TypeOK, NEW t \in Taggers,
         \/ \E n \in NBests : SetNbest(t, n)
         \/ \E v \in Vlevels : SetVlevel(t, v)
         \/ RefusedOpen(t)
         \/ \E ok \in BOOLEAN : Parse(t, ok)
         \/ Clear(t) \/ Add(t) \/ NextBest(t) \/ TaggerToString(t) \/ Inspect(t)
         \/ \E i \in 0 .. MaxTokens - 1, j \in 0 .. MaxTags - 1 :
              SetPenalty(t, i, j)
         \/ \E n \in 0 .. MaxTokens, outcome \in {"answered", "unparsed", "unread"} :
              ParseText(t, n, outcome)
  PROVE  Quiet
<1>t. /\ tg \in [Taggers -> Sentences]
      /\ client \in [Taggers -> Contexts]
  BY Typed
<1>s. /\ tg[t] \in Sentences /\ client[t] \in Contexts
      /\ tg[t] \in Noted
  BY <1>t, SentenceNoted
<1>c. /\ Unread(client[t]).opened = client[t].opened
      /\ \A n : Answered(client[t], tg[t], n).opened = client[t].opened
      /\ [client[t] EXCEPT !.parsed = FALSE].opened = client[t].opened
  BY <1>s DEF Contexts, Unread, Answered
<1> SUFFICES /\ live' = live /\ model' = model
             /\ misused => misused'
             /\ \E s, c : /\ SamePointers(s, tg[t])
                          /\ c.opened => client[t].opened
                          /\ tg' = [tg EXCEPT ![t] = s] \/ tg' = tg
                          /\ client' = [client EXCEPT ![t] = c]
  <2>1. PICK s, c : /\ SamePointers(s, tg[t])
                    /\ c.opened => client[t].opened
                    /\ tg' = [tg EXCEPT ![t] = s] \/ tg' = tg
                    /\ client' = [client EXCEPT ![t] = c]
    OBVIOUS
  <2> QED BY <1>t, <2>1 DEF Quiet, SamePointers
<1>1. CASE \E n \in NBests : SetNbest(t, n)
  <2>1. PICK n \in NBests : SetNbest(t, n)
    BY <1>1
  <2>2. SamePointers([tg[t] EXCEPT !.nbest = n], tg[t])
    BY <1>s, SentenceOnly
  <2> QED BY <2>1, <2>2 DEF SetNbest, Call
<1>2. CASE Clear(t)
  BY <1>2, <1>s, <1>c, SentenceOnly DEF Clear, Call
<1>3. CASE Add(t)
  BY <1>3, <1>s, <1>c, SentenceOnly DEF Add, Call
<1>4. CASE \E ok \in BOOLEAN : Parse(t, ok)
  <2>1. PICK ok \in BOOLEAN : Parse(t, ok)
    BY <1>4
  <2>2. SamePointers(Parsed(tg[t]), tg[t]) /\ SamePointers(tg[t], tg[t])
    BY <1>s, SentenceOnly DEF SamePointers
  <2>3. CASE ok
    BY <1>c, <2>1, <2>2, <2>3 DEF Parse, Call
  <2>4. CASE ~ok
    BY <1>c, <2>1, <2>2, <2>4 DEF Parse, Call
  <2> QED BY <2>3, <2>4
<1>5. CASE NextBest(t)
  <2>1. PICK a \in AgendaAfterNext(tg[t]) :
          /\ Call(t, ~client[t].ranked, NextFault(tg[t]),
                  [tg[t] EXCEPT !.agenda = a], client[t])
          /\ UNCHANGED <<live, model>>
    BY <1>5 DEF NextBest
  <2>2. SamePointers([tg[t] EXCEPT !.agenda = a], tg[t])
    BY <1>s, SentenceOnly
  <2> QED BY <2>1, <2>2 DEF Call
<1>6. CASE TaggerToString(t)
  <2>1. PICK s \in AfterToString(tg[t]) :
          /\ Call(t, \/ ~client[t].opened
                     \/ tg[t].nbest > 0 /\ ~client[t].ranked
                     \/ tg[t].vlevel > 0 /\ ~client[t].parsed,
                  ToStringFault(tg[t]), s, client[t])
          /\ UNCHANGED <<live, model>>
    BY <1>6 DEF TaggerToString
  <2>2. SamePointers(s, tg[t])
    BY <1>s, <2>1, SentenceOnly
  <2> QED BY <2>1, <2>2 DEF Call
<1>7. CASE \E i \in 0 .. MaxTokens - 1, j \in 0 .. MaxTags - 1 : SetPenalty(t, i, j)
  <2> DEFINE made == IF tg[t].rows > 0 \/ tg[t].tokens = 0 THEN tg[t]
                     ELSE [tg[t] EXCEPT !.rows = tg[t].tokens, !.width = tg[t].ysize]
  <2>1. SamePointers(made, tg[t])
    BY <1>s, SentenceOnly DEF SamePointers
  <2>2. PICK i \in 0 .. MaxTokens - 1, j \in 0 .. MaxTags - 1 :
          /\ Call(t, i >= tg[t].tokens \/ j >= tg[t].ysize,
                  i >= made.rows \/ j >= made.width, made, client[t])
          /\ UNCHANGED <<live, model>>
    BY <1>7 DEF SetPenalty
  <2> HIDE DEF made
  <2> QED BY <2>1, <2>2 DEF Call
<1>8. CASE \E n \in 0 .. MaxTokens, outcome \in {"answered", "unparsed", "unread"} :
             ParseText(t, n, outcome)
  <2>1. PICK n \in 0 .. MaxTokens, outcome \in {"answered", "unparsed", "unread"} :
          ParseText(t, n, outcome)
    BY <1>8
  <2> DEFINE clean == Cleared(tg[t])
             read == Added(clean, n)
             parsed == Parsed(read)
             reads == \/ ClearFault(tg[t])
                      \/ (n > 0 \/ outcome = "unread") /\ AddFault(clean)
             broken == ~client[t].opened \/ Overrun(clean, n)
  <2>2. live' = live /\ model' = model
    BY <2>1 DEF ParseText
  <2>n. n \in Nat
    BY TaggerAssumption
  <2>3. clean \in Noted /\ SamePointers(clean, tg[t])
    BY <1>s, Results, SentenceNoted, SentenceOnly
  <2>4. read \in Noted /\ SamePointers(read, tg[t])
    <3> HIDE DEF clean
    <3> QED BY <2>n, <2>3, AddedNoted, SentenceOnly DEF SamePointers
  <2>7. parsed \in Noted /\ SamePointers(parsed, tg[t])
    <3> HIDE DEF read
    <3> QED BY <2>4, ParsedNoted, SentenceOnly DEF SamePointers
  <2>8. \A u \in AfterToString(parsed) : SamePointers(u, tg[t])
    <3> HIDE DEF parsed
    <3> QED BY <2>7, SentenceOnly DEF SamePointers
  <2> HIDE DEF clean, read, parsed, reads, broken
  <2>5. CASE outcome = "answered"
    <3>1. PICK s \in AfterToString(parsed) :
            Call(t, broken \/ (n = 0 /\ tg[t].nbest > 0),
                 reads \/ ParseFault(read) \/ ToStringFault(parsed), s,
                 Answered(client[t], tg[t], n))
      BY <2>1, <2>5 DEF ParseText, clean, read, parsed, reads, broken
    <3> QED BY <1>c, <2>2, <2>8, <3>1 DEF Call
  <2>6. CASE outcome = "unread"
    <3>1. Call(t, broken, reads, read, Unread(client[t]))
      BY <2>1, <2>6 DEF ParseText, clean, read, reads, broken
    <3> QED BY <1>c, <2>2, <2>4, <3>1 DEF Call
  <2>9. CASE outcome = "unparsed"
    <3>1. Call(t, broken, reads \/ BuildFault(read), read, Unread(client[t]))
      BY <2>1, <2>9 DEF ParseText, clean, read, reads, broken
    <3> QED BY <1>c, <2>2, <2>4, <3>1 DEF Call
  <2> QED BY <2>5, <2>6, <2>9
<1>9. CASE \E v \in Vlevels : SetVlevel(t, v)
  BY <1>9, <1>s, SentenceOnly DEF SetVlevel, Call
<1>10. CASE RefusedOpen(t)
  BY <1>10 DEF RefusedOpen, Call, SamePointers, Unknown
<1>11. CASE Inspect(t)
  BY <1>11 DEF Inspect, Call, SamePointers
<1> QED BY <1>1, <1>2, <1>3, <1>4, <1>5, <1>6, <1>7, <1>8, <1>9, <1>10, <1>11

(* What is allocated, object by object. *)
Owned(x) == /\ x # None
            /\ \/ \E t \in Taggers : tg[t].mode = "TEST" /\ tg[t].index = x
               \/ \E m \in Models : model[m].index = x
               \/ \E t \in Taggers : tg[t].alloc = x

(* NothingLeaks in these words, before and after a step. *)
LEMMA LeakFree == NothingLeaks <=> (~misused => \A x : x \in live <=> Owned(x))
BY DEF NothingLeaks, OwnedIndexes, Owned

LEMMA LeakFreeNext ==
  NothingLeaks' <=> (~misused' => \A x : x \in live' <=> Owned(x)')
BY DEF NothingLeaks, OwnedIndexes, Owned

(* A new object is nobody's. *)
LEMMA Fresh ==
  /\ \A i \in FreshIndexes :
       /\ i \in Indexes /\ i \notin live
       /\ \A u \in Taggers : tg[u].index # i
       /\ \A m \in Models : model[m].index # i
  /\ \A a \in FreshAllocators :
       /\ a \in Allocators /\ a \notin live
       /\ \A u \in Taggers : tg[u].alloc # a
<1>1. ASSUME NEW u \in Taggers
      PROVE  tg[u].index \in Referenced /\ tg[u].alloc \in Referenced
  BY DEF Referenced
<1>2. ASSUME NEW m \in Models PROVE model[m].index \in Referenced
  BY DEF Referenced
<1> QED BY <1>1, <1>2 DEF FreshIndexes, FreshAllocators

(* The calls that create and delete, one by one. *)
LEMMA OwnedCreate ==
  ASSUME IInv, NEW t \in Taggers, CreateTagger(t)
  PROVE  /\ ModelsApart' /\ NothingHeld' /\ OwnedOnce'
         /\ NothingLeaks => NothingLeaks'
<1>t. /\ tg \in [Taggers -> Sentences]
      /\ model \in [Models -> Records]
      /\ live \subseteq Indexes \cup Allocators
      /\ client \in [Taggers -> Contexts]
      /\ misused \in BOOLEAN
  BY Typed DEF IInv
<1>s. \A u \in Taggers : tg[u] \in Sentences
  BY <1>t
<1>p. \A u \in Taggers : /\ tg[u].index \in Indexes \cup {None}
                         /\ tg[u].alloc \in Allocators \cup {None}
                         /\ tg[u].mode \in {"none", "TEST", "TEST_SHARED"}
  BY <1>s DEF Sentences
<1>q. \A o \in Models : model[o].index \in Indexes \cup {None}
  BY <1>t DEF Records
<1> DEFINE i == Some(FreshIndexes)
           a == Some(FreshAllocators)
<1>f. /\ i \in Indexes /\ i \notin live
      /\ \A u \in Taggers : tg[u].index # i
      /\ \A m \in Models : model[m].index # i
      /\ a \in Allocators /\ a \notin live
      /\ \A u \in Taggers : tg[u].alloc # a
  <2>1. i \in FreshIndexes /\ a \in FreshAllocators
    BY NewIndex, NewAllocator DEF CreateTagger
  <2> HIDE DEF i, a
  <2> QED BY <2>1, Fresh
<1>e. /\ tg'[t].mode = "TEST" /\ tg'[t].index = i /\ tg'[t].alloc = a
      /\ client'[t].opened
      /\ \A u \in Taggers \ {t} : tg'[u] = tg[u] /\ client'[u] = client[u]
      /\ live' = live \cup {i, a} /\ model' = model /\ misused' = misused
      /\ tg[t].mode = "none"
  <2>1. PICK o \in Settings :
          Call(t, FALSE, FALSE, Configured([Constructed EXCEPT !.alloc = a], i, o),
               Opened)
    BY DEF CreateTagger
  <2>2. live' = live \cup {i, a} /\ model' = model /\ tg[t].mode = "none"
    BY DEF CreateTagger
  <2> DEFINE s == Configured([Constructed EXCEPT !.alloc = a], i, o)
  <2>3. s.mode = "TEST" /\ s.index = i /\ s.alloc = a
    BY DEF Configured, Constructed, NoTagger
  <2> HIDE DEF i, a, s
  <2> QED BY <1>t, <2>1, <2>2, <2>3 DEF Call, Opened, s
<1> HIDE DEF i, a
<1>h. ModelsApart /\ NothingHeld /\ OwnedOnce
  BY DEF IInv
<1>1. ModelsApart'
  BY <1>h, <1>q, <1>f, <1>e DEF ModelsApart, OwnedOnce
<1>2. NothingHeld'
  BY <1>h, <1>p, <1>f, <1>e DEF NothingHeld
<1>3. OwnedOnce'
  BY <1>h, <1>p, <1>q, <1>f, <1>e, TaggerAssumption
     DEF OwnedOnce, ModelsApart, NothingHeld, Usable
<1>4. NothingLeaks => NothingLeaks'
  <2> SUFFICES ASSUME NothingLeaks, ~misused'
               PROVE  \A x : x \in live' <=> Owned(x)'
    BY LeakFree, LeakFreeNext
  <2>1. \A x : x \in live <=> Owned(x)
    BY <1>f, <1>e, LeakFree
  <2> QED BY <1>h, <1>p, <1>q, <2>1, <1>f, <1>e, TaggerAssumption
        DEF Owned, OwnedOnce, ModelsApart, NothingHeld
<1> QED BY <1>1, <1>2, <1>3, <1>4

(* A tagger on the index of a model brings its own allocator. *)
LEMMA OwnedCreateFromModel ==
  ASSUME IInv, NEW t \in Taggers, NEW m \in Models, CreateFromModel(t, m)
  PROVE  /\ ModelsApart' /\ NothingHeld' /\ OwnedOnce'
         /\ NothingLeaks => NothingLeaks'
<1>t. /\ tg \in [Taggers -> Sentences]
      /\ model \in [Models -> Records]
      /\ live \subseteq Indexes \cup Allocators
      /\ client \in [Taggers -> Contexts]
      /\ misused \in BOOLEAN
  BY Typed DEF IInv
<1>s. \A u \in Taggers : tg[u] \in Sentences
  BY <1>t
<1>p. \A u \in Taggers : /\ tg[u].index \in Indexes \cup {None}
                         /\ tg[u].alloc \in Allocators \cup {None}
                         /\ tg[u].mode \in {"none", "TEST", "TEST_SHARED"}
  BY <1>s DEF Sentences
<1>q. \A o \in Models : model[o].index \in Indexes \cup {None}
  BY <1>t DEF Records
<1> DEFINE a == Some(FreshAllocators)
<1>f. /\ a \in Allocators /\ a \notin live
      /\ \A u \in Taggers : tg[u].alloc # a
  <2>1. a \in FreshAllocators
    BY NewAllocator DEF CreateFromModel
  <2> HIDE DEF a
  <2> QED BY <2>1, Fresh
<1>e. /\ tg'[t].mode = "TEST_SHARED" /\ tg'[t].index = model[m].index /\ tg'[t].alloc = a
      /\ client'[t].opened /\ model[m].index # None
      /\ \A u \in Taggers \ {t} : tg'[u] = tg[u] /\ client'[u] = client[u]
      /\ live' = live \cup {a} /\ model' = model /\ misused' = misused
      /\ tg[t].mode = "none"
  <2> DEFINE s == Configured([Constructed EXCEPT !.mode = "TEST_SHARED", !.alloc = a],
                             model[m].index, model[m])
  <2>1. s.mode = "TEST_SHARED" /\ s.index = model[m].index /\ s.alloc = a
    BY DEF Configured, Constructed, NoTagger
  <2>2. /\ Call(t, FALSE, FALSE, s, Opened)
        /\ live' = live \cup {a} /\ model' = model /\ tg[t].mode = "none"
        /\ model[m].index # None
    BY DEF CreateFromModel
  <2> HIDE DEF a, s
  <2> QED BY <1>t, <2>1, <2>2 DEF Call, Opened
<1> HIDE DEF a
<1>h. ModelsApart /\ NothingHeld /\ OwnedOnce
  BY DEF IInv
<1>1. ModelsApart'
  BY <1>h, <1>q, <1>f, <1>e DEF ModelsApart, OwnedOnce
<1>2. NothingHeld'
  BY <1>h, <1>p, <1>f, <1>e DEF NothingHeld
<1>3. OwnedOnce'
  BY <1>h, <1>p, <1>q, <1>f, <1>e, TaggerAssumption
     DEF OwnedOnce, ModelsApart, NothingHeld, Usable
<1>4. NothingLeaks => NothingLeaks'
  <2> SUFFICES ASSUME NothingLeaks, ~misused'
               PROVE  \A x : x \in live' <=> Owned(x)'
    BY LeakFree, LeakFreeNext
  <2>1. \A x : x \in live <=> Owned(x)
    BY <1>f, <1>e, LeakFree
  <2> QED BY <1>h, <1>p, <1>q, <2>1, <1>f, <1>e, TaggerAssumption
        DEF Owned, OwnedOnce, ModelsApart, NothingHeld
<1> QED BY <1>1, <1>2, <1>3, <1>4

(* What close() leaves of the pointers, and what it deletes. *)
LEMMA ClosedPointers ==
  ASSUME NEW s \in Sentences
  PROVE  /\ Closed(s).mode = s.mode /\ Closed(s).alloc = None
         /\ Closed(s).index = IF s.mode = "TEST" THEN None ELSE s.index
         /\ \A x : x \in ClosedFrees(s) <=>
              /\ x # None
              /\ \/ s.mode = "TEST" /\ x = s.index
                 \/ s.mode # "none" /\ x = s.alloc
BY DEF Sentences, Closed, ClosedFrees

(* close() and the destructor delete what only this tagger has. *)
LEMMA OwnedClose ==
  ASSUME IInv, NEW t \in Taggers, Close(t) \/ DeleteTagger(t)
  PROVE  /\ ModelsApart' /\ NothingHeld' /\ OwnedOnce'
         /\ NothingLeaks => NothingLeaks'
<1>t. /\ tg \in [Taggers -> Sentences]
      /\ model \in [Models -> Records]
      /\ live \subseteq Indexes \cup Allocators
      /\ client \in [Taggers -> Contexts]
      /\ misused \in BOOLEAN
  BY Typed DEF IInv
<1>s. \A u \in Taggers : tg[u] \in Sentences
  BY <1>t
<1>p. \A u \in Taggers : /\ tg[u].index \in Indexes \cup {None}
                         /\ tg[u].alloc \in Allocators \cup {None}
                         /\ tg[u].mode \in {"none", "TEST", "TEST_SHARED"}
  BY <1>s DEF Sentences
<1>q. \A o \in Models : model[o].index \in Indexes \cup {None}
  BY <1>t DEF Records
<1>f. \A x : x \in ClosedFrees(tg[t]) <=>
        /\ x # None
        /\ \/ tg[t].mode = "TEST" /\ x = tg[t].index
           \/ tg[t].mode # "none" /\ x = tg[t].alloc
  BY <1>s, ClosedPointers
<1>e. /\ tg[t].mode # "none"
      /\ \/ tg'[t].mode = "none" /\ tg'[t].index = None
         \/ /\ tg'[t].mode = tg[t].mode
            /\ tg'[t].index = IF tg[t].mode = "TEST" THEN None ELSE tg[t].index
      /\ tg'[t].alloc = None /\ ~client'[t].opened
      /\ \A u \in Taggers \ {t} : tg'[u] = tg[u] /\ client'[u] = client[u]
      /\ live' = live \ ClosedFrees(tg[t]) /\ model' = model /\ misused' = misused
  <2>1. CASE Close(t)
    BY <1>t, <1>s, <2>1, ClosedPointers DEF Close, Call, Unknown
  <2>2. CASE DeleteTagger(t)
    BY <1>t, <2>2 DEF DeleteTagger, Call, Unknown, NoTagger
  <2> QED BY <2>1, <2>2
<1>h. ModelsApart /\ NothingHeld /\ OwnedOnce
  BY DEF IInv
<1>1. ModelsApart'
  BY <1>h, <1>q, <1>f, <1>e DEF ModelsApart, OwnedOnce
<1>2. NothingHeld'
  BY <1>h, <1>p, <1>f, <1>e DEF NothingHeld
<1>3. OwnedOnce'
  <2>1. ASSUME NEW x \in Taggers, NEW y \in Taggers, x # y, tg'[x].alloc # None
        PROVE  tg'[x].alloc # tg'[y].alloc
    BY <1>h, <1>p, <1>q, <1>f, <1>e, TaggerAssumption, <2>1
       DEF OwnedOnce
  <2>2. ASSUME NEW x \in Taggers, tg'[x].mode = "TEST", tg'[x].index # None
        PROVE  /\ \A y \in Taggers \ {x} : tg'[y].index # tg'[x].index
               /\ \A n \in Models : model'[n].index # tg'[x].index
    BY <1>h, <1>p, <1>q, <1>f, <1>e, TaggerAssumption, <2>2
       DEF OwnedOnce, ModelsApart
  <2>3. ASSUME ~misused', NEW x \in Taggers, client'[x].opened
        PROVE  tg'[x].index # None /\ tg'[x].index \in live'
    BY <1>h, <1>p, <1>q, <1>f, <1>e, TaggerAssumption, <2>3
       DEF OwnedOnce, ModelsApart, NothingHeld, Usable
  <2>4. ASSUME ~misused', NEW x \in Taggers, client'[x].opened
        PROVE  tg'[x].alloc # None /\ tg'[x].alloc \in live'
    BY <1>h, <1>p, <1>q, <1>f, <1>e, TaggerAssumption, <2>4
       DEF OwnedOnce, ModelsApart, NothingHeld, Usable
  <2>5. ASSUME ~misused', NEW n \in Models, model'[n].index # None
        PROVE  model'[n].index \in live'
    BY <1>h, <1>p, <1>q, <1>f, <1>e, TaggerAssumption, <2>5
       DEF OwnedOnce, ModelsApart, NothingHeld, Usable
  <2> QED BY <2>1, <2>2, <2>3, <2>4, <2>5 DEF OwnedOnce, Usable
<1>4. NothingLeaks => NothingLeaks'
  <2> SUFFICES ASSUME NothingLeaks, ~misused'
               PROVE  \A x : x \in live' <=> Owned(x)'
    BY LeakFree, LeakFreeNext
  <2>1. \A x : x \in live <=> Owned(x)
    BY <1>f, <1>e, LeakFree
  <2> QED BY <1>h, <1>p, <1>q, <2>1, <1>f, <1>e, TaggerAssumption
        DEF Owned, OwnedOnce, ModelsApart, NothingHeld
<1> QED BY <1>1, <1>2, <1>3, <1>4

(* open() closes first, and undoes what it has set if it fails. *)
LEMMA OwnedOpen ==
  ASSUME IInv, NEW t \in Taggers, NEW ok \in BOOLEAN, Open(t, ok)
  PROVE  /\ ModelsApart' /\ NothingHeld' /\ OwnedOnce'
         /\ NothingLeaks => NothingLeaks'
<1>t. /\ tg \in [Taggers -> Sentences]
      /\ model \in [Models -> Records]
      /\ live \subseteq Indexes \cup Allocators
      /\ client \in [Taggers -> Contexts]
      /\ misused \in BOOLEAN
  BY Typed DEF IInv
<1>s. \A u \in Taggers : tg[u] \in Sentences
  BY <1>t
<1>p. \A u \in Taggers : /\ tg[u].index \in Indexes \cup {None}
                         /\ tg[u].alloc \in Allocators \cup {None}
                         /\ tg[u].mode \in {"none", "TEST", "TEST_SHARED"}
  BY <1>s DEF Sentences
<1>q. \A o \in Models : model[o].index \in Indexes \cup {None}
  BY <1>t DEF Records
<1> DEFINE i == Some(FreshIndexes)
           a == Some(FreshAllocators)
           before == [Closed(tg[t]) EXCEPT !.alloc = a]
           broken == tg[t].mode = "TEST_SHARED" \/ tg[t].tokens > 0
<1>f. /\ i \in Indexes /\ i \notin live
      /\ \A u \in Taggers : tg[u].index # i
      /\ \A m \in Models : model[m].index # i
      /\ a \in Allocators /\ a \notin live
      /\ \A u \in Taggers : tg[u].alloc # a
  <2>1. i \in FreshIndexes /\ a \in FreshAllocators
    BY NewIndex, NewAllocator DEF Open
  <2> HIDE DEF i, a
  <2> QED BY <2>1, Fresh
<1>b. PICK o \in Settings :
        LET set == Configured(before, i, o)
            closed == live \ ClosedFrees(tg[t])
        IN IF ok
           THEN /\ live' = closed \cup {i, a}
                /\ Call(t, broken \/ Narrow(tg[t], o.ysize), FALSE, set, Opened)
           ELSE /\ live' = (closed \cup {i, a}) \ ClosedFrees(set)
                /\ Call(t, broken, FALSE,
                        [Closed(set) EXCEPT !.ysize = tg[t].ysize], Unknown)
  BY DEF Open
<1> DEFINE set == Configured(before, i, o)
           left == [Closed(set) EXCEPT !.ysize = tg[t].ysize]
           narrow == Narrow(tg[t], o.ysize)
<1>r. model' = model /\ tg[t].mode # "none"
  BY DEF Open
<1>g. \A x : x \in ClosedFrees(tg[t]) <=>
        /\ x # None
        /\ \/ tg[t].mode = "TEST" /\ x = tg[t].index
           \/ tg[t].mode # "none" /\ x = tg[t].alloc
  BY <1>s, ClosedPointers
<1>d. /\ set \in Sentences
      /\ set.mode = tg[t].mode /\ set.index = i /\ set.alloc = a
  <2>1. Closed(tg[t]) \in Sentences /\ Closed(tg[t]).mode = tg[t].mode
    BY <1>s, Results, ClosedPointers
  <2>2. /\ before \in Sentences
        /\ before.mode = tg[t].mode /\ before.alloc = a
    <3> HIDE DEF i, a
    <3> QED BY <1>f, <2>1 DEF Sentences
  <2> HIDE DEF before, i, a
  <2>3. set \in Sentences
    BY <1>f, <2>2, Configurable
  <2>4. set.mode = before.mode /\ set.index = i /\ set.alloc = before.alloc
    BY <2>2 DEF Configured, Sentences
  <2> QED BY <2>2, <2>3, <2>4
<1>k. /\ left.mode = tg[t].mode /\ left.alloc = None
      /\ left.index = IF tg[t].mode = "TEST" THEN None ELSE i
      /\ \A x : x \in ClosedFrees(set) <=>
           /\ x # None
           /\ \/ tg[t].mode = "TEST" /\ x = i
              \/ tg[t].mode # "none" /\ x = a
  <2> HIDE DEF set, i, a
  <2>1. Closed(set) \in Sentences
    BY <1>d, Results
  <2>2. /\ left.mode = Closed(set).mode /\ left.alloc = Closed(set).alloc
        /\ left.index = Closed(set).index
    BY <2>1 DEF Sentences
  <2>3. /\ Closed(set).mode = set.mode /\ Closed(set).alloc = None
        /\ Closed(set).index = IF set.mode = "TEST" THEN None ELSE set.index
        /\ \A x : x \in ClosedFrees(set) <=>
             /\ x # None
             /\ \/ set.mode = "TEST" /\ x = set.index
                \/ set.mode # "none" /\ x = set.alloc
    BY <1>d, ClosedPointers
  <2> HIDE DEF left
  <2> QED BY <1>d, <2>2, <2>3
<1>e. /\ tg[t].mode # "none" /\ tg'[t].mode = tg[t].mode
      /\ IF ok THEN /\ tg'[t].index = i /\ tg'[t].alloc = a
                    /\ live' = (live \ ClosedFrees(tg[t])) \cup {i, a}
               ELSE /\ tg'[t].index = (IF tg[t].mode = "TEST" THEN None ELSE i)
                    /\ tg'[t].alloc = None /\ ~client'[t].opened
                    /\ live' = ((live \ ClosedFrees(tg[t])) \cup {i, a})
                               \ ClosedFrees(set)
      /\ \A u \in Taggers \ {t} : tg'[u] = tg[u] /\ client'[u] = client[u]
      /\ model' = model
      /\ misused => misused'
      /\ ~misused' => tg[t].mode = "TEST"
  <2>b. ~broken => tg[t].mode = "TEST"
    BY <1>p, <1>r
  <2>1. CASE ok
    <3> HIDE DEF i, a, before, broken
    <3>1. /\ live' = (live \ ClosedFrees(tg[t])) \cup {i, a}
          /\ Call(t, broken \/ narrow, FALSE, set, Opened)
      BY <1>b, <2>1
    <3> HIDE DEF set, narrow
    <3> QED BY <1>t, <1>d, <1>r, <2>b, <2>1, <3>1 DEF Call
  <2>2. CASE ~ok
    <3> HIDE DEF i, a, before, broken
    <3>1. /\ live' = ((live \ ClosedFrees(tg[t])) \cup {i, a}) \ ClosedFrees(set)
          /\ Call(t, broken, FALSE, left, Unknown)
      BY <1>b, <2>2
    <3> HIDE DEF set, left
    <3> QED BY <1>t, <1>k, <1>r, <2>b, <2>2, <3>1 DEF Call, Unknown
  <2> QED BY <2>1, <2>2
<1> HIDE DEF i, a, before, set, left, broken, narrow
<1>h. ModelsApart /\ NothingHeld /\ OwnedOnce
  BY DEF IInv
<1>1. ModelsApart'
  BY <1>h, <1>q, <1>f, <1>g, <1>k, <1>e DEF ModelsApart, OwnedOnce
<1>2. NothingHeld'
  BY <1>h, <1>p, <1>f, <1>g, <1>k, <1>e DEF NothingHeld
<1>3. OwnedOnce'
  <2>1. ASSUME NEW x \in Taggers, NEW y \in Taggers, x # y, tg'[x].alloc # None
        PROVE  tg'[x].alloc # tg'[y].alloc
    BY <1>h, <1>p, <1>q, <1>f, <1>g, <1>k, <1>e, TaggerAssumption, <2>1
       DEF OwnedOnce
  <2>2. ASSUME NEW x \in Taggers, tg'[x].mode = "TEST", tg'[x].index # None
        PROVE  /\ \A y \in Taggers \ {x} : tg'[y].index # tg'[x].index
               /\ \A n \in Models : model'[n].index # tg'[x].index
    BY <1>h, <1>p, <1>q, <1>f, <1>g, <1>k, <1>e, TaggerAssumption, <2>2
       DEF OwnedOnce, ModelsApart
  <2>3. ASSUME ~misused', NEW x \in Taggers, client'[x].opened
        PROVE  tg'[x].index # None /\ tg'[x].index \in live'
    BY <1>h, <1>p, <1>q, <1>f, <1>g, <1>k, <1>e, TaggerAssumption, <2>3
       DEF OwnedOnce, ModelsApart, NothingHeld, Usable
  <2>4. ASSUME ~misused', NEW x \in Taggers, client'[x].opened
        PROVE  tg'[x].alloc # None /\ tg'[x].alloc \in live'
    BY <1>h, <1>p, <1>q, <1>f, <1>g, <1>k, <1>e, TaggerAssumption, <2>4
       DEF OwnedOnce, ModelsApart, NothingHeld, Usable
  <2>5. ASSUME ~misused', NEW k \in Models, model'[k].index # None
        PROVE  model'[k].index \in live'
    <3>1. model'[k].index = model[k].index /\ ~misused /\ tg[t].mode = "TEST"
      BY <1>e, <2>5
    <3>2. model[k].index \in live /\ model[k].index \in Indexes
      BY <1>h, <1>q, <2>5, <3>1 DEF OwnedOnce, Usable
    <3>3. model[k].index \notin ClosedFrees(tg[t])
      BY <1>g, <1>h, <1>p, <2>5, <3>1, <3>2, TaggerAssumption DEF OwnedOnce
    <3>4. ~ok => model[k].index \notin ClosedFrees(set)
      BY <1>f, <1>k, <3>2, TaggerAssumption
    <3> QED BY <1>e, <3>1, <3>2, <3>3, <3>4
  <2> QED BY <2>1, <2>2, <2>3, <2>4, <2>5 DEF OwnedOnce, Usable
<1>4. NothingLeaks => NothingLeaks'
  <2> SUFFICES ASSUME NothingLeaks, ~misused'
               PROVE  \A x : x \in live' <=> Owned(x)'
    BY LeakFree, LeakFreeNext
  <2>1. \A x : x \in live <=> Owned(x)
    BY <1>f, <1>g, <1>k, <1>e, LeakFree
  <2> QED BY <1>h, <1>p, <1>q, <2>1, <1>f, <1>g, <1>k, <1>e, TaggerAssumption
        DEF Owned, OwnedOnce, ModelsApart, NothingHeld
<1> QED BY <1>1, <1>2, <1>3, <1>4

(* set_model() deletes the index of a tagger that had its own. *)
LEMMA OwnedSetModel ==
  ASSUME IInv, NEW t \in Taggers, NEW m \in Models, SetModel(t, m)
  PROVE  /\ ModelsApart' /\ NothingHeld' /\ OwnedOnce'
         /\ NothingLeaks => NothingLeaks'
<1>t. /\ tg \in [Taggers -> Sentences]
      /\ model \in [Models -> Records]
      /\ live \subseteq Indexes \cup Allocators
      /\ client \in [Taggers -> Contexts]
      /\ misused \in BOOLEAN
  BY Typed DEF IInv
<1>s. \A u \in Taggers : tg[u] \in Sentences
  BY <1>t
<1>p. \A u \in Taggers : /\ tg[u].index \in Indexes \cup {None}
                         /\ tg[u].alloc \in Allocators \cup {None}
                         /\ tg[u].mode \in {"none", "TEST", "TEST_SHARED"}
  BY <1>s DEF Sentences
<1>q. \A o \in Models : model[o].index \in Indexes \cup {None}
  BY <1>t DEF Records
<1>e. /\ tg[t].mode # "none"
      /\ IF model[m].index = None
         THEN tg'[t] = tg[t] /\ misused'
         ELSE /\ tg'[t].mode = "TEST_SHARED" /\ tg'[t].index = model[m].index
              /\ tg'[t].alloc = tg[t].alloc
      /\ client'[t].opened = client[t].opened
      /\ \A u \in Taggers \ {t} : tg'[u] = tg[u] /\ client'[u] = client[u]
      /\ live' = (IF tg[t].mode = "TEST" THEN live \ {tg[t].index} ELSE live)
      /\ model' = model
      /\ misused => misused'
  <2> DEFINE s == Configured([tg[t] EXCEPT !.mode = "TEST_SHARED"],
                             model[m].index, model[m])
             c == Unread(client[t])
             other == tg[t].tokens > 0 \/ Narrow(tg[t], model[m].ysize)
  <2>1. s.mode = "TEST_SHARED" /\ s.index = model[m].index /\ s.alloc = tg[t].alloc
    BY <1>s DEF Sentences, Configured
  <2>2. c.opened = client[t].opened
    BY <1>t DEF Contexts, Unread
  <2>3. /\ Call(t, model[m].index = None \/ other, model[m].index = None, s, c)
        /\ live' = (IF tg[t].mode = "TEST" THEN live \ {tg[t].index} ELSE live)
        /\ model' = model /\ tg[t].mode # "none"
    BY DEF SetModel
  <2> HIDE DEF s, c, other
  <2> QED BY <1>t, <2>1, <2>2, <2>3 DEF Call
<1>h. ModelsApart /\ NothingHeld /\ OwnedOnce
  BY DEF IInv
<1>1. ModelsApart'
  BY <1>h, <1>q, <1>e DEF ModelsApart, OwnedOnce
<1>2. NothingHeld'
  BY <1>h, <1>p, <1>e DEF NothingHeld
<1>3. OwnedOnce'
  BY <1>h, <1>p, <1>q, <1>e, TaggerAssumption
     DEF OwnedOnce, ModelsApart, NothingHeld, Usable
<1>4. NothingLeaks => NothingLeaks'
  <2> SUFFICES ASSUME NothingLeaks, ~misused'
               PROVE  \A x : x \in live' <=> Owned(x)'
    BY LeakFree, LeakFreeNext
  <2>1. \A x : x \in live <=> Owned(x)
    BY <1>e, LeakFree
  <2> QED BY <1>h, <1>p, <1>q, <2>1, <1>e, TaggerAssumption
        DEF Owned, OwnedOnce, ModelsApart, NothingHeld
<1> QED BY <1>1, <1>2, <1>3, <1>4

(* A model replaces or deletes its index: no open tagger may share it. *)
LEMMA OwnedModel ==
  ASSUME IInv, NEW m \in Models,
         DeleteModel(m) \/ \E ok \in BOOLEAN : OpenModel(m, ok)
  PROVE  /\ ModelsApart' /\ NothingHeld' /\ OwnedOnce'
         /\ NothingLeaks => NothingLeaks'
<1>t. /\ tg \in [Taggers -> Sentences]
      /\ model \in [Models -> Records]
      /\ live \subseteq Indexes \cup Allocators
      /\ client \in [Taggers -> Contexts]
      /\ misused \in BOOLEAN
  BY Typed DEF IInv
<1>s. \A u \in Taggers : tg[u] \in Sentences
  BY <1>t
<1>p. \A u \in Taggers : /\ tg[u].index \in Indexes \cup {None}
                         /\ tg[u].alloc \in Allocators \cup {None}
                         /\ tg[u].mode \in {"none", "TEST", "TEST_SHARED"}
  BY <1>s DEF Sentences
<1>q. \A o \in Models : model[o].index \in Indexes \cup {None}
  BY <1>t DEF Records
<1>e. \E i : /\ \/ i = None
                \/ /\ i \in Indexes /\ i \notin live
                   /\ \A u \in Taggers : tg[u].index # i
                   /\ \A n \in Models : model[n].index # i
             /\ model'[m].index = i
             /\ live' = (live \ {model[m].index}) \cup ({i} \ {None})
             /\ \A n \in Models \ {m} : model'[n] = model[n]
             /\ tg' = tg /\ client' = client
             /\ misused' = (misused \/ Sharing(model[m].index))
  <2>1. CASE DeleteModel(m)
    BY <1>t, <2>1 DEF DeleteModel, NoModel
  <2>2. ASSUME NEW ok \in BOOLEAN, OpenModel(m, ok)
        PROVE  \E i : /\ \/ i = None
                         \/ /\ i \in Indexes /\ i \notin live
                            /\ \A u \in Taggers : tg[u].index # i
                            /\ \A n \in Models : model[n].index # i
                      /\ model'[m].index = i
                      /\ live' = (live \ {model[m].index}) \cup ({i} \ {None})
                      /\ \A n \in Models \ {m} : model'[n] = model[n]
                      /\ tg' = tg /\ client' = client
                      /\ misused' = (misused \/ Sharing(model[m].index))
    <3> DEFINE i == Some(FreshIndexes)
    <3>1. /\ i \in Indexes /\ i \notin live
          /\ \A u \in Taggers : tg[u].index # i
          /\ \A n \in Models : model[n].index # i
      <4>1. i \in FreshIndexes
        BY <2>2, NewIndex DEF OpenModel
      <4> HIDE DEF i
      <4> QED BY <4>1, Fresh
    <3>2. PICK o \in Settings :
            model' = [model EXCEPT ![m] =
                        [index |-> IF ok THEN i ELSE None,
                         nbest |-> o.nbest, vlevel |-> o.vlevel,
                         ysize |-> IF ok THEN o.ysize ELSE 0]]
      BY <2>2 DEF OpenModel
    <3>3. /\ live' = (live \ {model[m].index}) \cup (IF ok THEN {i} ELSE {})
          /\ tg' = tg /\ client' = client
          /\ misused' = (misused \/ Sharing(model[m].index))
      BY <2>2 DEF OpenModel
    <3> HIDE DEF i
    <3>4. i # None
      BY <3>1, TaggerAssumption
    <3>5. CASE ok
      BY <1>t, <3>1, <3>2, <3>3, <3>4, <3>5
    <3>6. CASE ~ok
      BY <1>t, <3>1, <3>2, <3>3, <3>4, <3>6
    <3> QED BY <3>5, <3>6
  <2> QED BY <2>1, <2>2
<1>f. PICK i : /\ \/ i = None
                  \/ /\ i \in Indexes /\ i \notin live
                     /\ \A u \in Taggers : tg[u].index # i
                     /\ \A n \in Models : model[n].index # i
               /\ model'[m].index = i
               /\ live' = (live \ {model[m].index}) \cup ({i} \ {None})
               /\ \A n \in Models \ {m} : model'[n] = model[n]
               /\ tg' = tg /\ client' = client
               /\ misused' = (misused \/ Sharing(model[m].index))
  BY <1>e
<1>h. ModelsApart /\ NothingHeld /\ OwnedOnce
  BY DEF IInv
<1>1. ModelsApart'
  BY <1>h, <1>q, <1>f DEF ModelsApart, OwnedOnce
<1>2. NothingHeld'
  BY <1>h, <1>p, <1>f DEF NothingHeld
<1>3. OwnedOnce'
  <2>1. ASSUME NEW x \in Taggers, NEW y \in Taggers, x # y, tg'[x].alloc # None
        PROVE  tg'[x].alloc # tg'[y].alloc
    BY <1>h, <1>p, <1>q, <1>f, TaggerAssumption, <2>1
       DEF OwnedOnce
  <2>2. ASSUME NEW x \in Taggers, tg'[x].mode = "TEST", tg'[x].index # None
        PROVE  /\ \A y \in Taggers \ {x} : tg'[y].index # tg'[x].index
               /\ \A n \in Models : model'[n].index # tg'[x].index
    BY <1>h, <1>p, <1>q, <1>f, TaggerAssumption, <2>2
       DEF OwnedOnce, ModelsApart
  <2>3. ASSUME ~misused', NEW x \in Taggers, client'[x].opened
        PROVE  tg'[x].index # None /\ tg'[x].index \in live'
    BY <1>h, <1>p, <1>q, <1>f, TaggerAssumption, <2>3
       DEF OwnedOnce, ModelsApart, NothingHeld, Usable, Sharing
  <2>4. ASSUME ~misused', NEW x \in Taggers, client'[x].opened
        PROVE  tg'[x].alloc # None /\ tg'[x].alloc \in live'
    BY <1>h, <1>p, <1>q, <1>f, TaggerAssumption, <2>4
       DEF OwnedOnce, ModelsApart, NothingHeld, Usable, Sharing
  <2>5. ASSUME ~misused', NEW k \in Models, model'[k].index # None
        PROVE  model'[k].index \in live'
    <3>1. CASE k = m
      BY <1>f, <2>5, <3>1
    <3>2. CASE k # m
      <4>1. model'[k].index = model[k].index /\ ~misused
        BY <1>f, <2>5, <3>2
      <4>2. model[k].index \in live /\ model[k].index # model[m].index
        BY <1>h, <2>5, <3>2, <4>1 DEF OwnedOnce, ModelsApart, Usable
      <4> QED BY <1>f, <4>1, <4>2
    <3> QED BY <3>1, <3>2
  <2> QED BY <2>1, <2>2, <2>3, <2>4, <2>5 DEF OwnedOnce, Usable
<1>4. NothingLeaks => NothingLeaks'
  <2> SUFFICES ASSUME NothingLeaks, ~misused'
               PROVE  \A x : x \in live' <=> Owned(x)'
    BY LeakFree, LeakFreeNext
  <2>1. \A x : x \in live <=> Owned(x)
    BY <1>f, LeakFree
  <2> QED BY <1>h, <1>p, <1>q, <2>1, <1>f, TaggerAssumption
        DEF Owned, OwnedOnce, ModelsApart, NothingHeld
<1> QED BY <1>1, <1>2, <1>3, <1>4

-----------------------------------------------------------------------------
(* The step, and the theorems. *)
LEMMA OwnedStep ==
  ASSUME IInv, [Next]_vars
  PROVE  IInv' /\ (NothingLeaks => NothingLeaks')
<1>t. TypeOK /\ TypeOK'
  BY TypeStep DEF IInv
<1> SUFFICES /\ ModelsApart' /\ NothingHeld' /\ OwnedOnce'
             /\ NothingLeaks => NothingLeaks'
  BY <1>t DEF IInv
<1>q. Quiet => /\ ModelsApart' /\ NothingHeld' /\ OwnedOnce'
               /\ NothingLeaks => NothingLeaks'
  BY <1>t, QuietKeeps, QuietLeaks DEF IInv
<1>1. ASSUME NEW t \in Taggers, CreateTagger(t)
      PROVE  ModelsApart' /\ NothingHeld' /\ OwnedOnce' /\ (NothingLeaks => NothingLeaks')
  BY <1>1, OwnedCreate
<1>2. ASSUME NEW t \in Taggers, NEW m \in Models, CreateFromModel(t, m)
      PROVE  ModelsApart' /\ NothingHeld' /\ OwnedOnce' /\ (NothingLeaks => NothingLeaks')
  BY <1>2, OwnedCreateFromModel
<1>3. ASSUME NEW t \in Taggers, Close(t) \/ DeleteTagger(t)
      PROVE  ModelsApart' /\ NothingHeld' /\ OwnedOnce' /\ (NothingLeaks => NothingLeaks')
  BY <1>3, OwnedClose
<1>4. ASSUME NEW t \in Taggers, NEW ok \in BOOLEAN, Open(t, ok)
      PROVE  ModelsApart' /\ NothingHeld' /\ OwnedOnce' /\ (NothingLeaks => NothingLeaks')
  BY <1>4, OwnedOpen
<1>5. ASSUME NEW t \in Taggers, NEW m \in Models, SetModel(t, m)
      PROVE  ModelsApart' /\ NothingHeld' /\ OwnedOnce' /\ (NothingLeaks => NothingLeaks')
  BY <1>5, OwnedSetModel
<1>6. ASSUME NEW m \in Models, DeleteModel(m) \/ \E ok \in BOOLEAN : OpenModel(m, ok)
      PROVE  ModelsApart' /\ NothingHeld' /\ OwnedOnce' /\ (NothingLeaks => NothingLeaks')
  BY <1>6, OwnedModel
<1>7. ASSUME NEW t \in Taggers,
             \/ \E n \in NBests : SetNbest(t, n)
             \/ \E v \in Vlevels : SetVlevel(t, v)
             \/ RefusedOpen(t)
             \/ \E ok \in BOOLEAN : Parse(t, ok)
             \/ Clear(t) \/ Add(t) \/ NextBest(t) \/ TaggerToString(t) \/ Inspect(t)
             \/ \E i \in 0 .. MaxTokens - 1, j \in 0 .. MaxTags - 1 :
                  SetPenalty(t, i, j)
             \/ \E n \in 0 .. MaxTokens, outcome \in {"answered", "unparsed", "unread"} :
                  ParseText(t, n, outcome)
      PROVE  Quiet
  BY <1>t, <1>7, QuietCalls
<1>8. CASE Next
  BY <1>q, <1>1, <1>2, <1>3, <1>4, <1>5, <1>6, <1>7, <1>8 DEF Next
<1>9. CASE UNCHANGED vars
  <2>1. Quiet
    BY <1>9 DEF vars, Quiet
  <2> QED BY <1>q, <2>1
<1> QED BY <1>8, <1>9

(* No two taggers or models own one object, and what an open tagger points *)
(* at is allocated as long as the client keeps the rules.                  *)
THEOREM Ownership == Spec => []OwnedOnce
<1>1. IInv => OwnedOnce
  BY DEF IInv
<1>2. IInv /\ [Next]_vars => IInv'
  BY OwnedStep
<1> QED BY <1>1, <1>2, OwnedInit, PTL DEF Spec

(* What is allocated is what somebody will delete. *)
THEOREM LeakFreedom == Spec => []NothingLeaks
<1>1. Init => NothingLeaks
  <2> SUFFICES ASSUME Init PROVE NothingLeaks
    OBVIOUS
  <2>1. \A t \in Taggers : /\ tg[t].mode = "none" /\ tg[t].index = None
                           /\ tg[t].alloc = None
    BY DEF Init, NoTagger
  <2>2. live = {} /\ \A m \in Models : model[m].index = None
    BY DEF Init, NoModel
  <2> QED BY <2>1, <2>2, LeakFree DEF Owned
<1>2. IInv /\ NothingLeaks /\ [Next]_vars => IInv' /\ NothingLeaks'
  BY OwnedStep
<1> QED BY <1>1, <1>2, OwnedInit, PTL DEF Spec

-----------------------------------------------------------------------------
(* No fault without a broken rule.  While the client keeps the rules, the  *)
(* tokens of an open tagger lie in its own allocator and fit its own index *)
(* and penalties, a ranked one has an agenda of this parse, and a parsed   *)
(* one has all its nodes and a cost.                                       *)
Blank(s) == s.tokens = 0 => s.homes = {} /\ s.columns = {}

Whole(s, c) == /\ c.opened => s.homes \subseteq {s.alloc} /\ s.columns \subseteq {s.index}
               /\ s.rows > 0 => s.tokens <= s.rows /\ s.ysize <= s.width
               /\ c.parsed => c.opened /\ s.built = s.tokens /\ s.scored
               /\ c.ranked => s.agenda \in {"current", "empty"}

SInv == /\ IInv
        /\ FaultsAreMisuse
        /\ \A t \in Taggers : Blank(tg[t])
        /\ ~misused => \A t \in Taggers : Whole(tg[t], client[t])

(* At first there is no tagger to go wrong. *)
LEMMA SoundInit == Init => SInv
<1> SUFFICES ASSUME Init PROVE SInv
  OBVIOUS
<1>1. ASSUME NEW t \in Taggers PROVE Blank(tg[t]) /\ Whole(tg[t], client[t])
  BY DEF Init, NoTagger, Unknown, Blank, Whole
<1>2. FaultsAreMisuse
  BY DEF Init, FaultsAreMisuse
<1> QED BY <1>1, <1>2, OwnedInit DEF SInv

(* It is enough to look at the tagger that is called. *)
Kept(t) == \E s, c : /\ tg' = tg \/ tg' = [tg EXCEPT ![t] = s]
                     /\ client' = [client EXCEPT ![t] = c]
                     /\ Blank(s)
                     /\ ~misused' => /\ ~misused /\ ~fault'
                                     /\ tg' = [tg EXCEPT ![t] = s]
                                     /\ Whole(s, c)

(* A call changes the sentence of one tagger, or faults. *)
LEMMA KeptIsEnough ==
  ASSUME SInv, NEW t \in Taggers, Kept(t), IInv'
  PROVE  SInv'
<1>t. tg \in [Taggers -> Sentences] /\ client \in [Taggers -> Contexts]
  BY Typed DEF SInv, IInv
<1>1. PICK s, c : /\ tg' = tg \/ tg' = [tg EXCEPT ![t] = s]
                  /\ client' = [client EXCEPT ![t] = c]
                  /\ Blank(s)
                  /\ ~misused' => /\ ~misused /\ ~fault'
                                  /\ tg' = [tg EXCEPT ![t] = s]
                                  /\ Whole(s, c)
  BY DEF Kept
<1>2. FaultsAreMisuse'
  BY <1>1 DEF FaultsAreMisuse
<1>3. ASSUME NEW u \in Taggers PROVE Blank(tg'[u])
  BY <1>t, <1>1 DEF SInv
<1>4. ASSUME ~misused', NEW u \in Taggers PROVE Whole(tg'[u], client'[u])
  BY <1>t, <1>1, <1>4 DEF SInv
<1> QED BY <1>2, <1>3, <1>4 DEF SInv, Blank, Whole

(* The members of a sentence that count something. *)
LEMMA Numbers ==
  ASSUME NEW s \in Sentences
  PROVE  /\ s \in Noted
         /\ s.tokens \in Nat /\ s.built \in Nat
         /\ s.rows \in Nat /\ s.width \in Nat
         /\ s.nbest \in Nat /\ s.vlevel \in Nat /\ s.ysize \in Nat
<1>1. s \in Noted
  BY SentenceNoted
<1>2. /\ s.tokens \in 0 .. MaxTokens /\ s.built \in 0 .. MaxTokens
      /\ s.rows \in 0 .. MaxTokens /\ s.width \in 0 .. MaxTags
      /\ s.ysize \in 0 .. MaxTags
      /\ s.nbest \in NBests \cup {0} /\ s.vlevel \in Vlevels \cup {0}
  BY DEF Sentences
<1>3. /\ s.tokens \in Nat /\ s.built \in Nat /\ s.rows \in Nat
      /\ s.width \in Nat /\ s.ysize \in Nat
  BY <1>2, TaggerAssumption
<1>4. NBests \cup {0} \subseteq Nat /\ Vlevels \cup {0} \subseteq Nat
  BY TaggerAssumption
<1> QED BY <1>1, <1>2, <1>3, <1>4

(* What the calls make of the tokens, the penalties and the agenda. *)
LEMMA Fields ==
  ASSUME NEW s \in Noted
  PROVE  /\ Cleared(s).tokens = 0 /\ Cleared(s).homes = {} /\ Cleared(s).columns = {}
         /\ Cleared(s).rows = s.rows /\ Cleared(s).width = s.width
         /\ Cleared(s).ysize = s.ysize /\ Cleared(s).nbest = s.nbest
         /\ Cleared(s).scored
         /\ \A n \in Nat : /\ Added(s, n).tokens = s.tokens + n
                           /\ Added(s, n).rows = s.rows
                           /\ Added(s, n).width = s.width
                           /\ Added(s, n).ysize = s.ysize
                           /\ Added(s, n).scored = s.scored
                           /\ Added(s, n).agenda = s.agenda
                           /\ Added(s, n).nbest = s.nbest
                           /\ n = 0 => /\ Added(s, n).homes = s.homes
                                       /\ Added(s, n).columns = s.columns
                           /\ n > 0 => /\ Added(s, n).homes = s.homes \cup {s.alloc}
                                       /\ Added(s, n).columns = s.columns \cup {s.index}
         /\ Closed(s).tokens = s.tokens /\ Closed(s).homes = s.homes
         /\ Closed(s).columns = s.columns /\ Closed(s).rows = s.rows
         /\ Closed(s).width = s.width /\ Closed(s).ysize = s.ysize
         /\ Parsed(s).tokens = s.tokens /\ Parsed(s).homes = s.homes
         /\ Parsed(s).columns = s.columns /\ Parsed(s).rows = s.rows
         /\ Parsed(s).width = s.width /\ Parsed(s).ysize = s.ysize
         /\ Parsed(s).nbest = s.nbest
         /\ s.tokens # 0 => Parsed(s).built = s.tokens
         /\ s.tokens # 0 \/ s.scored => Parsed(s).scored
         /\ s.nbest > 0 /\ s.tokens # 0 => Parsed(s).agenda = "current"
         /\ s.tokens = 0 => Parsed(s).agenda = s.agenda
         /\ \A u \in AfterToString(s) :
              /\ u.tokens = s.tokens /\ u.homes = s.homes /\ u.columns = s.columns
              /\ u.rows = s.rows /\ u.width = s.width /\ u.ysize = s.ysize
              /\ u.built = s.built /\ u.scored = s.scored
              /\ s.agenda \in {"current", "empty"} => u.agenda \in {"current", "empty"}
<1>1. Cleared(s).tokens = 0 /\ Cleared(s).homes = {} /\ Cleared(s).columns = {}
      /\ Cleared(s).rows = s.rows /\ Cleared(s).width = s.width
      /\ Cleared(s).ysize = s.ysize /\ Cleared(s).nbest = s.nbest
      /\ Cleared(s).scored
  BY DEF Noted, Cleared
<1>2. ASSUME NEW n \in Nat
      PROVE  /\ Added(s, n).tokens = s.tokens + n
             /\ Added(s, n).rows = s.rows
             /\ Added(s, n).width = s.width
             /\ Added(s, n).ysize = s.ysize
             /\ Added(s, n).scored = s.scored
             /\ Added(s, n).agenda = s.agenda
             /\ Added(s, n).nbest = s.nbest
             /\ n = 0 => /\ Added(s, n).homes = s.homes
                         /\ Added(s, n).columns = s.columns
             /\ n > 0 => /\ Added(s, n).homes = s.homes \cup {s.alloc}
                         /\ Added(s, n).columns = s.columns \cup {s.index}
  BY DEF Noted, Added
<1>3. /\ Closed(s).tokens = s.tokens /\ Closed(s).homes = s.homes
      /\ Closed(s).columns = s.columns /\ Closed(s).rows = s.rows
      /\ Closed(s).width = s.width /\ Closed(s).ysize = s.ysize
  BY DEF Noted, Closed
<1>4. /\ Parsed(s).tokens = s.tokens /\ Parsed(s).homes = s.homes
      /\ Parsed(s).columns = s.columns /\ Parsed(s).rows = s.rows
      /\ Parsed(s).width = s.width /\ Parsed(s).ysize = s.ysize
      /\ Parsed(s).nbest = s.nbest
      /\ s.tokens # 0 => Parsed(s).built = s.tokens
      /\ s.tokens # 0 \/ s.scored => Parsed(s).scored
      /\ s.nbest > 0 /\ s.tokens # 0 => Parsed(s).agenda = "current"
      /\ s.tokens = 0 => Parsed(s).agenda = s.agenda
  BY DEF Noted, Parsed, InitNbest
<1>5. ASSUME NEW u \in AfterToString(s)
      PROVE  /\ u.tokens = s.tokens /\ u.homes = s.homes /\ u.columns = s.columns
             /\ u.rows = s.rows /\ u.width = s.width /\ u.ysize = s.ysize
             /\ u.built = s.built /\ u.scored = s.scored
             /\ s.agenda \in {"current", "empty"} => u.agenda \in {"current", "empty"}
  BY DEF Noted, AfterToString, AgendaAfterNext
<1> QED BY <1>1, <1>2, <1>3, <1>4, <1>5

(* What an index and its settings leave alone. *)
LEMMA ConfiguredFields ==
  ASSUME NEW s \in Sentences, NEW i, NEW o
  PROVE  LET u == Configured(s, i, o)
         IN /\ u.tokens = s.tokens /\ u.homes = s.homes /\ u.columns = s.columns
            /\ u.rows = s.rows /\ u.width = s.width /\ u.ysize = o.ysize
            /\ u.alloc = s.alloc /\ u.index = i
BY DEF Configured, Sentences

(* The calls that create, delete and move pointers, and the settings. *)
LEMMA SoundPointers ==
  ASSUME SInv, NEW t \in Taggers,
         \/ CreateTagger(t) \/ Close(t) \/ DeleteTagger(t)
         \/ \E ok \in BOOLEAN : Open(t, ok)
         \/ \E m \in Models : CreateFromModel(t, m) \/ SetModel(t, m)
         \/ \E n \in NBests : SetNbest(t, n)
         \/ \E v \in Vlevels : SetVlevel(t, v)
         \/ RefusedOpen(t)
  PROVE  Kept(t)
<1>t. /\ tg \in [Taggers -> Sentences] /\ client \in [Taggers -> Contexts]
      /\ misused \in BOOLEAN
  BY Typed DEF SInv, IInv
<1>s. /\ tg[t] \in Sentences /\ tg[t] \in Noted /\ client[t] \in Contexts
      /\ tg[t].tokens \in Nat /\ tg[t].rows \in Nat /\ tg[t].nbest \in Nat
      /\ tg[t].width \in Nat /\ tg[t].ysize \in Nat /\ tg[t].vlevel \in Nat
      /\ tg[t].built \in Nat
  <2>1. tg[t] \in Sentences /\ client[t] \in Contexts
    BY <1>t
  <2> QED BY <2>1, Numbers
<1>b. Blank(tg[t])
  BY DEF SInv
<1>w. ~misused => Whole(tg[t], client[t])
  BY DEF SInv
<1>k. ~misused /\ client[t].opened => /\ Usable(tg[t].index) /\ Usable(tg[t].alloc)
                                      /\ ~TokensFault(tg[t])
                                      /\ tg[t].columns \subseteq {tg[t].index}
  BY <1>w DEF SInv, IInv, OwnedOnce, Usable, TokensFault, Whole
<1>n. /\ Constructed.tokens = 0 /\ Constructed.homes = {} /\ Constructed.columns = {}
      /\ Constructed.rows = 0 /\ NoTagger.homes = {} /\ NoTagger.columns = {}
      /\ NoTagger.rows = 0
  BY DEF Constructed, NoTagger
<1>r. /\ ~Unknown.opened /\ ~Unknown.ranked /\ ~Unknown.parsed
      /\ Opened.opened /\ ~Opened.ranked /\ ~Opened.parsed
  BY DEF Unknown, Opened
<1>1. CASE CreateTagger(t)
  <2> DEFINE i == Some(FreshIndexes)
             a == Some(FreshAllocators)
  <2>1. PICK o \in Settings :
          Call(t, FALSE, FALSE, Configured([Constructed EXCEPT !.alloc = a], i, o),
               Opened)
    BY <1>1 DEF CreateTagger
  <2> DEFINE s == Configured([Constructed EXCEPT !.alloc = a], i, o)
  <2>2. s.tokens = 0 /\ s.homes = {} /\ s.columns = {} /\ s.rows = 0
    BY DEF Configured, Constructed, NoTagger
  <2> HIDE DEF i, a, s
  <2>9. /\ tg' = tg \/ tg' = [tg EXCEPT ![t] = s]
        /\ client' = [client EXCEPT ![t] = Opened]
        /\ Blank(s)
        /\ ~misused' => /\ ~misused /\ ~fault'
                        /\ tg' = [tg EXCEPT ![t] = s]
                        /\ Whole(s, Opened)
    BY <1>t, <1>r, <2>1, <2>2 DEF Call, Blank, Whole, s
  <2> QED BY <2>9 DEF Kept
<1>2. CASE Close(t)
  <2>1. Call(t, FALSE, FALSE, Closed(tg[t]), Unknown)
    BY <1>2 DEF Close
  <2>2. Blank(Closed(tg[t])) /\ (~misused => Whole(Closed(tg[t]), Unknown))
    BY <1>s, <1>b, <1>w, <1>r, Fields DEF Blank, Whole
  <2>9. /\ tg' = tg \/ tg' = [tg EXCEPT ![t] = Closed(tg[t])]
        /\ client' = [client EXCEPT ![t] = Unknown]
        /\ Blank(Closed(tg[t]))
        /\ ~misused' => /\ ~misused /\ ~fault'
                        /\ tg' = [tg EXCEPT ![t] = Closed(tg[t])]
                        /\ Whole(Closed(tg[t]), Unknown)
    BY <1>t, <2>1, <2>2 DEF Call
  <2> QED BY <2>9 DEF Kept
<1>3. CASE DeleteTagger(t)
  <2>1. Call(t, FALSE, FALSE, NoTagger, Unknown)
    BY <1>3 DEF DeleteTagger
  <2>9. /\ tg' = tg \/ tg' = [tg EXCEPT ![t] = NoTagger]
        /\ client' = [client EXCEPT ![t] = Unknown]
        /\ Blank(NoTagger)
        /\ ~misused' => /\ ~misused /\ ~fault'
                        /\ tg' = [tg EXCEPT ![t] = NoTagger]
                        /\ Whole(NoTagger, Unknown)
    BY <1>t, <1>n, <1>r, <2>1 DEF Call, Blank, Whole
  <2> QED BY <2>9 DEF Kept
<1>4. ASSUME NEW ok \in BOOLEAN, Open(t, ok) PROVE Kept(t)
  <2> DEFINE i == Some(FreshIndexes)
             a == Some(FreshAllocators)
             before == [Closed(tg[t]) EXCEPT !.alloc = a]
             broken == tg[t].mode = "TEST_SHARED" \/ tg[t].tokens > 0
  <2>1. PICK o \in Settings :
          LET set == Configured(before, i, o)
          IN IF ok THEN Call(t, broken \/ Narrow(tg[t], o.ysize), FALSE, set, Opened)
                   ELSE Call(t, broken, FALSE,
                             [Closed(set) EXCEPT !.ysize = tg[t].ysize], Unknown)
    BY <1>4 DEF Open
  <2> DEFINE set == Configured(before, i, o)
             left == [Closed(set) EXCEPT !.ysize = tg[t].ysize]
             narrow == Narrow(tg[t], o.ysize)
  <2>2. i \in Indexes /\ a \in Allocators
    BY <1>4, NewIndex, NewAllocator DEF Open, FreshIndexes, FreshAllocators
  <2>3. /\ before \in Sentences
        /\ before.tokens = tg[t].tokens /\ before.homes = tg[t].homes
        /\ before.columns = tg[t].columns /\ before.rows = tg[t].rows
        /\ before.width = tg[t].width
    <3>1. Closed(tg[t]) \in Sentences
      BY <1>s, Results
    <3> HIDE DEF a
    <3>2. before \in Sentences
      BY <2>2, <3>1 DEF Sentences
    <3>3. /\ before.tokens = Closed(tg[t]).tokens /\ before.homes = Closed(tg[t]).homes
          /\ before.columns = Closed(tg[t]).columns /\ before.rows = Closed(tg[t]).rows
          /\ before.width = Closed(tg[t]).width
      BY <3>1 DEF Sentences
    <3> QED BY <1>s, <3>2, <3>3, Fields
  <2>4. set \in Sentences /\ o.ysize \in Nat
    <3> HIDE DEF i, before
    <3>1. set \in Sentences
      BY <2>2, <2>3, Configurable
    <3>2. o.ysize \in 1 .. MaxTags
      BY DEF Settings
    <3> QED BY <3>1, <3>2, TaggerAssumption
  <2>5. /\ set.tokens = tg[t].tokens /\ set.homes = tg[t].homes
        /\ set.columns = tg[t].columns /\ set.rows = tg[t].rows
        /\ set.width = tg[t].width /\ set.ysize = o.ysize
    <3> HIDE DEF i, before
    <3> QED BY <2>3, ConfiguredFields
  <2>6. /\ left.tokens = tg[t].tokens /\ left.homes = tg[t].homes
        /\ left.columns = tg[t].columns /\ left.rows = tg[t].rows
        /\ left.width = tg[t].width /\ left.ysize = tg[t].ysize
    <3> HIDE DEF set
    <3>1. Closed(set) \in Sentences
      BY <2>4, Results
    <3>2. /\ left.tokens = Closed(set).tokens /\ left.homes = Closed(set).homes
          /\ left.columns = Closed(set).columns /\ left.rows = Closed(set).rows
          /\ left.width = Closed(set).width /\ left.ysize = tg[t].ysize
      BY <3>1 DEF Sentences
    <3> QED BY <2>4, <2>5, <3>2, SentenceNoted, Fields
  <2>n. broken \in BOOLEAN /\ narrow \in BOOLEAN
    BY DEF Narrow
  <2>b. ~broken => tg[t].tokens = 0
    BY <1>s
  <2> HIDE DEF i, a, before, set, left, broken
  <2>7. CASE ok
    <3>1. Call(t, broken \/ narrow, FALSE, set, Opened)
      BY <2>1, <2>7 DEF set
    <3>2. ~narrow => ~(tg[t].rows > 0 /\ tg[t].width < o.ysize)
      BY DEF Narrow
    <3> HIDE DEF narrow
    <3>3. Blank(set) /\ (~misused /\ ~broken /\ ~narrow => Whole(set, Opened))
      BY <1>s, <1>b, <1>w, <1>r, <2>b, <2>4, <2>5, <3>2 DEF Blank, Whole
    <3>9. /\ tg' = tg \/ tg' = [tg EXCEPT ![t] = set]
          /\ client' = [client EXCEPT ![t] = Opened]
          /\ Blank(set)
          /\ ~misused' => /\ ~misused /\ ~fault'
                          /\ tg' = [tg EXCEPT ![t] = set]
                          /\ Whole(set, Opened)
      BY <1>t, <2>n, <3>1, <3>3 DEF Call
    <3> QED BY <3>9 DEF Kept
  <2>8. CASE ~ok
    <3>1. Call(t, broken, FALSE, left, Unknown)
      BY <2>1, <2>8 DEF set, left
    <3>2. Blank(left) /\ (~misused => Whole(left, Unknown))
      BY <1>s, <1>b, <1>w, <1>r, <2>6 DEF Blank, Whole
    <3>9. /\ tg' = tg \/ tg' = [tg EXCEPT ![t] = left]
          /\ client' = [client EXCEPT ![t] = Unknown]
          /\ Blank(left)
          /\ ~misused' => /\ ~misused /\ ~fault'
                          /\ tg' = [tg EXCEPT ![t] = left]
                          /\ Whole(left, Unknown)
      BY <1>t, <2>n, <3>1, <3>2 DEF Call
    <3> QED BY <3>9 DEF Kept
  <2> QED BY <2>7, <2>8
<1>5. ASSUME NEW m \in Models, CreateFromModel(t, m) PROVE Kept(t)
  <2> DEFINE s == Configured([Constructed EXCEPT !.mode = "TEST_SHARED",
                                                 !.alloc = Some(FreshAllocators)],
                             model[m].index, model[m])
  <2>1. Call(t, FALSE, FALSE, s, Opened)
    BY <1>5 DEF CreateFromModel
  <2>2. s.tokens = 0 /\ s.homes = {} /\ s.columns = {} /\ s.rows = 0
    BY DEF Configured, Constructed, NoTagger
  <2> HIDE DEF s
  <2>9. /\ tg' = tg \/ tg' = [tg EXCEPT ![t] = s]
        /\ client' = [client EXCEPT ![t] = Opened]
        /\ Blank(s)
        /\ ~misused' => /\ ~misused /\ ~fault'
                        /\ tg' = [tg EXCEPT ![t] = s]
                        /\ Whole(s, Opened)
    BY <1>t, <1>r, <2>1, <2>2 DEF Call, Blank, Whole
  <2> QED BY <2>9 DEF Kept
<1>6. ASSUME NEW m \in Models, SetModel(t, m) PROVE Kept(t)
  <2> DEFINE shared == [tg[t] EXCEPT !.mode = "TEST_SHARED"]
             s == Configured(shared, model[m].index, model[m])
             c == Unread(client[t])
             missing == model[m].index = None
             narrow == Narrow(tg[t], model[m].ysize)
             broken == missing \/ tg[t].tokens > 0 \/ narrow
  <2>1. s.tokens = tg[t].tokens /\ s.homes = tg[t].homes /\ s.columns = tg[t].columns
        /\ s.rows = tg[t].rows /\ s.alloc = tg[t].alloc /\ s.width = tg[t].width
        /\ s.ysize = model[m].ysize
    <3>1. shared \in Sentences
      BY <1>s DEF Sentences
    <3>2. /\ shared.tokens = tg[t].tokens /\ shared.homes = tg[t].homes
          /\ shared.columns = tg[t].columns /\ shared.rows = tg[t].rows
          /\ shared.alloc = tg[t].alloc /\ shared.width = tg[t].width
      BY <1>s DEF Sentences
    <3> HIDE DEF shared
    <3> QED BY <3>1, <3>2, ConfiguredFields
  <2>2. ~c.ranked /\ ~c.parsed
    BY <1>s DEF Contexts, Unread
  <2>3. Call(t, broken, missing, s, c)
    BY <1>6 DEF SetModel
  <2>y. model[m].ysize \in Nat
    <3>1. model[m] \in Records
      BY Typed DEF SInv, IInv
    <3>2. model[m].ysize \in 0 .. MaxTags
      BY <3>1 DEF Records
    <3> QED BY <3>2, TaggerAssumption
  <2>5. ~broken => ~missing /\ tg[t].tokens = 0 /\ ~narrow
    BY <1>s
  <2>n. ~narrow => ~(tg[t].rows > 0 /\ tg[t].width < model[m].ysize)
    BY DEF Narrow
  <2>6. broken \in BOOLEAN /\ missing \in BOOLEAN
    OBVIOUS
  <2> HIDE DEF shared, s, c, missing, broken, narrow
  <2>4. Blank(s) /\ (~misused /\ tg[t].tokens = 0 /\ ~narrow => Whole(s, c))
    BY <1>s, <1>b, <1>w, <2>1, <2>2, <2>y, <2>n DEF Blank, Whole
  <2>9. /\ tg' = tg \/ tg' = [tg EXCEPT ![t] = s]
        /\ client' = [client EXCEPT ![t] = c]
        /\ Blank(s)
        /\ ~misused' => /\ ~misused /\ ~fault'
                        /\ tg' = [tg EXCEPT ![t] = s]
                        /\ Whole(s, c)
    BY <1>t, <2>3, <2>4, <2>5, <2>6 DEF Call
  <2> QED BY <2>9 DEF Kept
<1>7. ASSUME NEW s, Call(t, FALSE, FALSE, s, client[t]),
             \/ \E n : s = [tg[t] EXCEPT !.nbest = n]
             \/ \E v : s = [tg[t] EXCEPT !.vlevel = v]
      PROVE  Kept(t)
  <2>1. /\ s.tokens = tg[t].tokens /\ s.homes = tg[t].homes /\ s.columns = tg[t].columns
        /\ s.rows = tg[t].rows /\ s.alloc = tg[t].alloc /\ s.index = tg[t].index
        /\ s.width = tg[t].width /\ s.ysize = tg[t].ysize
        /\ s.built = tg[t].built /\ s.scored = tg[t].scored
        /\ s.agenda = tg[t].agenda
    BY <1>s, <1>7 DEF Sentences
  <2>3. Blank(s) /\ (~misused => Whole(s, client[t]))
    BY <1>b, <1>w, <2>1 DEF Blank, Whole
  <2>9. /\ tg' = tg \/ tg' = [tg EXCEPT ![t] = s]
        /\ client' = [client EXCEPT ![t] = client[t]]
        /\ Blank(s)
        /\ ~misused' => /\ ~misused /\ ~fault'
                        /\ tg' = [tg EXCEPT ![t] = s]
                        /\ Whole(s, client[t])
    BY <1>t, <1>7, <2>3 DEF Call
  <2> QED BY <2>9 DEF Kept
<1>8. ASSUME NEW n \in NBests, SetNbest(t, n) PROVE Kept(t)
  BY <1>7, <1>8 DEF SetNbest
<1>9. ASSUME NEW v \in Vlevels, SetVlevel(t, v) PROVE Kept(t)
  BY <1>7, <1>9 DEF SetVlevel
<1>10. CASE RefusedOpen(t)
  <2>1. Call(t, FALSE, FALSE, tg[t], Unknown)
    BY <1>10 DEF RefusedOpen
  <2>2. Blank(tg[t]) /\ (~misused => Whole(tg[t], Unknown))
    BY <1>b, <1>w, <1>r DEF Whole
  <2>9. /\ tg' = tg \/ tg' = [tg EXCEPT ![t] = tg[t]]
        /\ client' = [client EXCEPT ![t] = Unknown]
        /\ Blank(tg[t])
        /\ ~misused' => /\ ~misused /\ ~fault'
                        /\ tg' = [tg EXCEPT ![t] = tg[t]]
                        /\ Whole(tg[t], Unknown)
    BY <1>t, <2>1, <2>2 DEF Call
  <2> QED BY <2>9 DEF Kept
<1> QED BY <1>1, <1>2, <1>3, <1>4, <1>5, <1>6, <1>8, <1>9, <1>10

(* The calls about the sentence. *)
LEMMA SoundClear ==
  ASSUME SInv, NEW t \in Taggers,
         Clear(t)
  PROVE  Kept(t)
<1>t. /\ tg \in [Taggers -> Sentences] /\ client \in [Taggers -> Contexts]
      /\ misused \in BOOLEAN
  BY Typed DEF SInv, IInv
<1>s. /\ tg[t] \in Sentences /\ tg[t] \in Noted /\ client[t] \in Contexts
      /\ tg[t].tokens \in Nat /\ tg[t].rows \in Nat /\ tg[t].nbest \in Nat
      /\ tg[t].width \in Nat /\ tg[t].ysize \in Nat /\ tg[t].vlevel \in Nat
      /\ tg[t].built \in Nat
  <2>1. tg[t] \in Sentences /\ client[t] \in Contexts
    BY <1>t
  <2> QED BY <2>1, Numbers
<1>b. Blank(tg[t])
  BY DEF SInv
<1>w. ~misused => Whole(tg[t], client[t])
  BY DEF SInv
<1>k. ~misused /\ client[t].opened => /\ Usable(tg[t].index) /\ Usable(tg[t].alloc)
                                      /\ ~TokensFault(tg[t])
                                      /\ tg[t].columns \subseteq {tg[t].index}
  BY <1>w DEF SInv, IInv, OwnedOnce, Usable, TokensFault, Whole
<1> DEFINE s == Cleared(tg[t])
           c == Unread(client[t])
           broken == ~client[t].opened
           faulty == ClearFault(tg[t])
<1>1. Call(t, broken, faulty, s, c)
  BY DEF Clear
<1>2. ~misused /\ ~broken => ~faulty
  BY <1>k DEF ClearFault
<1>3. ~c.ranked /\ ~c.parsed
  BY <1>s DEF Contexts, Unread
<1>4. Blank(s) /\ (~misused => Whole(s, c))
  <2>1. /\ s.tokens = 0 /\ s.homes = {} /\ s.columns = {} /\ s.rows = tg[t].rows
        /\ s.width = tg[t].width /\ s.ysize = tg[t].ysize
    BY <1>s, Fields
  <2> HIDE DEF s, c
  <2> QED BY <1>s, <1>w, <1>3, <2>1 DEF Blank, Whole
<1>5. broken \in BOOLEAN /\ faulty \in BOOLEAN
  BY <1>s DEF ClearFault, Contexts
<1> HIDE DEF s, c, broken, faulty
<1>9. /\ tg' = tg \/ tg' = [tg EXCEPT ![t] = s]
      /\ client' = [client EXCEPT ![t] = c]
      /\ Blank(s)
      /\ ~misused' => /\ ~misused /\ ~fault'
                      /\ tg' = [tg EXCEPT ![t] = s]
                      /\ Whole(s, c)
  BY <1>t, <1>1, <1>2, <1>4, <1>5 DEF Call
<1> QED BY <1>9 DEF Kept

(* add(): the penalty table has room, by the rule of use. *)
LEMMA SoundAdd ==
  ASSUME SInv, NEW t \in Taggers,
         Add(t)
  PROVE  Kept(t)
<1>t. /\ tg \in [Taggers -> Sentences] /\ client \in [Taggers -> Contexts]
      /\ misused \in BOOLEAN
  BY Typed DEF SInv, IInv
<1>s. /\ tg[t] \in Sentences /\ tg[t] \in Noted /\ client[t] \in Contexts
      /\ tg[t].tokens \in Nat /\ tg[t].rows \in Nat /\ tg[t].nbest \in Nat
      /\ tg[t].width \in Nat /\ tg[t].ysize \in Nat /\ tg[t].vlevel \in Nat
      /\ tg[t].built \in Nat
  <2>1. tg[t] \in Sentences /\ client[t] \in Contexts
    BY <1>t
  <2> QED BY <2>1, Numbers
<1>b. Blank(tg[t])
  BY DEF SInv
<1>w. ~misused => Whole(tg[t], client[t])
  BY DEF SInv
<1>k. ~misused /\ client[t].opened => /\ Usable(tg[t].index) /\ Usable(tg[t].alloc)
                                      /\ ~TokensFault(tg[t])
                                      /\ tg[t].columns \subseteq {tg[t].index}
  BY <1>w DEF SInv, IInv, OwnedOnce, Usable, TokensFault, Whole
<1> DEFINE s == Added(tg[t], 1)
           c == [client[t] EXCEPT !.parsed = FALSE]
           broken == ~client[t].opened \/ Overrun(tg[t], 1)
           faulty == AddFault(tg[t])
<1>1. Call(t, broken, faulty, s, c)
  BY DEF Add
<1>2. ~misused /\ ~broken => ~faulty
  BY <1>k DEF AddFault
<1>3. /\ s.tokens = tg[t].tokens + 1 /\ s.rows = tg[t].rows /\ s.agenda = tg[t].agenda
      /\ s.homes = tg[t].homes \cup {tg[t].alloc}
      /\ s.columns = tg[t].columns \cup {tg[t].index}
      /\ s.alloc = tg[t].alloc /\ s.index = tg[t].index
      /\ s.width = tg[t].width /\ s.ysize = tg[t].ysize
  <2>1. 1 \in Nat /\ 1 > 0
    OBVIOUS
  <2>2. SamePointers(s, tg[t])
    BY <1>s, <2>1, SentenceOnly
  <2>3. /\ s.tokens = tg[t].tokens + 1 /\ s.rows = tg[t].rows /\ s.agenda = tg[t].agenda
        /\ s.width = tg[t].width /\ s.ysize = tg[t].ysize
    BY <1>s, <2>1, Fields
  <2>4. /\ s.homes = tg[t].homes \cup {tg[t].alloc}
        /\ s.columns = tg[t].columns \cup {tg[t].index}
    BY <1>s, <2>1, Fields
  <2> QED BY <2>2, <2>3, <2>4 DEF SamePointers
<1>c. ~c.parsed /\ c.opened = client[t].opened /\ c.ranked = client[t].ranked
  BY <1>s DEF Contexts
<1>4. ~broken => ~(s.rows > 0 /\ s.tokens > s.rows)
  BY <1>3 DEF Overrun
<1>5. broken \in BOOLEAN /\ faulty \in BOOLEAN
  BY <1>s DEF AddFault, Usable, Contexts, Overrun
<1> HIDE DEF s, c, broken, faulty
<1>6. Blank(s)
  BY <1>s, <1>3 DEF Blank
<1>7. ~misused /\ ~broken => Whole(s, c)
  BY <1>s, <1>w, <1>c, <1>3, <1>4 DEF Whole
<1>9. /\ tg' = tg \/ tg' = [tg EXCEPT ![t] = s]
      /\ client' = [client EXCEPT ![t] = c]
      /\ Blank(s)
      /\ ~misused' => /\ ~misused /\ ~fault'
                      /\ tg' = [tg EXCEPT ![t] = s]
                      /\ Whole(s, c)
  BY <1>t, <1>1, <1>2, <1>5, <1>6, <1>7 DEF Call
<1> QED BY <1>9 DEF Kept

(* set_penalty(): the table is as long as the sentence, or longer. *)
LEMMA SoundSetPenalty ==
  ASSUME SInv, NEW t \in Taggers,
         \E i \in 0 .. MaxTokens - 1, j \in 0 .. MaxTags - 1 : SetPenalty(t, i, j)
  PROVE  Kept(t)
<1>t. /\ tg \in [Taggers -> Sentences] /\ client \in [Taggers -> Contexts]
      /\ misused \in BOOLEAN
  BY Typed DEF SInv, IInv
<1>s. /\ tg[t] \in Sentences /\ tg[t] \in Noted /\ client[t] \in Contexts
      /\ tg[t].tokens \in Nat /\ tg[t].rows \in Nat /\ tg[t].nbest \in Nat
      /\ tg[t].width \in Nat /\ tg[t].ysize \in Nat /\ tg[t].vlevel \in Nat
      /\ tg[t].built \in Nat
  <2>1. tg[t] \in Sentences /\ client[t] \in Contexts
    BY <1>t
  <2> QED BY <2>1, Numbers
<1>b. Blank(tg[t])
  BY DEF SInv
<1>w. ~misused => Whole(tg[t], client[t])
  BY DEF SInv
<1>k. ~misused /\ client[t].opened => /\ Usable(tg[t].index) /\ Usable(tg[t].alloc)
                                      /\ ~TokensFault(tg[t])
                                      /\ tg[t].columns \subseteq {tg[t].index}
  BY <1>w DEF SInv, IInv, OwnedOnce, Usable, TokensFault, Whole
<1>i. PICK i \in 0 .. MaxTokens - 1, j \in 0 .. MaxTags - 1 : SetPenalty(t, i, j)
  OBVIOUS
<1> DEFINE s == IF tg[t].rows > 0 \/ tg[t].tokens = 0 THEN tg[t]
                ELSE [tg[t] EXCEPT !.rows = tg[t].tokens, !.width = tg[t].ysize]
           c == client[t]
           broken == i >= tg[t].tokens \/ j >= tg[t].ysize
           faulty == i >= s.rows \/ j >= s.width
<1>1. Call(t, broken, faulty, s, c)
  BY <1>i DEF SetPenalty
<1>n. i \in Nat /\ j \in Nat
  BY TaggerAssumption
<1>2. /\ s.tokens = tg[t].tokens /\ s.agenda = tg[t].agenda
      /\ s.rows = IF tg[t].rows > 0 \/ tg[t].tokens = 0 THEN tg[t].rows ELSE tg[t].tokens
      /\ s.width = IF tg[t].rows > 0 \/ tg[t].tokens = 0 THEN tg[t].width
                                                          ELSE tg[t].ysize
      /\ s.ysize = tg[t].ysize /\ s.built = tg[t].built /\ s.scored = tg[t].scored
      /\ s.homes = tg[t].homes /\ s.columns = tg[t].columns
      /\ s.alloc = tg[t].alloc /\ s.index = tg[t].index
  BY <1>s DEF Sentences
<1>3. ~misused /\ ~broken => ~faulty
  <2> HIDE DEF s
  <2>1. ASSUME ~misused, i < tg[t].tokens, j < tg[t].ysize
        PROVE  i < s.rows /\ j < s.width
    BY <1>s, <1>w, <1>n, <1>2, <2>1 DEF Whole
  <2>2. s.rows \in Nat /\ s.width \in Nat
    BY <1>s, <1>2
  <2> QED BY <1>s, <1>n, <2>1, <2>2
<1>5. broken \in BOOLEAN /\ faulty \in BOOLEAN
  BY <1>s DEF Contexts
<1> HIDE DEF s, c, broken, faulty
<1>6. Blank(s)
  BY <1>b, <1>2 DEF Blank
<1>7. ~misused => Whole(s, c)
  BY <1>s, <1>w, <1>2 DEF Whole, c
<1>9. /\ tg' = tg \/ tg' = [tg EXCEPT ![t] = s]
      /\ client' = [client EXCEPT ![t] = c]
      /\ Blank(s)
      /\ ~misused' => /\ ~misused /\ ~fault'
                      /\ tg' = [tg EXCEPT ![t] = s]
                      /\ Whole(s, c)
  BY <1>t, <1>1, <1>3, <1>5, <1>6, <1>7 DEF Call
<1> QED BY <1>9 DEF Kept

(* parse(): tokens, columns and penalties fit; the agenda is this parse's. *)
LEMMA SoundParse ==
  ASSUME SInv, NEW t \in Taggers,
         NEW ok \in BOOLEAN, Parse(t, ok)
  PROVE  Kept(t)
<1>t. /\ tg \in [Taggers -> Sentences] /\ client \in [Taggers -> Contexts]
      /\ misused \in BOOLEAN
  BY Typed DEF SInv, IInv
<1>s. /\ tg[t] \in Sentences /\ tg[t] \in Noted /\ client[t] \in Contexts
      /\ tg[t].tokens \in Nat /\ tg[t].rows \in Nat /\ tg[t].nbest \in Nat
      /\ tg[t].width \in Nat /\ tg[t].ysize \in Nat /\ tg[t].vlevel \in Nat
      /\ tg[t].built \in Nat
  <2>1. tg[t] \in Sentences /\ client[t] \in Contexts
    BY <1>t
  <2> QED BY <2>1, Numbers
<1>b. Blank(tg[t])
  BY DEF SInv
<1>w. ~misused => Whole(tg[t], client[t])
  BY DEF SInv
<1>k. ~misused /\ client[t].opened => /\ Usable(tg[t].index) /\ Usable(tg[t].alloc)
                                      /\ ~TokensFault(tg[t])
                                      /\ tg[t].columns \subseteq {tg[t].index}
  BY <1>w DEF SInv, IInv, OwnedOnce, Usable, TokensFault, Whole
<1> DEFINE s == IF ok THEN Parsed(tg[t]) ELSE tg[t]
           c == IF ok THEN Answered(client[t], tg[t], tg[t].tokens)
                      ELSE Unread(client[t])
           broken == ~client[t].opened
           faulty == IF ok THEN ParseFault(tg[t]) ELSE BuildFault(tg[t])
<1>1. Call(t, broken, faulty, s, c)
  BY DEF Parse
<1>2. ~misused /\ ~broken => ~faulty
  BY <1>s, <1>k, <1>w DEF ParseFault, BuildFault, Whole
<1>3. /\ s.tokens = tg[t].tokens /\ s.rows = tg[t].rows
      /\ s.width = tg[t].width /\ s.ysize = tg[t].ysize
      /\ s.homes = tg[t].homes /\ s.columns = tg[t].columns
      /\ s.alloc = tg[t].alloc /\ s.index = tg[t].index
      /\ ok /\ tg[t].nbest > 0 /\ tg[t].tokens # 0 => s.agenda = "current"
      /\ ok /\ tg[t].tokens # 0 => s.built = s.tokens /\ s.scored
  BY <1>s, Fields, SentenceOnly DEF SamePointers
<1>4. /\ c.opened = client[t].opened
      /\ c.ranked => ok /\ tg[t].nbest > 0 /\ tg[t].tokens > 0
      /\ c.parsed => ok /\ tg[t].tokens > 0
  BY <1>s DEF Contexts, Answered, Unread
<1>5. broken \in BOOLEAN /\ faulty \in BOOLEAN
  BY <1>s DEF ParseFault, BuildFault, Usable, Contexts
<1> HIDE DEF s, c, broken, faulty
<1>6. Blank(s)
  BY <1>b, <1>3 DEF Blank
<1>7. ~misused /\ ~broken => Whole(s, c)
  BY <1>s, <1>w, <1>3, <1>4 DEF Whole, broken
<1>9. /\ tg' = tg \/ tg' = [tg EXCEPT ![t] = s]
      /\ client' = [client EXCEPT ![t] = c]
      /\ Blank(s)
      /\ ~misused' => /\ ~misused /\ ~fault'
                      /\ tg' = [tg EXCEPT ![t] = s]
                      /\ Whole(s, c)
  BY <1>t, <1>1, <1>2, <1>5, <1>6, <1>7 DEF Call
<1> QED BY <1>9 DEF Kept

(* next(): only after a parse of tokens under n-best. *)
LEMMA SoundNext ==
  ASSUME SInv, NEW t \in Taggers,
         NextBest(t)
  PROVE  Kept(t)
<1>t. /\ tg \in [Taggers -> Sentences] /\ client \in [Taggers -> Contexts]
      /\ misused \in BOOLEAN
  BY Typed DEF SInv, IInv
<1>s. /\ tg[t] \in Sentences /\ tg[t] \in Noted /\ client[t] \in Contexts
      /\ tg[t].tokens \in Nat /\ tg[t].rows \in Nat /\ tg[t].nbest \in Nat
      /\ tg[t].width \in Nat /\ tg[t].ysize \in Nat /\ tg[t].vlevel \in Nat
      /\ tg[t].built \in Nat
  <2>1. tg[t] \in Sentences /\ client[t] \in Contexts
    BY <1>t
  <2> QED BY <2>1, Numbers
<1>b. Blank(tg[t])
  BY DEF SInv
<1>w. ~misused => Whole(tg[t], client[t])
  BY DEF SInv
<1>k. ~misused /\ client[t].opened => /\ Usable(tg[t].index) /\ Usable(tg[t].alloc)
                                      /\ ~TokensFault(tg[t])
                                      /\ tg[t].columns \subseteq {tg[t].index}
  BY <1>w DEF SInv, IInv, OwnedOnce, Usable, TokensFault, Whole
<1>a. PICK a \in AgendaAfterNext(tg[t]) :
        Call(t, ~client[t].ranked, NextFault(tg[t]), [tg[t] EXCEPT !.agenda = a],
             client[t])
  BY DEF NextBest
<1> DEFINE s == [tg[t] EXCEPT !.agenda = a]
           c == client[t]
           broken == ~client[t].ranked
           faulty == NextFault(tg[t])
<1>1. Call(t, broken, faulty, s, c)
  BY <1>a
<1>2. ~misused /\ ~broken => ~faulty
  BY <1>w DEF NextFault, Whole
<1>3. /\ s.tokens = tg[t].tokens /\ s.rows = tg[t].rows
      /\ s.width = tg[t].width /\ s.ysize = tg[t].ysize
      /\ s.built = tg[t].built /\ s.scored = tg[t].scored
      /\ s.homes = tg[t].homes /\ s.columns = tg[t].columns
      /\ s.alloc = tg[t].alloc /\ s.index = tg[t].index
      /\ tg[t].agenda \in {"current", "empty"} => s.agenda \in {"current", "empty"}
  BY <1>s DEF Sentences, AgendaAfterNext
<1>5. broken \in BOOLEAN /\ faulty \in BOOLEAN
  BY <1>s DEF NextFault, Contexts
<1> HIDE DEF s, c, broken, faulty
<1>6. Blank(s)
  BY <1>b, <1>3 DEF Blank
<1>7. ~misused => Whole(s, c)
  BY <1>s, <1>w, <1>3 DEF Whole, c
<1>9. /\ tg' = tg \/ tg' = [tg EXCEPT ![t] = s]
      /\ client' = [client EXCEPT ![t] = c]
      /\ Blank(s)
      /\ ~misused' => /\ ~misused /\ ~fault'
                      /\ tg' = [tg EXCEPT ![t] = s]
                      /\ Whole(s, c)
  BY <1>t, <1>1, <1>2, <1>5, <1>6, <1>7 DEF Call
<1> QED BY <1>9 DEF Kept

(* toString(): the same, if it prints n-best results. *)
LEMMA SoundToString ==
  ASSUME SInv, NEW t \in Taggers,
         TaggerToString(t)
  PROVE  Kept(t)
<1>t. /\ tg \in [Taggers -> Sentences] /\ client \in [Taggers -> Contexts]
      /\ misused \in BOOLEAN
  BY Typed DEF SInv, IInv
<1>s. /\ tg[t] \in Sentences /\ tg[t] \in Noted /\ client[t] \in Contexts
      /\ tg[t].tokens \in Nat /\ tg[t].rows \in Nat /\ tg[t].nbest \in Nat
      /\ tg[t].width \in Nat /\ tg[t].ysize \in Nat /\ tg[t].vlevel \in Nat
      /\ tg[t].built \in Nat
  <2>1. tg[t] \in Sentences /\ client[t] \in Contexts
    BY <1>t
  <2> QED BY <2>1, Numbers
<1>b. Blank(tg[t])
  BY DEF SInv
<1>w. ~misused => Whole(tg[t], client[t])
  BY DEF SInv
<1>k. ~misused /\ client[t].opened => /\ Usable(tg[t].index) /\ Usable(tg[t].alloc)
                                      /\ ~TokensFault(tg[t])
                                      /\ tg[t].columns \subseteq {tg[t].index}
  BY <1>w DEF SInv, IInv, OwnedOnce, Usable, TokensFault, Whole
<1>a. PICK s \in AfterToString(tg[t]) :
        Call(t, \/ ~client[t].opened
                \/ tg[t].nbest > 0 /\ ~client[t].ranked
                \/ tg[t].vlevel > 0 /\ ~client[t].parsed,
             ToStringFault(tg[t]), s, client[t])
  BY DEF TaggerToString
<1> DEFINE c == client[t]
           broken == \/ ~client[t].opened
                     \/ tg[t].nbest > 0 /\ ~client[t].ranked
                     \/ tg[t].vlevel > 0 /\ ~client[t].parsed
           faulty == ToStringFault(tg[t])
<1>1. Call(t, broken, faulty, s, c)
  BY <1>a
<1>2. ~misused /\ ~broken => ~faulty
  <2>1. ~misused /\ client[t].ranked => ~NextFault(tg[t])
    BY <1>w DEF NextFault, Whole
  <2>2. ASSUME ~misused, client[t].parsed PROVE ~NodesFault(tg[t]) /\ tg[t].scored
    <3>1. /\ client[t].opened /\ tg[t].built = tg[t].tokens /\ tg[t].scored
          /\ tg[t].homes \subseteq {tg[t].alloc}
      BY <1>w, <2>2 DEF Whole
    <3> QED BY <1>s, <1>k, <2>2, <3>1 DEF NodesFault, Usable
  <2> QED BY <1>s, <1>k, <2>1, <2>2 DEF ToStringFault
<1>3. /\ s.tokens = tg[t].tokens /\ s.rows = tg[t].rows
      /\ s.width = tg[t].width /\ s.ysize = tg[t].ysize
      /\ s.built = tg[t].built /\ s.scored = tg[t].scored
      /\ s.homes = tg[t].homes /\ s.columns = tg[t].columns
      /\ s.alloc = tg[t].alloc /\ s.index = tg[t].index
      /\ tg[t].agenda \in {"current", "empty"} => s.agenda \in {"current", "empty"}
  BY <1>s, <1>a, Fields, SentenceOnly DEF SamePointers
<1>5. broken \in BOOLEAN /\ faulty \in BOOLEAN
  BY <1>s DEF ToStringFault, TokensFault, NodesFault, Contexts
<1> HIDE DEF c, broken, faulty
<1>6. Blank(s)
  BY <1>b, <1>3 DEF Blank
<1>7. ~misused => Whole(s, c)
  BY <1>s, <1>w, <1>3 DEF Whole, c
<1>9. /\ tg' = tg \/ tg' = [tg EXCEPT ![t] = s]
      /\ client' = [client EXCEPT ![t] = c]
      /\ Blank(s)
      /\ ~misused' => /\ ~misused /\ ~fault'
                      /\ tg' = [tg EXCEPT ![t] = s]
                      /\ Whole(s, c)
  BY <1>t, <1>1, <1>2, <1>5, <1>6, <1>7 DEF Call
<1> QED BY <1>9 DEF Kept

(* parse(text): clear, add, parse and toString in one call. *)
LEMMA SoundParseText ==
  ASSUME SInv, NEW t \in Taggers,
         \E n \in 0 .. MaxTokens, outcome \in {"answered", "unparsed", "unread"} :
           ParseText(t, n, outcome)
  PROVE  Kept(t)
<1>t. /\ tg \in [Taggers -> Sentences] /\ client \in [Taggers -> Contexts]
      /\ misused \in BOOLEAN
  BY Typed DEF SInv, IInv
<1>s. /\ tg[t] \in Sentences /\ tg[t] \in Noted /\ client[t] \in Contexts
      /\ tg[t].tokens \in Nat /\ tg[t].rows \in Nat /\ tg[t].nbest \in Nat
      /\ tg[t].width \in Nat /\ tg[t].ysize \in Nat /\ tg[t].vlevel \in Nat
      /\ tg[t].built \in Nat
  <2>1. tg[t] \in Sentences /\ client[t] \in Contexts
    BY <1>t
  <2> QED BY <2>1, Numbers
<1>b. Blank(tg[t])
  BY DEF SInv
<1>w. ~misused => Whole(tg[t], client[t])
  BY DEF SInv
<1>k. ~misused /\ client[t].opened => /\ Usable(tg[t].index) /\ Usable(tg[t].alloc)
                                      /\ ~TokensFault(tg[t])
                                      /\ tg[t].columns \subseteq {tg[t].index}
  BY <1>w DEF SInv, IInv, OwnedOnce, Usable, TokensFault, Whole
<1>i. PICK n \in 0 .. MaxTokens, outcome \in {"answered", "unparsed", "unread"} :
        ParseText(t, n, outcome)
  OBVIOUS
<1>n. n \in Nat
  BY TaggerAssumption
<1> DEFINE clean == Cleared(tg[t])
           read == Added(clean, n)
           parsed == Parsed(read)
           reads == \/ ClearFault(tg[t])
                    \/ (n > 0 \/ outcome = "unread") /\ AddFault(clean)
           over == Overrun(clean, n)
<1>1. /\ clean \in Noted /\ SamePointers(clean, tg[t])
      /\ clean.tokens = 0 /\ clean.homes = {} /\ clean.columns = {}
      /\ clean.rows = tg[t].rows /\ clean.nbest = tg[t].nbest
      /\ clean.width = tg[t].width /\ clean.ysize = tg[t].ysize /\ clean.scored
  <2>1. clean \in Noted
    BY <1>s, Results, SentenceNoted
  <2> QED BY <1>s, <2>1, Fields, SentenceOnly
<1>2. /\ read \in Noted /\ SamePointers(read, tg[t])
      /\ read.tokens = n /\ read.rows = tg[t].rows /\ read.nbest = tg[t].nbest
      /\ read.width = tg[t].width /\ read.ysize = tg[t].ysize /\ read.scored
      /\ read.homes \subseteq {tg[t].alloc} /\ read.columns \subseteq {tg[t].index}
      /\ n = 0 => read.homes = {} /\ read.columns = {}
  <2> HIDE DEF clean
  <2>1. read \in Noted
    BY <1>n, <1>1, AddedNoted
  <2>2. SamePointers(read, clean)
    BY <1>n, <1>1, SentenceOnly
  <2>3. /\ read.tokens = 0 + n /\ read.rows = tg[t].rows /\ read.nbest = tg[t].nbest
        /\ read.width = tg[t].width /\ read.ysize = tg[t].ysize /\ read.scored
        /\ n = 0 => read.homes = {} /\ read.columns = {}
        /\ n > 0 => /\ read.homes = {} \cup {clean.alloc}
                    /\ read.columns = {} \cup {clean.index}
    BY <1>n, <1>1, Fields
  <2> HIDE DEF read
  <2>4. clean.alloc = tg[t].alloc /\ clean.index = tg[t].index /\ SamePointers(read, tg[t])
    BY <1>1, <2>2 DEF SamePointers
  <2>5. read.homes \subseteq {tg[t].alloc} /\ read.columns \subseteq {tg[t].index}
    BY <1>n, <2>3, <2>4
  <2> QED BY <1>n, <2>1, <2>3, <2>4, <2>5
<1>3. /\ parsed \in Noted /\ SamePointers(parsed, tg[t])
      /\ parsed.tokens = n /\ parsed.rows = tg[t].rows /\ parsed.nbest = tg[t].nbest
      /\ parsed.homes = read.homes /\ parsed.columns = read.columns
      /\ parsed.width = tg[t].width /\ parsed.ysize = tg[t].ysize
      /\ parsed.scored /\ (n # 0 => parsed.built = n)
      /\ tg[t].nbest > 0 /\ n # 0 => parsed.agenda = "current"
  <2> HIDE DEF read
  <2> QED BY <1>2, ParsedNoted, Fields, SentenceOnly DEF SamePointers
<1>4. ~misused /\ client[t].opened => ~reads
  BY <1>k, <1>1 DEF ClearFault, AddFault, SamePointers
<1>5. ~over => ~(tg[t].rows > 0 /\ n > tg[t].rows)
  BY <1>n, <1>1 DEF Overrun
<1>6. ~misused /\ client[t].opened /\ ~over => ~ParseFault(read) /\ ~BuildFault(read)
  <2> HIDE DEF read, over
  <2> QED BY <1>s, <1>n, <1>k, <1>w, <1>2, <1>5
          DEF ParseFault, BuildFault, TokensFault, Usable, SamePointers, Whole
<1>m. n = 0 => parsed.built = 0
  <2>1. clean.built = 0
    BY <1>s DEF Sentences, Cleared
  <2>2. read.built = 0
    <3> HIDE DEF clean
    <3> QED BY <1>1, <2>1 DEF Noted, Added
  <2> HIDE DEF clean, read
  <2> QED BY <1>2, <2>2 DEF Parsed
<1>7. ~misused /\ client[t].opened /\ ~(n = 0 /\ tg[t].nbest > 0)
        => ~ToStringFault(parsed)
  <2> HIDE DEF parsed, read
  <2>1. ASSUME ~misused, client[t].opened PROVE ~NodesFault(parsed) /\ ~TokensFault(parsed)
    BY <1>s, <1>n, <1>k, <1>m, <1>2, <1>3, <2>1
       DEF NodesFault, TokensFault, Usable, SamePointers
  <2>2. ASSUME n # 0, tg[t].nbest > 0 PROVE ~NextFault(parsed)
    BY <1>3, <2>2 DEF NextFault
  <2> QED BY <1>s, <1>n, <1>3, <2>1, <2>2 DEF ToStringFault
<1> HIDE DEF clean, read, parsed, reads, over
<1>8. CASE outcome = "answered"
  <2>1. PICK s \in AfterToString(parsed) :
          Call(t, (~client[t].opened \/ over) \/ (n = 0 /\ tg[t].nbest > 0),
               reads \/ ParseFault(read) \/ ToStringFault(parsed), s,
               Answered(client[t], tg[t], n))
    BY <1>i, <1>8 DEF ParseText, clean, read, parsed, reads, over
  <2> DEFINE c == Answered(client[t], tg[t], n)
             broken == (~client[t].opened \/ over) \/ (n = 0 /\ tg[t].nbest > 0)
             faulty == reads \/ ParseFault(read) \/ ToStringFault(parsed)
  <2>2. /\ s.tokens = n /\ s.homes = parsed.homes /\ s.columns = parsed.columns
        /\ s.rows = tg[t].rows /\ SamePointers(s, tg[t])
        /\ s.width = tg[t].width /\ s.ysize = tg[t].ysize
        /\ s.scored /\ (n # 0 => s.built = n)
        /\ tg[t].nbest > 0 /\ n # 0 => s.agenda \in {"current", "empty"}
    BY <1>3, <2>1, Fields, SentenceOnly DEF SamePointers
  <2>3. /\ c.opened = client[t].opened /\ (c.ranked => tg[t].nbest > 0 /\ n > 0)
        /\ c.parsed => n > 0
    BY <1>s DEF Contexts, Answered
  <2>4. ~misused /\ ~broken => ~faulty
    BY <1>4, <1>6, <1>7
  <2>5. broken \in BOOLEAN /\ faulty \in BOOLEAN
    OBVIOUS
  <2>6. Blank(s)
    BY <1>2, <1>3, <2>2 DEF Blank
  <2>7. ~misused /\ ~broken => Whole(s, c)
    <3>1. ~broken => client[t].opened /\ ~over
      OBVIOUS
    <3> HIDE DEF c, broken
    <3> QED BY <1>s, <1>n, <1>w, <1>2, <1>3, <1>5, <2>2, <2>3, <3>1
            DEF Whole, SamePointers
  <2>8. Call(t, broken, faulty, s, c)
    BY <2>1
  <2> HIDE DEF c, broken, faulty
  <2>9. /\ tg' = tg \/ tg' = [tg EXCEPT ![t] = s]
        /\ client' = [client EXCEPT ![t] = c]
        /\ Blank(s)
        /\ ~misused' => /\ ~misused /\ ~fault'
                        /\ tg' = [tg EXCEPT ![t] = s]
                        /\ Whole(s, c)
    BY <1>t, <2>4, <2>5, <2>6, <2>7, <2>8 DEF Call
  <2> QED BY <2>9 DEF Kept
<1>9. CASE outcome \in {"unparsed", "unread"}
  <2> DEFINE c == Unread(client[t])
             broken == ~client[t].opened \/ over
             faulty == IF outcome = "unread" THEN reads ELSE reads \/ BuildFault(read)
  <2>1. Call(t, broken, faulty, read, c)
    BY <1>i, <1>9 DEF ParseText, clean, read, reads, over
  <2>2. ~c.ranked /\ ~c.parsed /\ c.opened = client[t].opened
    BY <1>s DEF Contexts, Unread
  <2>3. ~misused /\ ~broken => ~faulty
    BY <1>4, <1>6
  <2>4. broken \in BOOLEAN /\ faulty \in BOOLEAN
    BY DEF reads
  <2>5. Blank(read)
    BY <1>2 DEF Blank
  <2>6. ~misused /\ ~broken => Whole(read, c)
    <3>1. ~broken => ~over
      OBVIOUS
    <3> HIDE DEF c, broken
    <3> QED BY <1>s, <1>n, <1>w, <1>2, <1>5, <2>2, <3>1 DEF Whole, SamePointers
  <2> HIDE DEF c, broken, faulty
  <2>9. /\ tg' = tg \/ tg' = [tg EXCEPT ![t] = read]
        /\ client' = [client EXCEPT ![t] = c]
        /\ Blank(read)
        /\ ~misused' => /\ ~misused /\ ~fault'
                        /\ tg' = [tg EXCEPT ![t] = read]
                        /\ Whole(read, c)
    BY <1>t, <2>1, <2>3, <2>4, <2>5, <2>6 DEF Call
  <2> QED BY <2>9 DEF Kept
<1> QED BY <1>8, <1>9

(* The node functions: only after a parse, and before the next token. *)
LEMMA SoundInspect ==
  ASSUME SInv, NEW t \in Taggers,
         Inspect(t)
  PROVE  Kept(t)
<1>t. /\ tg \in [Taggers -> Sentences] /\ client \in [Taggers -> Contexts]
      /\ misused \in BOOLEAN
  BY Typed DEF SInv, IInv
<1>b. Blank(tg[t])
  BY DEF SInv
<1>w. ~misused => Whole(tg[t], client[t])
  BY DEF SInv
<1>1. Call(t, ~client[t].parsed, NodesFault(tg[t]), tg[t], client[t])
  BY DEF Inspect
<1>2. ASSUME ~misused, client[t].parsed PROVE ~NodesFault(tg[t])
  <2>1. /\ client[t].opened /\ tg[t].built = tg[t].tokens
        /\ tg[t].homes \subseteq {tg[t].alloc} /\ tg[t].columns \subseteq {tg[t].index}
    BY <1>w, <1>2 DEF Whole
  <2>2. Usable(tg[t].alloc)
    BY <1>2, <2>1 DEF SInv, IInv, OwnedOnce
  <2>3. tg[t].tokens \in Nat
    BY <1>t, Numbers
  <2> QED BY <2>1, <2>2, <2>3 DEF NodesFault, Usable
<1>3. NodesFault(tg[t]) \in BOOLEAN
  BY DEF NodesFault
<1>9. /\ tg' = tg \/ tg' = [tg EXCEPT ![t] = tg[t]]
      /\ client' = [client EXCEPT ![t] = client[t]]
      /\ Blank(tg[t])
      /\ ~misused' => /\ ~misused /\ ~fault'
                      /\ tg' = [tg EXCEPT ![t] = tg[t]]
                      /\ Whole(tg[t], client[t])
  BY <1>t, <1>b, <1>w, <1>1, <1>2, <1>3 DEF Call
<1> QED BY <1>9 DEF Kept

(* All the calls. *)
LEMMA SoundStep == SInv /\ [Next]_vars => SInv'
<1> SUFFICES ASSUME SInv, [Next]_vars PROVE SInv'
  OBVIOUS
<1>o. IInv'
  BY OwnedStep DEF SInv
<1>1. ASSUME NEW t \in Taggers,
             \/ CreateTagger(t) \/ Close(t) \/ DeleteTagger(t)
             \/ \E ok \in BOOLEAN : Open(t, ok)
             \/ \E m \in Models : CreateFromModel(t, m) \/ SetModel(t, m)
             \/ \E n \in NBests : SetNbest(t, n)
             \/ \E v \in Vlevels : SetVlevel(t, v)
             \/ RefusedOpen(t)
             \/ \E ok \in BOOLEAN : Parse(t, ok)
             \/ Clear(t) \/ Add(t) \/ NextBest(t) \/ TaggerToString(t) \/ Inspect(t)
             \/ \E i \in 0 .. MaxTokens - 1, j \in 0 .. MaxTags - 1 :
                  SetPenalty(t, i, j)
             \/ \E n \in 0 .. MaxTokens, outcome \in {"answered", "unparsed", "unread"} :
                  ParseText(t, n, outcome)
      PROVE  Kept(t)
  BY <1>1, SoundPointers, SoundClear, SoundAdd, SoundSetPenalty, SoundParse,
     SoundNext, SoundToString, SoundParseText, SoundInspect
<1>2. ASSUME NEW m \in Models, DeleteModel(m) \/ \E ok \in BOOLEAN : OpenModel(m, ok)
      PROVE  SInv'
  <2>1. tg' = tg /\ client' = client /\ fault' = fault /\ (misused => misused')
    BY <1>2 DEF DeleteModel, OpenModel
  <2> QED BY <1>o, <2>1 DEF SInv, FaultsAreMisuse
<1>3. CASE Next
  BY <1>o, <1>1, <1>2, <1>3, KeptIsEnough DEF Next
<1>4. CASE UNCHANGED vars
  BY <1>o, <1>4 DEF vars, SInv, FaultsAreMisuse
<1> QED BY <1>3, <1>4

(* A client that keeps the rules of use never makes a call that reads or   *)
(* writes what it may not.                                                 *)
THEOREM Soundness == Spec => []FaultsAreMisuse
<1>1. SInv => FaultsAreMisuse
  BY DEF SInv
<1> QED BY <1>1, SoundInit, SoundStep, PTL DEF Spec
=============================================================================
