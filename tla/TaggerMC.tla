------------------------------ MODULE TaggerMC ------------------------------
(***************************************************************************)
(* Two taggers and a model; the object identities are numbers.             *)
(***************************************************************************)
EXTENDS Tagger, TLC

\* The options are the defaults, and -n was not used before either.
Default == \A s \in {tg[t] : t \in Taggers} :
             s.nbest = 0 /\ s.vlevel = 0 /\ s.agenda = "null"

\* Models have one tag, and nobody sets a penalty.
Plain ==
  /\ \A s \in {tg[t] : t \in Taggers} \cup {model[m] : m \in Models} : s.ysize < 2
  /\ \A t \in Taggers : tg[t].rows = 0

\* A lone tagger needs a second allocator when it is opened again.
Alone(t) == /\ \A u \in Taggers \ {t} : tg[u].mode = "none"
            /\ live \cap Allocators \subseteq {11, 12}

Touched(t) == tg[t].tokens > 0 \/ tg[t].rows > 0

(***************************************************************************)
(* The bounds.  A client that has broken a rule is not followed any        *)
(* further.  A model has the default options, since set_nbest and          *)
(* set_vlevel give a tagger any others.  Other options, and penalties with *)
(* models of two tags, are tried while there is one tagger, and not both.  *)
(* One tagger at a time has ever read a sentence: those of two touch       *)
(* nothing in common.                                                      *)
(***************************************************************************)
Careful ==
  /\ ~misused
  /\ \A m \in Models : model[m].nbest = 0 /\ model[m].vlevel = 0
  /\ \/ Default /\ Plain
     \/ (Default \/ Plain) /\ \E t \in Taggers : Alone(t)
  /\ \A t, u \in Taggers : Touched(t) /\ Touched(u) => t = u

Alike == Permutations(Taggers)
=============================================================================
