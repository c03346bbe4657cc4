-------------------------------- MODULE Mira --------------------------------
(***************************************************************************)
(* runMIRA (encoder.cpp).  A pass walks over the sentences, tags each one  *)
(* with the current weights and moves the weights towards the answer; a    *)
(* sentence may move them by at most C over the whole training.  Sentences *)
(* that have been right shrinking_size times in a row are skipped until a  *)
(* pass finds nothing to improve; two such passes one after the other end  *)
(* the training.                                                           *)
(*                                                                         *)
(* The step mu is a number of units of weight; 0 stands for a positive one *)
(* too small to be applied.  Which sentences are right, and how large a    *)
(* step is asked for, is free: it depends on the weights and the features. *)
(***************************************************************************)
EXTENDS Integers

CONSTANTS N,               \* the number of sentences
          C,               \* the cost factor, in units of weight
          shrinking_size,
          CharSize,        \* values of an unsigned char; 256 in the code
          maxitr

ASSUME CorpusAssumption == N \in Nat /\ maxitr \in Nat
ASSUME CostAssumption == C \in Nat
ASSUME ShrinkingAssumption == shrinking_size \in Nat \ {0} /\ CharSize \in Nat \ {0}

Sentences == 0 .. N - 1
Outcomes == {"unseen", "correct", "margin", "improved", "capped"}

VARIABLES
    status,        \* "pass" or "done"
    itr, sentence, \* the pass, and the sentence it is at: i in the code
    shrink,        \* a counter per sentence
    upper_bound,   \* how far a sentence has moved the weights
    converge,
    kkt,           \* max_kkt_violation > 0
    alpha,         \* history: what each sentence has added to the weights
    right,         \* history: how often in a row it has been right, unbounded
    seen           \* history: when it was last looked at, and the outcome

miraVars == <<status, itr, sentence, shrink, upper_bound, converge, kkt, alpha, right, seen>>

MiraInit ==
    /\ status = IF maxitr = 0 THEN "done" ELSE "pass"
    /\ itr = 0 /\ sentence = 0
    /\ shrink = [s \in Sentences |-> 0]
    /\ upper_bound = [s \in Sentences |-> 0]
    /\ converge = 0
    /\ kkt = FALSE
    /\ alpha = [s \in Sentences |-> 0]
    /\ right = [s \in Sentences |-> 0]
    /\ seen = [s \in Sentences |-> [itr |-> 0, outcome |-> "unseen"]]

-----------------------------------------------------------------------------
(* One sentence. *)

Skip ==
    /\ status = "pass" /\ sentence < N
    /\ shrink[sentence] >= shrinking_size
    /\ sentence' = sentence + 1
    /\ UNCHANGED <<status, itr, shrink, upper_bound, converge, kkt, alpha, right, seen>>

\* collins() tags the sentence and eval() counts its errors.
Examine(outcome) ==
    /\ status = "pass" /\ sentence < N
    /\ shrink[sentence] < shrinking_size
    /\ seen' = [seen EXCEPT ![sentence] = [itr |-> itr, outcome |-> outcome]]
    /\ sentence' = sentence + 1
    /\ UNCHANGED <<status, itr, converge>>

Correct ==
    /\ Examine("correct")
    /\ shrink' = [shrink EXCEPT ![sentence] = (@ + 1) % CharSize]
    /\ right' = [right EXCEPT ![sentence] = @ + 1]
    /\ UNCHANGED <<upper_bound, kkt, alpha>>

\* The counter goes on from where it is.
WrongKeepsCounter ==
    /\ UNCHANGED shrink
    /\ right' = [right EXCEPT ![sentence] = 0]

Wrong ==
    /\ shrink' = [shrink EXCEPT ![sentence] = 0]
    /\ right' = [right EXCEPT ![sentence] = 0]

\* The answer already costs more than its errors: mu is 0.
MarginMet ==
    /\ Examine("margin")
    /\ Wrong
    /\ UNCHANGED <<upper_bound, kkt, alpha>>

\* The whole step fits below C.
Improve ==
    /\ Examine("improved")
    /\ Wrong
    /\ kkt' = TRUE
    /\ \E mu \in 0 .. C - upper_bound[sentence] :
          /\ upper_bound' = [upper_bound EXCEPT ![sentence] = @ + mu]
          /\ alpha' = [alpha EXCEPT ![sentence] = @ + mu]

\* mu is applied as it is; upper_bound is cut all the same.
CapBoundOnly ==
    /\ Examine("capped")
    /\ Wrong
    /\ \E mu \in C - upper_bound[sentence] + 1 .. C + 1 :
          alpha' = [alpha EXCEPT ![sentence] = @ + mu]
    /\ upper_bound' = [upper_bound EXCEPT ![sentence] = C]
    /\ UNCHANGED kkt

\* The step is cut to what is left below C; that is no violation.
Cap ==
    /\ Examine("capped")
    /\ Wrong
    /\ upper_bound' = [upper_bound EXCEPT ![sentence] = C]
    /\ alpha' = [alpha EXCEPT ![sentence] = @ + (C - upper_bound[sentence])]
    /\ UNCHANGED kkt

-----------------------------------------------------------------------------
(* The end of a pass. *)

\* Sentences that were skipped stay skipped.
QuietKeepsSkipping ==
    /\ UNCHANGED <<shrink, right>>
    /\ converge' = converge + 1

\* Nothing to improve: every sentence is looked at again.
Quiet ==
    /\ shrink' = [s \in Sentences |-> 0]
    /\ right' = [s \in Sentences |-> 0]
    /\ converge' = converge + 1

Busy ==
    /\ converge' = 0
    /\ UNCHANGED <<shrink, right>>

\* The loop ends only when itr has gone past maxitr.
PassEndsLate ==
    /\ status = "pass" /\ sentence = N
    /\ IF kkt THEN Busy ELSE Quiet
    /\ IF converge' = 2 \/ itr > maxitr
       THEN status' = "done" /\ UNCHANGED <<itr, sentence>>
       ELSE itr' = itr + 1 /\ sentence' = 0 /\ UNCHANGED status
    /\ kkt' = FALSE
    /\ UNCHANGED <<upper_bound, alpha, seen>>

PassEnds ==
    /\ status = "pass" /\ sentence = N
    /\ IF kkt THEN Busy ELSE Quiet
    /\ IF converge' = 2 \/ itr + 1 = maxitr
       THEN status' = "done" /\ UNCHANGED <<itr, sentence>>
       ELSE itr' = itr + 1 /\ sentence' = 0 /\ UNCHANGED status
    /\ kkt' = FALSE
    /\ UNCHANGED <<upper_bound, alpha, seen>>

\* runMIRA has returned; this keeps TLC from calling it a deadlock.
Returned == status = "done" /\ UNCHANGED miraVars

MiraNext == Skip \/ Correct \/ MarginMet \/ Improve \/ Cap \/ PassEnds \/ Returned

MiraSpec == MiraInit /\ [][MiraNext]_miraVars

-----------------------------------------------------------------------------

MiraTypeOK ==
    /\ status \in {"pass", "done"}
    /\ itr \in 0 .. maxitr /\ (status = "pass" => itr < maxitr)
    /\ sentence \in 0 .. N
    /\ shrink \in [Sentences -> 0 .. CharSize - 1]
    /\ upper_bound \in [Sentences -> 0 .. C]
    /\ converge \in 0 .. 2 /\ (status = "pass" => converge < 2)
    /\ kkt \in BOOLEAN
    /\ alpha \in [Sentences -> Nat]
    /\ right \in [Sentences -> Nat]
    /\ seen \in [Sentences -> [itr : 0 .. maxitr, outcome : Outcomes]]

(***************************************************************************)
(* When the training ends because it has converged, its last pass looked   *)
(* at every sentence, the ones shrinking had put aside included, and each  *)
(* was right, had its margin met, or was at its bound C after the pass: a  *)
(* step that would cross C is cut, and moves the weights by what was left  *)
(* (encoder.cpp:152-165), but counts as no violation.                      *)
(***************************************************************************)
ConvergedSawAll ==
    status = "done" /\ converge = 2 =>
        \A s \in Sentences :
            seen[s].itr = itr /\ seen[s].outcome \in {"correct", "margin", "capped"}

(***************************************************************************)
(* What a sentence has added to the weights over all passes is what its    *)
(* upper_bound says, and so never more than C.                             *)
(***************************************************************************)
WeightIsBound == \A s \in Sentences : alpha[s] = upper_bound[s]

(***************************************************************************)
(* A sentence is skipped exactly when it was right the last shrinking_size *)
(* times it was looked at, with no pass in between that improved nothing.  *)
(* True only while shrinking_size is a value of an unsigned char.          *)
(***************************************************************************)
SkippedIffOptimal ==
    \A s \in Sentences : shrink[s] >= shrinking_size <=> right[s] >= shrinking_size

=============================================================================
