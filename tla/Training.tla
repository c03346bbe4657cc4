------------------------------ MODULE Training ------------------------------
(***************************************************************************)
(* What Encoder::learn promises when it trains with CRF-L1 or CRF-L2: the  *)
(* parameter estimation of a textbook, with one thread and no memory       *)
(* management.  The sentences are loaded; then an iteration evaluates the  *)
(* gradient once per sentence, all of it at the current weights, and the   *)
(* optimizer replaces the weights, until the objective has settled three   *)
(* times in a row or maxitr iterations are over.                           *)
(*                                                                         *)
(* Weights are versions: w counts how often the optimizer has changed      *)
(* them.  grad is the gradient the optimizer is handed, as the number of   *)
(* times each (sentence, version) has been added to it.                    *)
(***************************************************************************)
EXTENDS Integers

CONSTANTS MaxSents, \* sentences a training file can hold
          maxitr    \* the option -m

VARIABLES n,        \* sentences loaded
          status, w, itr, converge, grad

vars == <<n, status, w, itr, converge, grad>>

Contributions == (0 .. MaxSents - 1) \X (0 .. maxitr)

Nothing == [c \in Contributions |-> 0]

\* The sum of every loaded sentence's gradient at the current weights.
Total == [c \in Contributions |-> IF c[1] < n /\ c[2] = w THEN 1 ELSE 0]

Init ==
    /\ n = 0
    /\ status = "loading"
    /\ w = 0
    /\ itr = 0
    /\ converge = 0
    /\ grad = Nothing

Load ==
    /\ status = "loading"
    /\ n < MaxSents
    /\ n' = n + 1
    /\ UNCHANGED <<status, w, itr, converge, grad>>

StartTraining ==
    /\ status = "loading"
    /\ status' = IF maxitr = 0 THEN "trained" ELSE "iterating"
    /\ UNCHANGED <<n, w, itr, converge, grad>>

Evaluate ==
    /\ status = "iterating"
    /\ status' = "evaluated"
    /\ grad' = Total
    /\ UNCHANGED <<n, w, itr, converge>>

\* The objective moved by less than eta, or not; three times less is enough.
Settled(small) == IF small THEN converge + 1 ELSE 0

Converge ==
    /\ status = "evaluated"
    /\ Settled(TRUE) = 3
    /\ converge' = 3
    /\ status' = "trained"
    /\ grad' = Nothing
    /\ UNCHANGED <<n, w, itr>>

Improve ==
    /\ status = "evaluated"
    /\ \E small \in BOOLEAN :
         /\ Settled(small) # 3
         /\ converge' = Settled(small)
    /\ w' = w + 1
    /\ itr' = itr + 1
    /\ status' = IF itr' < maxitr THEN "iterating" ELSE "trained"
    /\ grad' = Nothing
    /\ UNCHANGED n

\* A sentence that cannot be read, or an optimizer that gives up.
Fail ==
    /\ status \in {"loading", "evaluated"}
    /\ status' = "failed"
    /\ converge' \in 0 .. 2
    /\ grad' = Nothing
    /\ UNCHANGED <<n, w, itr>>

Next ==
    \/ Load
    \/ StartTraining
    \/ Evaluate
    \/ Converge
    \/ Improve
    \/ Fail

Spec == Init /\ [][Next]_vars

=============================================================================
