-------------------------- MODULE ParallelTraining --------------------------
(***************************************************************************)
(* Encoder::learn with CRF-L1 or CRF-L2 (encoder.cpp), as it runs: the     *)
(* main thread reads the sentences into x, giving the i-th one the arena   *)
(* line % thread_num; every iteration of runCRF starts thread_num worker   *)
(* threads, joins them, adds their gradients up and calls the optimizer.   *)
(*                                                                         *)
(* Worker t walks x[t], x[t + thread_num], ...  For each sentence it       *)
(* clears an arena, builds the sentence's lattice there with the costs of  *)
(* the current weights (FeatureIndex::rebuildFeatures, calcCost), and then *)
(* reads the lattice back to add its expectations to its own vector        *)
(* expected (TaggerImpl::gradient).  There is no lock anywhere: what keeps *)
(* the workers apart is that the arena's number, fixed while reading, is   *)
(* the number of the worker that will meet the sentence.                   *)
(*                                                                         *)
(* A lattice is abstracted to the sentence and the version of the weights  *)
(* it was built from; a gradient, to how often each lattice was added.     *)
(***************************************************************************)
EXTENDS Integers

CONSTANTS thread_num, \* the option -p, after getThreadSize
          maxitr,     \* the option -m
          MaxSents,   \* bound of the state space: sentences in the file
          MaxBlanks   \* bound of the state space: blank sentences in it

\* learn checks thread_num > 0 (encoder.cpp:325).
ASSUME ThreadsAssumption == thread_num \in Nat \ {0}
ASSUME IterationsAssumption == maxitr \in Nat
ASSUME BoundsAssumption == MaxSents \in Nat /\ MaxBlanks \in Nat

Threads == 0 .. thread_num - 1
Sents == 0 .. MaxSents - 1
Versions == 0 .. maxitr
Lattices == Sents \X Versions
NoLattice == <<-1, -1>>
Nothing == [l \in Lattices |-> 0]

VARIABLES
    pc,         \* where the main thread is
    k,          \* the loop counter of its loops over the threads
    n,          \* x.size()
    line,       \* sentences counted while reading
    blanks,     \* blank sentences met while reading
    thread_id,  \* the arena of each sentence in x
    deleted,    \* how often each tagger of x has been deleted
    stray,      \* taggers made by new that are not in x and that nobody deletes
    w,          \* the version of the weights alpha
    itr, converge,
    opt,        \* what lbfgs.optimize returned last
    wpc, i,     \* per worker: where it is, and the sentence it is at
    arena,      \* the lattice each arena holds
    expected    \* per worker: what it has added up

mainVars == <<pc, k>>
readVars == <<n, line, blanks, thread_id, stray>>
optVars == <<w, itr, converge, opt>>
workVars == <<wpc, i, arena, expected>>
vars == <<mainVars, readVars, deleted, optVars, workVars>>

Init ==
    /\ pc = "read"
    /\ k = 0
    /\ n = 0
    /\ line = 0
    /\ blanks = 0
    /\ thread_id = [s \in Sents |-> 0]
    /\ deleted = [s \in Sents |-> 0]
    /\ stray = 0
    /\ w = 0
    /\ itr = 0
    /\ converge = 0
    /\ opt = "none"
    /\ wpc = [t \in Threads |-> "off"]
    /\ i = [t \in Threads |-> 0]
    /\ arena = [t \in Threads |-> NoLattice]
    /\ expected = [t \in Threads |-> Nothing]

-----------------------------------------------------------------------------
(* Reading the training file. *)

\* set_thread_id left out: every tagger keeps the arena its constructor set.
DefaultArena(l) == 0

\* set_thread_id(line) without the remainder.
RawArena(l) == l

\* The arena of the sentence read when line sentences were counted.
ArenaOf(l) == l % thread_num

\* Every tagger of x is deleted once more.
DeleteAll == deleted' = [s \in Sents |-> IF s < n THEN deleted[s] + 1 ELSE deleted[s]]

\* read() and shrink() succeed and the sentence has tokens: it joins x.
ReadSentence ==
    /\ pc = "read"
    /\ n < MaxSents
    /\ n' = n + 1
    /\ thread_id' = [thread_id EXCEPT ![n] = ArenaOf(line)]
    /\ line' = line + 1
    /\ UNCHANGED <<mainVars, blanks, stray, deleted, optVars, workVars>>

\* The blank sentence is counted as well.
CountBlank ==
    /\ pc = "read"
    /\ blanks < MaxBlanks
    /\ blanks' = blanks + 1
    /\ line' = line + 1
    /\ UNCHANGED <<mainVars, n, thread_id, stray, deleted, optVars, workVars>>

\* The sentence has no token (two blank lines in a row, the end of the file):
\* its tagger is deleted and the loop goes on without counting it.
SkipBlank ==
    /\ pc = "read"
    /\ blanks < MaxBlanks
    /\ blanks' = blanks + 1
    /\ UNCHANGED <<mainVars, n, line, thread_id, stray, deleted, optVars, workVars>>

\* read() or shrink() fails: the taggers of x are deleted, learn returns false.
\* The tagger made for this sentence is not in x yet and is leaked.
ReadFails ==
    /\ pc = "read"
    /\ pc' = "failed"
    /\ DeleteAll
    /\ stray' = stray + 1
    /\ UNCHANGED <<k, n, line, blanks, thread_id, optVars, workVars>>

\* The file is over: the features are shrunk, alpha is zeroed and runCRF starts.
Prepare ==
    /\ pc = "read"
    /\ pc' = IF maxitr = 0 THEN "delete" ELSE "start"
    /\ k' = 0
    /\ w' = 0
    /\ itr' = 0
    /\ converge' = 0
    /\ UNCHANGED <<readVars, deleted, opt, workVars>>

-----------------------------------------------------------------------------
(* runCRF's main thread. *)

Start ==
    /\ pc = "start"
    /\ wpc' = [wpc EXCEPT ![k] = "begin"]
    /\ IF k + 1 < thread_num
       THEN k' = k + 1 /\ UNCHANGED pc
       ELSE k' = 0 /\ pc' = "join"
    /\ UNCHANGED <<readVars, deleted, optVars, i, arena, expected>>

\* The last thread is not waited for.
JoinAllButLast ==
    /\ pc = "join"
    /\ IF k + 1 < thread_num
       THEN /\ wpc[k] = "exited"
            /\ wpc' = [wpc EXCEPT ![k] = "off"]
            /\ k' = k + 1
            /\ UNCHANGED pc
       ELSE /\ k' = 1
            /\ pc' = "reduce"
            /\ UNCHANGED wpc
    /\ UNCHANGED <<readVars, deleted, optVars, i, arena, expected>>

Join ==
    /\ pc = "join"
    /\ wpc[k] = "exited"
    /\ wpc' = [wpc EXCEPT ![k] = "off"]
    /\ IF k + 1 < thread_num
       THEN k' = k + 1 /\ UNCHANGED pc
       ELSE k' = 1 /\ pc' = "reduce"
    /\ UNCHANGED <<readVars, deleted, optVars, i, arena, expected>>

\* thread[0] collects what thread[k] has added up.
Reduce ==
    /\ pc = "reduce"
    /\ k < thread_num
    /\ expected' = [expected EXCEPT ![0] =
                      [l \in Lattices |-> expected[0][l] + expected[k][l]]]
    /\ k' = k + 1
    /\ UNCHANGED <<pc, readVars, deleted, optVars, wpc, i, arena>>

\* The penalty term is added; the gradient is complete.
Regularize ==
    /\ pc = "reduce"
    /\ k >= thread_num
    /\ pc' = "optimize"
    /\ UNCHANGED <<k, readVars, deleted, optVars, workVars>>

\* diff < eta, or not.
Settled(small) == IF small THEN converge + 1 ELSE 0

\* The objective has settled for the third time: runCRF returns true.
Converged ==
    /\ pc = "optimize"
    /\ Settled(TRUE) = 3
    /\ converge' = 3
    /\ pc' = "delete"
    /\ UNCHANGED <<k, readVars, deleted, w, itr, opt, workVars>>

\* The objective has moved, or not, and not for the third time.
NotConverged ==
    \E small \in BOOLEAN :
        /\ Settled(small) # 3
        /\ converge' = Settled(small)

\* lbfgs.optimize returns 1: alpha holds new weights.  Without a sentence there
\* is no feature, and its first call finds nothing to search along and fails.
NextWeights ==
    /\ pc = "optimize"
    /\ n > 0
    /\ NotConverged
    /\ opt' = "next"
    /\ w' = w + 1
    /\ itr' = itr + 1
    /\ pc' = IF itr' < maxitr THEN "start" ELSE "delete"
    /\ k' = 0
    /\ UNCHANGED <<readVars, deleted, workVars>>

\* learn goes on after runCRF has returned false.
OptimizerFailsOn ==
    /\ pc = "optimize"
    /\ NotConverged
    /\ opt' = "error"
    /\ pc' = "delete"
    /\ DeleteAll
    /\ UNCHANGED <<k, readVars, w, itr, workVars>>

\* lbfgs.optimize returns -1: runCRF returns false, learn deletes the taggers
\* and returns false.
OptimizerFails ==
    /\ pc = "optimize"
    /\ NotConverged
    /\ opt' = "error"
    /\ pc' = "failed"
    /\ DeleteAll
    /\ UNCHANGED <<k, readVars, w, itr, workVars>>

\* lbfgs.optimize returns 0, "terminate": 0 <= 0, so runCRF returns false too.
\* It tests for that after a line search only, so never in its first call.
OptimizerTerminates ==
    /\ pc = "optimize"
    /\ itr > 0
    /\ NotConverged
    /\ opt' = "terminated"
    /\ pc' = "failed"
    /\ DeleteAll
    /\ UNCHANGED <<k, readVars, w, itr, workVars>>

\* Training is over: the taggers are deleted.
Delete ==
    /\ pc = "delete"
    /\ pc' = "save"
    /\ DeleteAll
    /\ UNCHANGED <<k, readVars, optVars, workVars>>

SaveSucceeds ==
    /\ pc = "save"
    /\ pc' = "done"
    /\ UNCHANGED <<k, readVars, deleted, optVars, workVars>>

\* save() fails: WHAT_ERROR walks over x, which still holds the taggers.
SaveFails ==
    /\ pc = "save"
    /\ pc' = "unsaved"
    /\ DeleteAll
    /\ UNCHANGED <<k, readVars, optVars, workVars>>

Main ==
    \/ ReadSentence
    \/ SkipBlank
    \/ ReadFails
    \/ Prepare
    \/ Start
    \/ Join
    \/ Reduce
    \/ Regularize
    \/ Converged
    \/ NextWeights
    \/ OptimizerFails
    \/ OptimizerTerminates
    \/ Delete
    \/ SaveSucceeds
    \/ SaveFails

-----------------------------------------------------------------------------
(* CRFEncoderThread::run. *)

\* expected keeps what the last iteration left in it.
BeginDirty(t) ==
    /\ wpc[t] = "begin"
    /\ i' = [i EXCEPT ![t] = t]
    /\ wpc' = [wpc EXCEPT ![t] = "loop"]
    /\ UNCHANGED <<mainVars, readVars, deleted, optVars, arena, expected>>

\* The accumulators are zeroed, and the walk begins at start_i = t.
Begin(t) ==
    /\ wpc[t] = "begin"
    /\ expected' = [expected EXCEPT ![t] = Nothing]
    /\ i' = [i EXCEPT ![t] = t]
    /\ wpc' = [wpc EXCEPT ![t] = "loop"]
    /\ UNCHANGED <<mainVars, readVars, deleted, optVars, arena>>

\* The first half of gradient(): the arena is cleared and the lattice built.
BuildLattice(t) ==
    /\ wpc[t] = "loop"
    /\ i[t] < n
    /\ arena' = [arena EXCEPT ![thread_id[i[t]]] = <<i[t], w>>]
    /\ wpc' = [wpc EXCEPT ![t] = "built"]
    /\ UNCHANGED <<mainVars, readVars, deleted, optVars, i, expected>>

\* The second half: the lattice's expectations are added up, the best path is
\* decoded, and the worker moves on to its next sentence.
Accumulate(t) ==
    LET l == arena[thread_id[i[t]]] IN
    /\ wpc[t] = "built"
    /\ expected' = [expected EXCEPT ![t][l] = @ + 1]
    /\ i' = [i EXCEPT ![t] = @ + thread_num]
    /\ wpc' = [wpc EXCEPT ![t] = "loop"]
    /\ UNCHANGED <<mainVars, readVars, deleted, optVars, arena>>

\* The walk ends at size and nowhere else.
ExitAtSize(t) ==
    /\ wpc[t] = "loop"
    /\ i[t] = n
    /\ wpc' = [wpc EXCEPT ![t] = "exited"]
    /\ UNCHANGED <<mainVars, readVars, deleted, optVars, i, arena, expected>>

Exit(t) ==
    /\ wpc[t] = "loop"
    /\ i[t] >= n
    /\ wpc' = [wpc EXCEPT ![t] = "exited"]
    /\ UNCHANGED <<mainVars, readVars, deleted, optVars, i, arena, expected>>

Worker(t) ==
    \/ Begin(t)
    \/ BuildLattice(t)
    \/ Accumulate(t)
    \/ Exit(t)

Next == Main \/ \E t \in Threads : Worker(t)

\* The operating system runs every thread that can run.
Fairness == WF_vars(Main) /\ \A t \in Threads : WF_vars(Worker(t))

Spec == Init /\ [][Next]_vars

FairSpec == Spec /\ Fairness

-----------------------------------------------------------------------------

TypeOK ==
    /\ pc \in {"read", "start", "join", "reduce", "optimize", "delete",
               "save", "done", "failed", "unsaved"}
    /\ k \in 0 .. thread_num
    /\ n \in 0 .. MaxSents
    /\ line \in Nat
    /\ blanks \in 0 .. MaxBlanks
    /\ thread_id \in [Sents -> Threads]
    /\ deleted \in [Sents -> Nat]
    /\ stray \in Nat
    /\ w \in Versions
    /\ itr \in Versions
    /\ converge \in 0 .. 3
    /\ opt \in {"none", "next", "error", "terminated"}
    /\ wpc \in [Threads -> {"off", "begin", "loop", "built", "exited"}]
    /\ i \in [Threads -> Nat]
    /\ arena \in [Threads -> Lattices \cup {NoLattice}]
    /\ expected \in [Threads -> [Lattices -> Nat]]

(***************************************************************************)
(* No two workers ever use the same arena at the same time: neither clears *)
(* or overwrites the nodes and paths the other is reading.                 *)
(***************************************************************************)
NoArenaRace ==
    \A t, u \in Threads :
        /\ t # u
        /\ wpc[t] = "built"
        /\ wpc[u] = "built"
        => thread_id[i[t]] # thread_id[i[u]]

(***************************************************************************)
(* When a worker adds up a lattice, that lattice is the one it built: its  *)
(* own sentence's, and at the weights of this iteration.                   *)
(***************************************************************************)
LatticeIntact ==
    \A t \in Threads :
        wpc[t] = "built" => arena[thread_id[i[t]]] = <<i[t], w>>

(***************************************************************************)
(* The weights every worker reads without a lock never change while one    *)
(* of them runs, and nobody adds to a gradient that is being reduced.      *)
(***************************************************************************)
WeightsFrozen ==
    [][w' # w \/ pc' \in {"reduce", "optimize"}
         => \A t \in Threads : wpc'[t] = "off"]_vars

(***************************************************************************)
(* The taggers of x are deleted only when no worker can touch them any     *)
(* more, and once learn has returned, successfully or because reading or   *)
(* training failed, each one has been deleted exactly once.  No tagger is  *)
(* lost outside of x but the one of the sentence that could not be read,   *)
(* which learn leaks: it joins x after the test (encoder.cpp:370-374).     *)
(***************************************************************************)
DeletedOnce ==
    /\ pc \notin {"save", "done", "failed", "unsaved"} =>
         \A s \in Sents : deleted[s] = 0
    /\ pc \in {"save", "done", "failed"} =>
         /\ \A s \in Sents : deleted[s] = IF s < n THEN 1 ELSE 0
         /\ \A t \in Threads : wpc[t] = "off"
    /\ stray = IF pc = "failed" /\ opt = "none" THEN 1 ELSE 0

(***************************************************************************)
(* The same without exception, as the comment above WHAT_ERROR has it,     *)
(* "make sure that x is emptied" (encoder.cpp:345): no tagger is ever      *)
(* deleted twice.  It fails when the model cannot be saved.                *)
(***************************************************************************)
NeverDeletedTwice == \A s \in Sents : deleted[s] <= 1

(***************************************************************************)
(* An optimizer that reports that it is done, "OK terminated"              *)
(* (lbfgs.cpp:564) and "terminate" (lbfgs.h:107), has found the weights:   *)
(* learn must not fail on it.  It does.                                    *)
(***************************************************************************)
TerminationIsNoFailure == ~ (opt = "terminated" /\ pc = "failed")

(***************************************************************************)
(* learn returns: no worker misses the end of its walk, and the main       *)
(* thread waits for nobody in vain.                                        *)
(***************************************************************************)
Returns == <>(pc \in {"done", "failed", "unsaved"})

(***************************************************************************)
(* The threads together do what the textbook's single loop does: every     *)
(* gradient the optimizer gets holds each sentence once, at the weights it *)
(* returned last.                                                          *)
(***************************************************************************)
Status ==
    CASE pc = "read" -> "loading"
      [] pc \in {"start", "join", "reduce"} -> "iterating"
      [] pc = "optimize" -> "evaluated"
      [] pc = "failed" -> "failed"
      [] OTHER -> "trained"

Sequential == INSTANCE Training WITH
    status <- Status,
    grad <- IF pc = "optimize" THEN expected[0] ELSE Nothing

TrainsSequentially == Sequential!Spec

=============================================================================
