----------------------- MODULE ParallelTrainingProofs -----------------------
(***************************************************************************)
(* Parallel training is safe for every number of threads, sentences and    *)
(* iterations, and does what Training promises.                            *)
(*                                                                         *)
(* The argument: sentence s is given arena s % thread_num (Assigned), and  *)
(* a worker t that walks t, t + thread_num, ... only meets sentences whose *)
(* remainder is t (Walking), so it works in arena t and nowhere else.      *)
(* Phases says which workers can be running while the main thread is       *)
(* where it is; Counting, what each of them has added up so far.           *)
(***************************************************************************)
EXTENDS ParallelTraining, TLAPS

-----------------------------------------------------------------------------
(* Remainders. *)

\* The remainder and the quotient of a division.
LEMMA DivMod ==
    ASSUME NEW T \in Nat \ {0}, NEW a \in Nat
    PROVE  a \div T \in Int /\ a % T \in 0 .. T - 1 /\ a = (a \div T) * T + (a % T)
OBVIOUS

\* The only multiple of T between -T and T is zero.
LEMMA SmallMultiple ==
    ASSUME NEW T \in Nat \ {0}, NEW m \in Int, m * T < T, -T < m * T
    PROVE  m = 0
<1>1. m <= 0
    <2> SUFFICES ASSUME m >= 1 PROVE FALSE
        OBVIOUS
    <2>1. m * T >= T
        OBVIOUS
    <2> QED
        BY <2>1
<1>2. m >= 0
    <2> SUFFICES ASSUME m <= -1 PROVE FALSE
        OBVIOUS
    <2>1. m * T <= -T
        OBVIOUS
    <2> QED
        BY <2>1
<1> QED
    BY <1>1, <1>2

\* A step of T keeps the remainder: a worker's stride keeps it on its sentences.
LEMMA StrideKeepsRemainder ==
    ASSUME NEW T \in Nat \ {0}, NEW a \in Nat
    PROVE  (a + T) % T = a % T
<1> DEFINE q == a \div T
           r == a % T
           p == (a + T) \div T
           s == (a + T) % T
<1>1. q \in Int /\ r \in 0 .. T - 1 /\ a = q * T + r
    BY DivMod
<1>2. p \in Int /\ s \in 0 .. T - 1 /\ a + T = p * T + s
    <2>1. a + T \in Nat
        OBVIOUS
    <2> QED
        BY <2>1, DivMod
<1> HIDE DEF q, r, p, s
<1>3. (p - q - 1) * T = r - s
    BY <1>1, <1>2
<1>4. p - q - 1 = 0
    BY <1>1, <1>2, <1>3, SmallMultiple
<1> QED
    BY <1>1, <1>2, <1>3, <1>4 DEF r, s

\* Two numbers with one remainder are equal or at least T apart.
LEMMA SameRemainder ==
    ASSUME NEW T \in Nat \ {0}, NEW a \in Nat, NEW b \in Nat,
           a % T = b % T, a <= b, b < a + T
    PROVE  a = b
<1> DEFINE q == a \div T
           p == b \div T
           r == a % T
<1>1. q \in Int /\ r \in 0 .. T - 1 /\ a = q * T + r
    BY DivMod
<1>2. p \in Int /\ b = p * T + r
    BY DivMod
<1> HIDE DEF q, p, r
<1>3. (p - q) * T = b - a
    BY <1>1, <1>2
<1>4. p - q = 0
    BY <1>1, <1>2, <1>3, SmallMultiple
<1> QED
    BY <1>1, <1>2, <1>4

-----------------------------------------------------------------------------
(* The inductive invariant. *)

\* Sentence s lives in arena s % thread_num.
Assigned ==
    /\ line = n
    /\ \A s \in Sents : s < n => thread_id[s] = s % thread_num

\* Which workers can run, and how far the loops are, at each place of main.
Phases ==
    /\ pc = "start" => k < thread_num /\ \A t \in Threads : t >= k => wpc[t] = "off"
    /\ pc = "join" => k < thread_num /\ \A t \in Threads : (t < k) <=> (wpc[t] = "off")
    /\ pc = "reduce" => k >= 1
    /\ pc \notin {"start", "join"} => \A t \in Threads : wpc[t] = "off"
    /\ pc = "read" => w = 0 /\ itr = 0 /\ converge = 0 /\ opt = "none"
    /\ pc \in {"start", "join", "reduce", "optimize"} =>
         w = itr /\ itr < maxitr /\ converge < 3
    /\ pc = "start" => \A t \in Threads : t < k => wpc[t] # "off"

\* A worker meets the sentences of its own remainder, and stops at the end.
Walking ==
    \A t \in Threads :
        /\ wpc[t] \in {"loop", "built", "exited"} => i[t] % thread_num = t
        /\ wpc[t] = "built" => i[t] < n
        /\ wpc[t] = "exited" => i[t] >= n

\* What worker t has added up when it stands at sentence bound.
Share(t, bound, l) ==
    IF l[2] = w /\ l[1] < n /\ l[1] % thread_num = t /\ l[1] < bound THEN 1 ELSE 0

Counted(t, l) ==
    /\ wpc[t] \in {"loop", "built", "exited"} => expected[t][l] = Share(t, i[t], l)
    /\ pc = "join" /\ t < k => expected[t][l] = Share(t, n, l)
    /\ pc = "reduce" /\ t >= k => expected[t][l] = Share(t, n, l)

Counting == \A t \in Threads : \A l \in Lattices : Counted(t, l)

\* What thread[0] holds while the threads' shares are being collected.
Collecting ==
    \A l \in Lattices :
        /\ pc = "reduce" =>
             expected[0][l] = IF l[2] = w /\ l[1] < n /\ l[1] % thread_num < k THEN 1 ELSE 0
        /\ pc = "optimize" =>
             expected[0][l] = IF l[2] = w /\ l[1] < n THEN 1 ELSE 0

IInv ==
    /\ TypeOK
    /\ Assigned
    /\ Phases
    /\ Walking
    /\ LatticeIntact
    /\ Counting
    /\ Collecting
    /\ DeletedOnce

USE ThreadsAssumption, IterationsAssumption, BoundsAssumption

\* The sentence of a lattice is a number, and its remainder is a worker.
LEMMA Owner ==
    ASSUME NEW l \in Lattices
    PROVE  l[1] \in Nat /\ l[1] % thread_num \in Threads
<1>1. l[1] \in Nat
    BY DEF Lattices, Sents
<1> QED
    BY <1>1, DivMod DEF Threads

\* A worker's own number is its first sentence.
LEMMA FirstSentence ==
    ASSUME NEW t \in Threads, NEW s \in Nat, s <= t
    PROVE  s % thread_num = s
<1>1. s \in 0 .. thread_num - 1
    BY DEF Threads
<1> QED
    BY <1>1

-----------------------------------------------------------------------------
(* The inductive step, action by action. *)

\* Nothing is loaded and no worker runs.
LEMMA InitInvariant == Init => IInv
<1> SUFFICES ASSUME Init PROVE IInv
    OBVIOUS
<1>1. TypeOK
    BY DEF Init, TypeOK, Nothing, Lattices, Versions, Sents, Threads
<1>2. Counting /\ Collecting
    BY DEF Init, Counting, Counted, Collecting
<1>3. Assigned /\ Phases /\ Walking /\ LatticeIntact /\ DeletedOnce
    BY DEF Init, Assigned, Phases, Walking, LatticeIntact, DeletedOnce, Sents
<1> QED
    BY <1>1, <1>2, <1>3 DEF IInv

\* Deleting the taggers keeps the counts, and counts every tagger of x once more.
LEMMA DeleteAllCounts ==
    ASSUME TypeOK, DeleteAll
    PROVE  /\ deleted' \in [Sents -> Nat]
           /\ \A s \in Sents : deleted'[s] = IF s < n THEN deleted[s] + 1 ELSE deleted[s]
BY DEF TypeOK, DeleteAll

\* The new sentence gets the arena of the worker that will meet it.
LEMMA ReadSentenceStep == IInv /\ ReadSentence => IInv'
<1> SUFFICES ASSUME IInv, ReadSentence PROVE IInv'
    OBVIOUS
<1> USE DEF ReadSentence, mainVars, optVars, workVars, ArenaOf
<1>1. n \in Nat /\ line = n /\ n \in Sents /\ n % thread_num \in Threads
    BY DivMod DEF IInv, TypeOK, Assigned, Sents, Threads
<1>2. TypeOK'
    <2>1. (thread_id \in [Sents -> Threads])'
        BY <1>1 DEF IInv, TypeOK
    <2> QED
        BY <1>1, <2>1 DEF IInv, TypeOK
<1>3. Assigned'
    BY <1>1 DEF IInv, TypeOK, Assigned, Sents
<1>4. Phases' /\ Walking' /\ LatticeIntact'
    BY DEF IInv, Phases, Walking, LatticeIntact
<1>5. Counting' /\ Collecting'
    BY DEF IInv, Phases, Counting, Counted, Collecting
<1>6. DeletedOnce'
    BY DEF IInv, DeletedOnce
<1> QED
    BY <1>2, <1>3, <1>4, <1>5, <1>6 DEF IInv

\* A blank sentence leaves nothing behind.
LEMMA SkipBlankStep == IInv /\ SkipBlank => IInv'
<1> SUFFICES ASSUME IInv, SkipBlank PROVE IInv'
    OBVIOUS
<1> USE DEF SkipBlank, mainVars, optVars, workVars
<1>1. TypeOK' /\ Assigned'
    BY DEF IInv, TypeOK, Assigned
<1>2. Phases' /\ Walking' /\ LatticeIntact' /\ DeletedOnce'
    BY DEF IInv, Phases, Walking, LatticeIntact, DeletedOnce
<1>3. Counting' /\ Collecting'
    BY DEF IInv, Phases, Counting, Counted, Collecting
<1> QED
    BY <1>1, <1>2, <1>3 DEF IInv

\* A failed read: the taggers are deleted, no worker runs.
LEMMA ReadFailsStep == IInv /\ ReadFails => IInv'
<1> SUFFICES ASSUME IInv, ReadFails PROVE IInv'
    OBVIOUS
<1> USE DEF ReadFails, readVars, optVars, workVars
<1>1. /\ deleted' \in [Sents -> Nat]
      /\ \A s \in Sents : deleted'[s] = IF s < n THEN deleted[s] + 1 ELSE deleted[s]
    BY DeleteAllCounts DEF IInv
<1>2. TypeOK' /\ Assigned'
    BY <1>1 DEF IInv, TypeOK, Assigned
<1>3. Phases' /\ Walking' /\ LatticeIntact'
    BY DEF IInv, Phases, Walking, LatticeIntact
<1>4. Counting' /\ Collecting'
    BY DEF IInv, Phases, Counting, Counted, Collecting
<1>5. DeletedOnce'
    BY <1>1 DEF IInv, Phases, DeletedOnce
<1> QED
    BY <1>2, <1>3, <1>4, <1>5 DEF IInv

\* Training starts with fresh weights and no worker.
LEMMA PrepareStep == IInv /\ Prepare => IInv'
<1> SUFFICES ASSUME IInv, Prepare PROVE IInv'
    OBVIOUS
<1> USE DEF Prepare, readVars, workVars
<1>1. TypeOK' /\ Assigned'
    BY DEF IInv, TypeOK, Assigned, Versions
<1>2. Phases' /\ Walking' /\ LatticeIntact' /\ DeletedOnce'
    BY DEF IInv, Phases, Walking, LatticeIntact, DeletedOnce, Threads
<1>3. Counting' /\ Collecting'
    BY DEF IInv, Phases, Counting, Counted, Collecting
<1> QED
    BY <1>1, <1>2, <1>3 DEF IInv

\* One more worker is released; the others are where they were.
LEMMA StartStep == IInv /\ Start => IInv'
<1> SUFFICES ASSUME IInv, Start PROVE IInv'
    OBVIOUS
<1> USE DEF Start, readVars, optVars
<1>1. k \in Threads /\ wpc[k] = "off"
    BY DEF IInv, TypeOK, Phases, Threads
<1>2. TypeOK' /\ Assigned'
    BY <1>1 DEF IInv, TypeOK, Assigned, Threads
<1>3. Phases'
    BY <1>1 DEF IInv, TypeOK, Phases, Threads
<1>4. Walking' /\ LatticeIntact' /\ DeletedOnce'
    BY <1>1 DEF IInv, TypeOK, Walking, LatticeIntact, DeletedOnce
<1>5. Counting'
    <2> SUFFICES ASSUME NEW t \in Threads, NEW l \in Lattices PROVE Counted(t, l)'
        BY DEF Counting
    <2> QED
        BY <1>1 DEF IInv, TypeOK, Counting, Counted, Share, Threads
<1>6. Collecting'
    BY DEF IInv, Collecting
<1> QED
    BY <1>2, <1>3, <1>4, <1>5, <1>6 DEF IInv

\* The worker that is joined has added up its whole share.
LEMMA JoinedShare ==
    ASSUME IInv, Join, NEW t \in Threads, t <= k, NEW l \in Lattices
    PROVE  expected[t][l] = Share(t, n, l)
<1>1. k \in Threads /\ i[k] \in Nat /\ i[k] >= n /\ n \in Nat
    BY DEF IInv, TypeOK, Join, Walking, Phases, Threads
<1>2. CASE t = k
    <2>1. expected[k][l] = Share(k, i[k], l)
        BY <1>1 DEF IInv, Counting, Counted, Join
    <2>2. Share(k, i[k], l) = Share(k, n, l)
        BY <1>1, Owner DEF Share
    <2> QED
        BY <1>2, <2>1, <2>2
<1>3. CASE t < k
    BY <1>3 DEF IInv, Counting, Counted, Join
<1> QED
    BY <1>1, <1>2, <1>3 DEF Threads

\* Joining ends the iteration's parallel part when the last worker is in.
LEMMA JoinStep == IInv /\ Join => IInv'
<1> SUFFICES ASSUME IInv, Join PROVE IInv'
    OBVIOUS
<1> USE DEF Join, readVars, optVars
<1>1. k \in Threads
    BY DEF IInv, TypeOK, Phases, Threads
<1>2. TypeOK' /\ Assigned'
    BY <1>1 DEF IInv, TypeOK, Assigned, Threads
<1>3. Phases'
    BY <1>1 DEF IInv, TypeOK, Phases, Threads
<1>4. Walking' /\ LatticeIntact' /\ DeletedOnce'
    BY <1>1 DEF IInv, TypeOK, Walking, LatticeIntact, DeletedOnce
<1>5. \A t \in Threads : \A l \in Lattices :
        /\ Share(t, n, l)' = Share(t, n, l)
        /\ Share(t, i[t], l)' = Share(t, i[t], l)
    BY DEF Share
<1>6. Counting'
    <2> SUFFICES ASSUME NEW t \in Threads, NEW l \in Lattices PROVE Counted(t, l)'
        BY DEF Counting
    <2>1. ASSUME wpc'[t] \in {"loop", "built", "exited"}
          PROVE  expected[t][l] = Share(t, i[t], l)
        BY <1>1, <2>1 DEF IInv, TypeOK, Counting, Counted
    <2>2. ASSUME pc' = "join", t < k'
          PROVE  expected[t][l] = Share(t, n, l)
        BY <1>1, <2>2, JoinedShare DEF Threads
    <2>3. ASSUME pc' = "reduce"
          PROVE  expected[t][l] = Share(t, n, l)
        BY <1>1, <2>3, JoinedShare DEF Threads
    <2> QED
        BY <1>5, <2>1, <2>2, <2>3 DEF Counted
<1>7. Collecting'
    <2> SUFFICES ASSUME NEW l \in Lattices, pc' = "reduce"
                 PROVE  expected[0][l] =
                          IF l[2] = w /\ l[1] < n /\ l[1] % thread_num < 1 THEN 1 ELSE 0
        BY DEF Collecting
    <2>1. expected[0][l] = Share(0, n, l)
        BY <1>1, JoinedShare DEF Threads
    <2> QED
        BY <2>1, Owner DEF Share, Threads
<1> QED
    BY <1>2, <1>3, <1>4, <1>6, <1>7 DEF IInv

\* Collecting one more share.
LEMMA ReduceStep == IInv /\ Reduce => IInv'
<1> SUFFICES ASSUME IInv, Reduce PROVE IInv'
    OBVIOUS
<1> USE DEF Reduce, readVars, optVars
<1>1. k \in Threads /\ 0 \in Threads /\ k >= 1 /\ n \in Nat
    BY DEF IInv, TypeOK, Phases, Threads
<1>2. \A t \in Threads : t # 0 => expected'[t] = expected[t]
    BY <1>1 DEF IInv, TypeOK
<1>3. \A l \in Lattices : expected'[0][l] = expected[0][l] + expected[k][l]
    BY <1>1 DEF IInv, TypeOK
<1>4. TypeOK' /\ Assigned'
    <2>1. (expected \in [Threads -> [Lattices -> Nat]])'
        BY <1>1 DEF IInv, TypeOK
    <2> QED
        BY <1>1, <2>1 DEF IInv, TypeOK, Assigned, Threads
<1>5. Phases' /\ Walking' /\ LatticeIntact' /\ DeletedOnce'
    BY <1>1 DEF IInv, Phases, Walking, LatticeIntact, DeletedOnce, Threads
<1>6. Counting'
    <2> SUFFICES ASSUME NEW t \in Threads, NEW l \in Lattices PROVE Counted(t, l)'
        BY DEF Counting
    <2> QED
        BY <1>1, <1>2 DEF IInv, Phases, Counting, Counted, Share, Threads
<1>7. Collecting'
    <2> SUFFICES ASSUME NEW l \in Lattices
                 PROVE  expected'[0][l] =
                          IF l[2] = w /\ l[1] < n /\ l[1] % thread_num < k + 1 THEN 1 ELSE 0
        BY DEF Collecting
    <2>1. expected[k][l] = Share(k, n, l)
        BY <1>1 DEF IInv, Counting, Counted, Threads
    <2>2. expected[0][l] =
            IF l[2] = w /\ l[1] < n /\ l[1] % thread_num < k THEN 1 ELSE 0
        BY DEF IInv, Collecting
    <2>3. l[1] % thread_num \in Nat /\ l[1] \in Nat /\ k \in Nat
        BY <1>1, Owner DEF Threads
    <2> QED
        BY <1>1, <1>3, <2>1, <2>2, <2>3 DEF Share
<1> QED
    BY <1>4, <1>5, <1>6, <1>7 DEF IInv

\* All the shares are in: each sentence once.
LEMMA RegularizeStep == IInv /\ Regularize => IInv'
<1> SUFFICES ASSUME IInv, Regularize PROVE IInv'
    OBVIOUS
<1> USE DEF Regularize, readVars, optVars, workVars
<1>1. TypeOK' /\ Assigned'
    BY DEF IInv, TypeOK, Assigned
<1>2. Phases' /\ Walking' /\ LatticeIntact' /\ DeletedOnce'
    BY DEF IInv, Phases, Walking, LatticeIntact, DeletedOnce
<1>3. Counting'
    BY DEF IInv, Phases, Counting, Counted
<1>4. Collecting'
    <2> SUFFICES ASSUME NEW l \in Lattices
                 PROVE  expected[0][l] = IF l[2] = w /\ l[1] < n THEN 1 ELSE 0
        BY DEF Collecting
    <2>1. expected[0][l] =
            IF l[2] = w /\ l[1] < n /\ l[1] % thread_num < k THEN 1 ELSE 0
        BY DEF IInv, Collecting
    <2>2. l[1] % thread_num < k
        BY Owner DEF IInv, TypeOK, Threads
    <2> QED
        BY <2>1, <2>2
<1> QED
    BY <1>1, <1>2, <1>3, <1>4 DEF IInv

\* What happens to the optimizer's answer: no worker runs.
LEMMA AnswerStep ==
    ASSUME IInv, Converged \/ NextWeights
    PROVE  IInv'
<1> USE DEF Converged, NextWeights, NotConverged, Settled, readVars, workVars
<1>1. TypeOK' /\ Assigned'
    BY DEF IInv, TypeOK, Phases, Assigned, Versions
<1>2. Phases'
    BY DEF IInv, TypeOK, Phases, Versions, Threads
<1>3. Walking' /\ LatticeIntact' /\ DeletedOnce'
    BY DEF IInv, Phases, Walking, LatticeIntact, DeletedOnce
<1>4. Counting' /\ Collecting'
    BY DEF IInv, Phases, Counting, Counted, Collecting
<1> QED
    BY <1>1, <1>2, <1>3, <1>4 DEF IInv

\* The optimizer stops: the taggers are deleted, no worker runs.
LEMMA StopStep ==
    ASSUME IInv, OptimizerFails \/ OptimizerTerminates \/ Delete \/ SaveFails
    PROVE  IInv'
<1> USE DEF OptimizerFails, OptimizerTerminates, Delete, SaveFails,
            readVars, optVars, workVars
<1>1. /\ deleted' \in [Sents -> Nat]
      /\ \A s \in Sents : deleted'[s] = IF s < n THEN deleted[s] + 1 ELSE deleted[s]
    BY DeleteAllCounts DEF IInv
<1>2. TypeOK' /\ Assigned'
    BY <1>1 DEF IInv, TypeOK, Phases, Assigned, NotConverged, Settled
<1>3. Phases' /\ Walking' /\ LatticeIntact'
    BY DEF IInv, Phases, Walking, LatticeIntact
<1>4. Counting' /\ Collecting'
    BY DEF IInv, Phases, Counting, Counted, Collecting
<1>5. DeletedOnce'
    BY <1>1 DEF IInv, Phases, DeletedOnce
<1> QED
    BY <1>2, <1>3, <1>4, <1>5 DEF IInv

\* Saving the model touches nothing.
LEMMA SaveSucceedsStep == IInv /\ SaveSucceeds => IInv'
<1> SUFFICES ASSUME IInv, SaveSucceeds PROVE IInv'
    OBVIOUS
<1> USE DEF SaveSucceeds, readVars, optVars, workVars
<1>1. TypeOK' /\ Assigned'
    BY DEF IInv, TypeOK, Assigned
<1>2. Phases' /\ Walking' /\ LatticeIntact' /\ DeletedOnce'
    BY DEF IInv, Phases, Walking, LatticeIntact, DeletedOnce
<1>3. Counting' /\ Collecting'
    BY DEF IInv, Phases, Counting, Counted, Collecting
<1> QED
    BY <1>1, <1>2, <1>3 DEF IInv

\* While a worker runs, the main thread is starting or joining.
LEMMA Running ==
    ASSUME IInv, NEW t \in Threads, wpc[t] # "off"
    PROVE  /\ pc \in {"start", "join"}
           /\ w = itr /\ itr < maxitr /\ w \in Versions
           /\ pc = "start" => t < k
           /\ pc = "join" => ~ (t < k)
<1>1. pc \in {"start", "join"}
    BY DEF IInv, Phases
<1> QED
    BY <1>1 DEF IInv, TypeOK, Phases, Versions, Threads

\* A step of a worker leaves to the main thread what is the main thread's.
LEMMA WorkerKeeps ==
    ASSUME IInv, NEW t \in Threads, Worker(t)
    PROVE  /\ Assigned' /\ Collecting' /\ DeletedOnce'
           /\ Phases'
<1>1. wpc[t] # "off" /\ \E v \in {"loop", "built", "exited"} : wpc' = [wpc EXCEPT ![t] = v]
    BY DEF Worker, Begin, BuildLattice, Accumulate, Exit
<1>2. UNCHANGED <<mainVars, readVars, deleted, optVars>>
    BY DEF Worker, Begin, BuildLattice, Accumulate, Exit
<1>3. pc \in {"start", "join"}
    BY <1>1, Running
<1>4. Assigned' /\ Collecting' /\ DeletedOnce'
    BY <1>2, <1>3 DEF mainVars, readVars, optVars, IInv, Assigned, Collecting,
                      DeletedOnce
<1>5. Phases'
    BY <1>1, <1>2, <1>3 DEF mainVars, readVars, optVars, IInv, TypeOK, Phases
<1> QED
    BY <1>4, <1>5

\* The share of a worker that begins is empty.
LEMMA BeginStep == ASSUME IInv, NEW u \in Threads, Begin(u) PROVE IInv'
<1> USE DEF Begin, mainVars, readVars, optVars
<1>1. Assigned' /\ Collecting' /\ DeletedOnce' /\ Phases'
    BY WorkerKeeps DEF Worker
<1>2. u \in Nat
    BY DEF Threads
<1>3. TypeOK'
    <2>1. Nothing \in [Lattices -> Nat]
        BY DEF Nothing
    <2> QED
        BY <1>2, <2>1 DEF IInv, TypeOK
<1>4. Walking' /\ LatticeIntact'
    <2>1. u % thread_num = u
        BY <1>2, FirstSentence
    <2> QED
        BY <2>1 DEF IInv, TypeOK, Walking, LatticeIntact
<1>5. Counting'
    <2> SUFFICES ASSUME NEW t \in Threads, NEW l \in Lattices PROVE Counted(t, l)'
        BY DEF Counting
    <2>1. CASE t = u
        <3>1. expected'[u][l] = 0 /\ i'[u] = u
            BY DEF IInv, TypeOK, Nothing
        <3>2. ~ (l[1] % thread_num = u /\ l[1] < u)
            BY <1>2, Owner, FirstSentence
        <3>3. ~ (pc' = "join" /\ t < k') /\ pc' # "reduce"
            BY <2>1, Running
        <3> QED
            BY <2>1, <3>1, <3>2, <3>3 DEF Counted, Share
    <2>2. CASE t # u
        BY <2>2 DEF IInv, TypeOK, Counting, Counted, Share
    <2> QED
        BY <2>1, <2>2
<1> QED
    BY <1>1, <1>3, <1>4, <1>5 DEF IInv

\* A worker overwrites its own arena, and nobody else's lattice is in it.
LEMMA BuildLatticeStep == ASSUME IInv, NEW u \in Threads, BuildLattice(u) PROVE IInv'
<1> USE DEF BuildLattice, mainVars, readVars, optVars
<1>1. Assigned' /\ Collecting' /\ DeletedOnce' /\ Phases'
    BY WorkerKeeps DEF Worker
<1>2. /\ i[u] \in Sents
      /\ thread_id[i[u]] = u
      /\ <<i[u], w>> \in Lattices
    <2>1. i[u] \in Sents
        BY DEF IInv, TypeOK, Sents
    <2>2. w \in Versions
        BY DEF IInv, TypeOK
    <2> QED
        BY <2>1, <2>2 DEF IInv, Assigned, Walking, Lattices
<1>3. TypeOK'
    <2>1. (arena \in [Threads -> Lattices \cup {NoLattice}])'
        BY <1>2 DEF IInv, TypeOK
    <2> QED
        BY <2>1 DEF IInv, TypeOK
<1>4. Walking'
    BY DEF IInv, TypeOK, Walking
<1>5. LatticeIntact'
    <2> SUFFICES ASSUME NEW t \in Threads, wpc'[t] = "built"
                 PROVE  arena'[thread_id[i[t]]] = <<i[t], w>>
        BY DEF LatticeIntact
    <2>1. CASE t = u
        BY <1>2, <2>1 DEF IInv, TypeOK
    <2>2. CASE t # u
        <3>1. wpc[t] = "built" /\ i[t] < n /\ i[t] \in Sents
            BY <2>2 DEF IInv, TypeOK, Walking, Sents
        <3>2. thread_id[i[t]] = t
            BY <3>1 DEF IInv, Assigned, Walking
        <3> QED
            BY <1>2, <2>2, <3>1, <3>2 DEF IInv, TypeOK, LatticeIntact
    <2> QED
        BY <2>1, <2>2
<1>6. Counting'
    <2> SUFFICES ASSUME NEW t \in Threads, NEW l \in Lattices PROVE Counted(t, l)'
        BY DEF Counting
    <2> QED
        BY DEF IInv, TypeOK, Counting, Counted, Share
<1> QED
    BY <1>1, <1>3, <1>4, <1>5, <1>6 DEF IInv

\* A worker's share grows by the sentence it stands at.
LEMMA AccumulateStep == ASSUME IInv, NEW u \in Threads, Accumulate(u) PROVE IInv'
<1> USE DEF Accumulate, mainVars, readVars, optVars
<1> DEFINE lat == <<i[u], w>>
<1>1. Assigned' /\ Collecting' /\ DeletedOnce' /\ Phases'
    BY WorkerKeeps DEF Worker
<1>2. /\ i[u] \in Sents /\ i[u] \in Nat /\ i[u] < n
      /\ i[u] % thread_num = u
      /\ lat \in Lattices
      /\ arena[thread_id[i[u]]] = lat
    <2>1. i[u] \in Sents /\ i[u] < n /\ i[u] \in Nat
        BY DEF IInv, TypeOK, Walking, Sents
    <2>2. w \in Versions
        BY DEF IInv, TypeOK
    <2> QED
        BY <2>1, <2>2 DEF IInv, Walking, LatticeIntact, Lattices
<1>3. expected' = [expected EXCEPT ![u][lat] = @ + 1]
    BY <1>2
<1>4. (i[u] + thread_num) % thread_num = u
    BY <1>2, StrideKeepsRemainder
<1> HIDE DEF lat
<1>5. TypeOK'
    <2>1. (expected \in [Threads -> [Lattices -> Nat]])'
        BY <1>2, <1>3 DEF IInv, TypeOK
    <2>2. (i \in [Threads -> Nat])'
        BY <1>2 DEF IInv, TypeOK
    <2> QED
        BY <2>1, <2>2 DEF IInv, TypeOK
<1>6. Walking' /\ LatticeIntact'
    BY <1>4 DEF IInv, TypeOK, Walking, LatticeIntact
<1>7. Counting'
    <2> SUFFICES ASSUME NEW t \in Threads, NEW l \in Lattices PROVE Counted(t, l)'
        BY DEF Counting
    <2>1. CASE t = u
        <3>1. i'[u] = i[u] + thread_num
            BY <1>2 DEF IInv, TypeOK
        <3>2. expected[u][l] = Share(u, i[u], l)
            BY DEF IInv, Counting, Counted
        <3>3. ~ (pc' = "join" /\ t < k') /\ pc' # "reduce"
            BY <2>1, Running
        <3>4. l[1] \in Nat
            BY Owner
        <3>5. expected'[u][l] = Share(u, i[u] + thread_num, l)
            <4>1. CASE l = lat
                <5>1. expected'[u][l] = expected[u][l] + 1
                    BY <1>2, <1>3, <4>1 DEF IInv, TypeOK
                <5>2. l[1] = i[u] /\ l[2] = w
                    BY <4>1 DEF lat
                <5> QED
                    BY <1>2, <3>2, <5>1, <5>2 DEF Share
            <4>2. CASE l # lat
                <5>1. expected'[u][l] = expected[u][l]
                    BY <1>2, <1>3, <4>2 DEF IInv, TypeOK
                <5>2. l[1] # i[u] \/ l[2] # w
                    BY <4>2 DEF lat, Lattices
                <5>3. l[1] % thread_num = u /\ i[u] <= l[1] /\ l[1] < i[u] + thread_num
                        => l[1] = i[u]
                    BY <1>2, <3>4, SameRemainder
                <5>4. l[1] < i[u] => l[1] < i[u] + thread_num
                    BY <1>2, <3>4
                <5> QED
                    BY <1>2, <3>2, <3>4, <5>1, <5>2, <5>3, <5>4 DEF Share
            <4> QED
                BY <4>1, <4>2
        <3> QED
            BY <2>1, <3>1, <3>3, <3>5 DEF Counted, Share
    <2>2. CASE t # u
        BY <1>3, <2>2 DEF IInv, TypeOK, Counting, Counted, Share
    <2> QED
        BY <2>1, <2>2
<1> QED
    BY <1>1, <1>5, <1>6, <1>7 DEF IInv

\* A worker past the last sentence stops.
LEMMA ExitStep == ASSUME IInv, NEW u \in Threads, Exit(u) PROVE IInv'
<1> USE DEF Exit, mainVars, readVars, optVars
<1>1. Assigned' /\ Collecting' /\ DeletedOnce' /\ Phases'
    BY WorkerKeeps DEF Worker
<1>2. TypeOK'
    BY DEF IInv, TypeOK
<1>3. Walking' /\ LatticeIntact'
    BY DEF IInv, TypeOK, Walking, LatticeIntact
<1>4. Counting'
    <2> SUFFICES ASSUME NEW t \in Threads, NEW l \in Lattices PROVE Counted(t, l)'
        BY DEF Counting
    <2> QED
        BY DEF IInv, TypeOK, Counting, Counted, Share
<1> QED
    BY <1>1, <1>2, <1>3, <1>4 DEF IInv

LEMMA StepInvariant == IInv /\ [Next]_vars => IInv'
<1> SUFFICES ASSUME IInv, [Next]_vars PROVE IInv'
    OBVIOUS
<1>1. CASE Main
    BY <1>1, ReadSentenceStep, SkipBlankStep, ReadFailsStep, PrepareStep, StartStep,
       JoinStep, ReduceStep, RegularizeStep, AnswerStep, StopStep, SaveSucceedsStep
       DEF Main
<1>2. ASSUME NEW t \in Threads, Worker(t) PROVE IInv'
    BY <1>2, BeginStep, BuildLatticeStep, AccumulateStep, ExitStep DEF Worker
<1>3. CASE UNCHANGED vars
    BY <1>3 DEF vars, mainVars, readVars, optVars, workVars, IInv, TypeOK, Assigned,
                Phases, Walking, LatticeIntact, Counting, Counted, Share, Collecting,
                DeletedOnce
<1> QED
    BY <1>1, <1>2, <1>3 DEF Next

LEMMA Invariant == Spec => []IInv
BY InitInvariant, StepInvariant, PTL DEF Spec

-----------------------------------------------------------------------------

(***************************************************************************)
(* The variables keep their types: no index leaves an array of learn or    *)
(* runCRF, for every number of threads, sentences and iterations.          *)
(***************************************************************************)
THEOREM TypeCorrect == Spec => []TypeOK
<1>1. IInv => TypeOK
    BY DEF IInv
<1> QED
    BY Invariant, <1>1, PTL

(***************************************************************************)
(* No arena is ever used by two workers at once (rebuildFeatures needs no  *)
(* lock): for every number of threads and sentences.                       *)
(***************************************************************************)
THEOREM RaceFree == Spec => []NoArenaRace
<1>1. IInv => NoArenaRace
    <2> SUFFICES ASSUME IInv, NEW t \in Threads, NEW u \in Threads, t # u,
                        wpc[t] = "built", wpc[u] = "built"
                 PROVE  thread_id[i[t]] # thread_id[i[u]]
        BY DEF NoArenaRace
    <2>1. \A v \in {t, u} : i[v] \in Sents /\ i[v] < n /\ i[v] % thread_num = v
        BY DEF IInv, TypeOK, Walking, Sents
    <2> QED
        BY <2>1 DEF IInv, Assigned
<1> QED
    BY Invariant, <1>1, PTL

(***************************************************************************)
(* The lattice a worker adds up is the one it built, at the weights of the *)
(* iteration.                                                              *)
(***************************************************************************)
THEOREM OwnLattice == Spec => []LatticeIntact
<1>1. IInv => LatticeIntact
    BY DEF IInv
<1> QED
    BY Invariant, <1>1, PTL

(***************************************************************************)
(* Every tagger of x is deleted exactly once, after the last worker has    *)
(* ended, on every way out of learn but a failed save; and the tagger of a *)
(* sentence that cannot be read is the only one learn leaks.               *)
(***************************************************************************)
THEOREM DeletesOnce == Spec => []DeletedOnce
<1>1. IInv => DeletedOnce
    BY DEF IInv
<1> QED
    BY Invariant, <1>1, PTL

(***************************************************************************)
(* The weights change only while no worker runs.                           *)
(***************************************************************************)
THEOREM FrozenWeights == Spec => WeightsFrozen
<1>1. ASSUME IInv, IInv', [Next]_vars
      PROVE  [w' # w \/ pc' \in {"reduce", "optimize"}
                => \A t \in Threads : wpc'[t] = "off"]_vars
    <2>1. pc' \in {"reduce", "optimize"} => \A t \in Threads : wpc'[t] = "off"
        BY <1>1 DEF IInv, Phases
    <2>2. CASE Main
        <3>1. ASSUME w' # w PROVE wpc' = wpc /\ pc \notin {"start", "join"}
            BY <2>2, <3>1
               DEF Main, ReadSentence, SkipBlank, ReadFails, Prepare, Start, Join, Reduce,
                   Regularize, Converged, NextWeights, OptimizerFails,
                   OptimizerTerminates, Delete, SaveSucceeds, SaveFails,
                   optVars, workVars
        <3> QED
            BY <1>1, <2>1, <3>1 DEF IInv, Phases
    <2>3. ASSUME NEW t \in Threads, Worker(t) PROVE w' = w
        BY <2>3 DEF Worker, Begin, BuildLattice, Accumulate, Exit, optVars
    <2> QED
        BY <1>1, <2>1, <2>2, <2>3 DEF Next
<1> QED
    BY Invariant, <1>1, PTL DEF Spec, WeightsFrozen

-----------------------------------------------------------------------------
(* The refinement: parallel training does what Training does. *)

\* The gradient the main thread hands to the optimizer is the textbook's.
LEMMA WholeGradient ==
    ASSUME IInv', pc' = "optimize"
    PROVE  expected'[0] = Sequential!Total'
<1>1. 0 \in Threads
    BY DEF Threads
<1>2. \A l \in Lattices :
        expected'[0][l] = IF l[1] < n' /\ l[2] = w' THEN 1 ELSE 0
    BY DEF IInv, Collecting
<1>3. Sequential!Contributions = Lattices
    BY DEF Sequential!Contributions, Lattices, Sents, Versions
<1>4. expected'[0] \in [Lattices -> Nat]
    BY <1>1 DEF IInv, TypeOK
<1> QED
    BY <1>2, <1>3, <1>4 DEF Sequential!Total

\* The abstract status at each place of the main thread.
LEMMA StatusIs ==
    /\ pc = "read" => Status = "loading"
    /\ pc \in {"start", "join", "reduce"} => Status = "iterating"
    /\ pc = "optimize" => Status = "evaluated"
    /\ pc = "failed" => Status = "failed"
    /\ pc \in {"delete", "save", "done", "unsaved"} => Status = "trained"
BY DEF Status

LEMMA InitRefines == Init => Sequential!Init
BY DEF Init, Status, Sequential!Init, Sequential!Nothing, Nothing, Lattices, Sents,
       Versions, Sequential!Contributions

\* Every step of the threads is a step of the textbook's loop, or none.
LEMMA StepRefines ==
    ASSUME IInv, IInv', [Next]_vars
    PROVE  [Sequential!Next]_(Sequential!vars)
<1> DEFINE g == IF pc = "optimize" THEN expected[0] ELSE Nothing
<1> USE DEF mainVars, readVars, optVars, workVars
<1>1. Nothing = Sequential!Nothing
    BY DEF Nothing, Sequential!Nothing, Lattices, Sents, Versions, Sequential!Contributions
<1>2. \A small : Sequential!Settled(small) = Settled(small)
    BY DEF Sequential!Settled, Settled
<1>3. CASE ReadSentence
    <2>1. n < MaxSents /\ n' = n + 1 /\ g' = g
        BY <1>3 DEF ReadSentence
    <2>2. Status = "loading" /\ Status' = Status
        BY <1>3 DEF ReadSentence, Status
    <2>3. Sequential!Load
        BY <1>3, <2>1, <2>2 DEF ReadSentence, Sequential!Load
    <2> QED
        BY <2>3 DEF Sequential!Next
<1>4. CASE ReadFails
    <2>1. Status = "loading" /\ Status' = "failed" /\ g' = Nothing
        BY <1>4 DEF ReadFails, Status
    <2>2. converge' = 0
        BY <1>4 DEF ReadFails, IInv, Phases
    <2>3. Sequential!Fail
        BY <1>1, <1>4, <2>1, <2>2 DEF ReadFails, Sequential!Fail
    <2> QED
        BY <2>3 DEF Sequential!Next
<1>5. CASE Prepare
    <2>1. Status = "loading" /\ g' = g
        BY <1>5 DEF Prepare, Status
    <2>2. Status' = IF maxitr = 0 THEN "trained" ELSE "iterating"
        BY <1>5 DEF Prepare, Status
    <2>3. w' = w /\ itr' = itr /\ converge' = converge
        BY <1>5 DEF Prepare, IInv, Phases
    <2>4. Sequential!StartTraining
        BY <1>5, <2>1, <2>2, <2>3 DEF Prepare, Sequential!StartTraining
    <2> QED
        BY <2>4 DEF Sequential!Next
<1>6. CASE Regularize
    <2>1. Status = "iterating" /\ Status' = "evaluated"
        BY <1>6 DEF Regularize, Status
    <2>2. g' = Sequential!Total
        <3>1. expected'[0] = Sequential!Total'
            BY <1>6, WholeGradient DEF Regularize
        <3>2. Sequential!Total' = Sequential!Total
            BY <1>6 DEF Regularize, Sequential!Total
        <3> QED
            BY <1>6, <3>1, <3>2 DEF Regularize
    <2>3. Sequential!Evaluate
        BY <1>6, <2>1, <2>2 DEF Regularize, Sequential!Evaluate
    <2> QED
        BY <2>3 DEF Sequential!Next
<1>7. CASE Converged
    <2>1. Status = "evaluated" /\ Status' = "trained" /\ g' = Nothing
        BY <1>7 DEF Converged, Status
    <2>2. Sequential!Converge
        BY <1>1, <1>2, <1>7, <2>1 DEF Converged, Sequential!Converge
    <2> QED
        BY <2>2 DEF Sequential!Next
<1>8. CASE NextWeights
    <2>1. Status = "evaluated" /\ g' = Nothing
        BY <1>8 DEF NextWeights, Status
    <2>2. Status' = IF itr' < maxitr THEN "iterating" ELSE "trained"
        BY <1>8 DEF NextWeights, Status
    <2>3. Sequential!Improve
        BY <1>1, <1>2, <1>8, <2>1, <2>2 DEF NextWeights, NotConverged, Sequential!Improve
    <2> QED
        BY <2>3 DEF Sequential!Next
<1>9. CASE OptimizerFails \/ OptimizerTerminates
    <2>1. Status = "evaluated" /\ Status' = "failed" /\ g' = Nothing
        BY <1>9 DEF OptimizerFails, OptimizerTerminates, Status
    <2>2. converge' \in 0 .. 2
        BY <1>9 DEF OptimizerFails, OptimizerTerminates, NotConverged, Settled, IInv,
                    TypeOK, Phases
    <2>3. Sequential!Fail
        BY <1>1, <1>9, <2>1, <2>2 DEF OptimizerFails, OptimizerTerminates, Sequential!Fail
    <2> QED
        BY <2>3 DEF Sequential!Next
<1>10. CASE SkipBlank \/ Start \/ Join \/ Reduce \/ Delete \/ SaveSucceeds \/ SaveFails
    <2>1. Status' = Status /\ pc # "optimize" /\ pc' # "optimize"
        BY <1>10 DEF SkipBlank, Start, Join, Reduce, Delete, SaveSucceeds, SaveFails, Status
    <2>2. UNCHANGED <<n, w, itr, converge>>
        BY <1>10 DEF SkipBlank, Start, Join, Reduce, Delete, SaveSucceeds, SaveFails
    <2> QED
        BY <2>1, <2>2 DEF Sequential!vars
<1>11. ASSUME NEW t \in Threads, Worker(t)
       PROVE  UNCHANGED Sequential!vars
    <2>1. pc' = pc /\ UNCHANGED <<n, w, itr, converge>>
        BY <1>11 DEF Worker, Begin, BuildLattice, Accumulate, Exit
    <2>2. pc # "optimize"
        BY <1>11, Running DEF Worker, Begin, BuildLattice, Accumulate, Exit
    <2> QED
        BY <2>1, <2>2 DEF Sequential!vars, Status
<1>12. CASE UNCHANGED vars
    BY <1>12 DEF vars, Sequential!vars, Status
<1> QED
    BY <1>3, <1>4, <1>5, <1>6, <1>7, <1>8, <1>9, <1>10, <1>11, <1>12 DEF Next, Main

(***************************************************************************)
(* Parallel training implements sequential training: for every number of   *)
(* threads, sentences and iterations, the optimizer gets each sentence's   *)
(* gradient exactly once, at the weights it returned last.                 *)
(***************************************************************************)
THEOREM Refinement == Spec => TrainsSequentially
<1>1. Init => Sequential!Init
    BY InitRefines
<1>2. IInv /\ IInv' /\ [Next]_vars => [Sequential!Next]_(Sequential!vars)
    BY StepRefines
<1> QED
    BY Invariant, <1>1, <1>2, PTL DEF Spec, TrainsSequentially, Sequential!Spec

=============================================================================
