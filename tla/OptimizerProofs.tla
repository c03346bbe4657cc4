-------------------------- MODULE OptimizerProofs --------------------------
(***************************************************************************)
(* Proofs about the two algorithms that move the weights: the optimizer    *)
(* runCRF calls, and runMIRA.                                              *)
(*                                                                         *)
(* L-BFGS, for every number of weights, of pairs and of trials.  The array *)
(* w_ is one function on addresses; the first part shows that its regions  *)
(* do not overlap.  The inductive invariant says what every cell of the    *)
(* ring holds in every state, by the age of the pair it belongs to: the    *)
(* pair of the i-th latest iteration is in slot Back(i), and it ends where *)
(* the pair after it begins.                                               *)
(*                                                                         *)
(* MIRA, for every corpus, cost factor, shrinking size and number of       *)
(* passes.  That a converged training has looked at everything needs the   *)
(* invariant LastPass: in a pass that follows a quiet one, the sentences   *)
(* still to come have a counter of 0 and the ones before have been looked  *)
(* at in this pass, and none improved unless kkt says so.                  *)
(***************************************************************************)
EXTENDS Lbfgs, Mira, TLAPS


USE SizesAssumption, MaxfevAssumption

-----------------------------------------------------------------------------
(* The layout of w_. *)

LEMMA Monotone ==
    ASSUME NEW a \in Nat, NEW b \in Nat, NEW c \in Nat, a <= b
    PROVE  a * c \in Nat /\ b * c \in Nat /\ a * c <= b * c
OBVIOUS

\* The blocks of size cells of two slots follow each other.
LEMMA Blocks ==
    ASSUME NEW s \in Slots, NEW t \in Slots
    PROVE  /\ s * size \in Nat /\ t * size \in Nat /\ size * msize \in Nat
           /\ s * size + size <= size * msize
           /\ s < t => s * size + size <= t * size
<1>1. s \in Nat /\ t \in Nat /\ s + 1 <= msize /\ msize \in Nat /\ size \in Nat
    BY DEF Slots
<1>2. (s + 1) * size = s * size + size /\ msize * size = size * msize
    BY <1>1
<1>3. s * size \in Nat /\ t * size \in Nat /\ (s + 1) * size <= msize * size
    BY <1>1, Monotone
<1>4. ASSUME s < t PROVE (s + 1) * size <= t * size
    BY <1>1, <1>4, Monotone
<1> QED
    BY <1>1, <1>2, <1>3, <1>4

\* The regions of w_, with products left opaque.
LEMMA Layout ==
    /\ \A s \in Slots :
         /\ Vector(StepOf(s)) \subseteq Addresses
         /\ Vector(ChangeOf(s)) \subseteq Addresses
         /\ size + s + 1 \in Addresses
         /\ size + msize + s + 1 \in Addresses
         /\ StepOf(s) \in Nat /\ ChangeOf(s) \in Nat
         /\ \A a \in Vector(StepOf(s)) : a > size + 2 * msize
         /\ \A a \in Vector(ChangeOf(s)) : a > size + 2 * msize
    /\ Vector(0) \subseteq Addresses
    /\ \A s, t \in Slots : Vector(StepOf(s)) \cap Vector(ChangeOf(t)) = {}
    /\ \A s, t \in Slots : s # t =>
         /\ Vector(StepOf(s)) \cap Vector(StepOf(t)) = {}
         /\ Vector(ChangeOf(s)) \cap Vector(ChangeOf(t)) = {}
    /\ Addresses \subseteq Nat
<1>0. size * (2 * msize + 1) = size * msize + size * msize + size
    BY DEF Slots
<1>1. ASSUME NEW s \in Slots, NEW t \in Slots
      PROVE  /\ Vector(StepOf(s)) \cap Vector(ChangeOf(t)) = {}
             /\ s # t => /\ Vector(StepOf(s)) \cap Vector(StepOf(t)) = {}
                         /\ Vector(ChangeOf(s)) \cap Vector(ChangeOf(t)) = {}
    <2> DEFINE u == s * size
               v == t * size
               m == size * msize
    <2>1. /\ u \in Nat /\ v \in Nat /\ m \in Nat
          /\ u + size <= m /\ v + size <= m
          /\ s < t => u + size <= v
          /\ t < s => v + size <= u
        BY Blocks
    <2>2. s \in Nat /\ t \in Nat
        BY DEF Slots
    <2>3. /\ StepOf(s) = size + 2 * msize + u
          /\ StepOf(t) = size + 2 * msize + v
          /\ ChangeOf(s) = size + 2 * msize + m + u
          /\ ChangeOf(t) = size + 2 * msize + m + v
        BY DEF StepOf, ChangeOf, ispt, iypt
    <2> HIDE DEF u, v, m
    <2> QED
        BY <2>1, <2>2, <2>3 DEF Vector
<1>2. ASSUME NEW s \in Slots
      PROVE  /\ Vector(StepOf(s)) \subseteq Addresses
             /\ Vector(ChangeOf(s)) \subseteq Addresses
             /\ size + s + 1 \in Addresses
             /\ size + msize + s + 1 \in Addresses
             /\ StepOf(s) \in Nat /\ ChangeOf(s) \in Nat
             /\ \A a \in Vector(StepOf(s)) : a > size + 2 * msize
             /\ \A a \in Vector(ChangeOf(s)) : a > size + 2 * msize
    <2> DEFINE u == s * size
               m == size * msize
    <2>1. u \in Nat /\ m \in Nat /\ u + size <= m
        BY Blocks
    <2>2. /\ StepOf(s) = size + 2 * msize + u
          /\ ChangeOf(s) = size + 2 * msize + m + u
          /\ Addresses = 1 .. m + m + size + 2 * msize
        BY <1>0 DEF StepOf, ChangeOf, ispt, iypt, Addresses
    <2>3. s \in Nat /\ s + 1 <= msize
        BY DEF Slots
    <2> HIDE DEF u, m
    <2> QED
        BY <2>1, <2>2, <2>3 DEF Vector
<1>3. Vector(0) \subseteq Addresses /\ Addresses \subseteq Nat
    <2> DEFINE m == size * msize
    <2>1. m \in Nat /\ Addresses = 1 .. m + m + size + 2 * msize
        BY <1>0, Monotone DEF Addresses
    <2> HIDE DEF m
    <2> QED
        BY <2>1 DEF Vector
<1> QED
    BY <1>1, <1>2, <1>3

LEMMA SlotsMove ==
    ASSUME point \in Slots
    PROVE  /\ NextPoint \in Slots
           /\ 0 \in Slots
           /\ \A i \in 1 .. msize : Back(i) \in Slots
           /\ \A i, j \in 1 .. msize : i # j => Back(i) # Back(j)
           /\ \A i \in 1 .. msize - 1 : Back(i) # point
           /\ Back(msize) = point
           /\ RhoAddress = size + Back(1) + 1
BY DEF NextPoint, Slots, Back, RhoAddress

-----------------------------------------------------------------------------
(* Types. *)

LEMMA TrialMoves ==
    ASSUME x \in Point, Trial
    PROVE  x' \in Point /\ x'.n = x.n + 1 /\ (~orthant => x'.on = TRUE)
<1>1. PICK on \in {TRUE, ~orthant} : x' = [n |-> x.n + 1, on |-> on]
    BY DEF Trial
<1>2. on \in BOOLEAN
    OBVIOUS
<1>3. ~orthant => on = TRUE
    OBVIOUS
<1> QED
    BY <1>1, <1>2, <1>3 DEF Point

LEMMA Cells ==
    ASSUME NEW kind \in Kinds, NEW k \in Nat, NEW p \in Point, NEW q \in Point
    PROVE  Of(kind, k, p, q) \in Cell
BY DEF Of, Cell

LEMMA StartIsPoint == Start \in Point
BY DEF Start, Point

LEMMA StoredTyped ==
    ASSUME TypeOK, iter \in Nat
    PROVE  Stored \in [Addresses -> Cell]
<1> SUFFICES ASSUME NEW a \in Addresses PROVE Stored[a] \in Cell
    BY DEF Stored
<1>1. w[a] \in Cell
    BY DEF TypeOK
<1>2. CASE a \in Vector(StepOf(point))
    <2>1. Stored[a] = Of("step", w[a].pair, saved, [x EXCEPT !.on = TRUE])
        BY <1>2 DEF Stored
    <2>2. w[a].pair \in Nat /\ saved \in Point /\ [x EXCEPT !.on = TRUE] \in Point
        BY <1>1 DEF Cell, TypeOK, Point
    <2> QED
        BY <2>1, <2>2, Cells DEF Kinds
<1>3. CASE a \notin Vector(StepOf(point)) /\ a \in Vector(ChangeOf(point))
    <2>1. Stored[a] = Of("change", iter, w[a - ChangeOf(point)].new, x)
        BY <1>3 DEF Stored
    <2>2. ChangeOf(point) \in Nat /\ Vector(0) \subseteq Addresses
        BY Layout DEF TypeOK
    <2>3. a - ChangeOf(point) \in Vector(0)
        BY <1>3, <2>2 DEF Vector
    <2>4. w[a - ChangeOf(point)] \in Cell
        BY <2>2, <2>3 DEF TypeOK
    <2>5. w[a - ChangeOf(point)].new \in Point /\ x \in Point
        BY <2>4 DEF Cell, TypeOK
    <2> QED
        BY <2>1, <2>5, Cells DEF Kinds
<1>4. CASE a \notin Vector(StepOf(point)) /\ a \notin Vector(ChangeOf(point))
    BY <1>1, <1>4 DEF Stored
<1> QED
    BY <1>2, <1>3, <1>4

\* How many pairs have been stored since the problem began.
Completed == IF pc = "main" THEN iter ELSE iter - 1

\* Where the members stand relative to each other in each phase.
Phases ==
    /\ pc \in {"caller", "main"} /\ iflag = 0 => iter = 0
    /\ pc \in {"caller", "main", "recursion", "L165", "L172"} => iflag \in {0, 1}
    /\ pc = "main" => (iflag = 1 <=> iter > 0)
    /\ pc = "caller" /\ iflag = 1 => iter > 0
    /\ pc = "recursion" => iter > 1
    /\ pc \in {"L165", "L172"} => iter > 0
    /\ pc = "L172" \/ (pc = "caller" /\ iflag = 1) =>
         iflag = 1 /\ nfev < maxfev /\ x.n - saved.n = nfev + 1
    /\ pc = "main" /\ iter > 0 => npt = Back(1) * size

TypesInv == TypeOK /\ Phases

LEMMA TypesInit == Init => TypesInv
BY StartIsPoint, Cells, SlotsMove DEF Init, TypesInv, TypeOK, Phases, Zero, Kinds, Slots, Start

LEMMA TypesStep == TypesInv /\ [Next]_vars => TypesInv'
<1> SUFFICES ASSUME TypesInv, [Next]_vars PROVE TypesInv'
    OBVIOUS
<1> USE DEF TypesInv
<1>t. TypeOK /\ Phases /\ iter \in Nat /\ point \in Slots /\ x \in Point /\ x.n \in Nat
      /\ saved \in Point /\ saved.n \in Nat /\ nfev \in Nat
    BY DEF TypeOK, Point
<1>1. CASE FirstCall
    <2>1. w' \in [Addresses -> Cell]
        BY <1>1, <1>t, Cells, StartIsPoint DEF FirstCall, Kinds, Zero
    <2>2. TypeOK'
        BY <1>1, <1>t, <2>1, SlotsMove DEF FirstCall, TypeOK
    <2>3. Phases'
        BY <1>1, <1>t DEF FirstCall, Phases
    <2> QED
        BY <2>2, <2>3
<1>2. CASE NextCall
    <2>1. TypeOK'
        BY <1>2, <1>t DEF NextCall, TypeOK
    <2>2. Phases'
        BY <1>2, <1>t DEF NextCall, Phases
    <2> QED
        BY <2>1, <2>2
<1>3. CASE FirstIteration
    <2>1. TypeOK'
        BY <1>3, <1>t DEF FirstIteration, TypeOK
    <2>2. Phases'
        BY <1>3, <1>t DEF FirstIteration, Phases
    <2> QED
        BY <2>1, <2>2
<1>4. CASE Iterate
    <2>1. w[iypt + npt + 1].pair \in Nat
        <3>1. Back(1) \in Slots
            BY <1>t, SlotsMove
        <3>2. iypt + npt = ChangeOf(Back(1))
            BY <1>4, <1>t DEF Iterate, Phases, ChangeOf
        <3>3. ChangeOf(Back(1)) + 1 \in Vector(ChangeOf(Back(1)))
            BY <3>1, Layout DEF Vector
        <3>4. iypt + npt + 1 \in Addresses
            BY <3>1, <3>2, <3>3, Layout
        <3> QED
            BY <3>4 DEF TypeOK, Cell
    <2>2. w' \in [Addresses -> Cell]
        BY <1>4, <1>t, <2>1, Cells, StartIsPoint DEF Iterate, Kinds, TypeOK
    <2>3. TypeOK'
        BY <1>4, <1>t, <2>2 DEF Iterate, TypeOK
    <2>4. Phases'
        BY <1>4, <1>t DEF Iterate, Phases
    <2> QED
        BY <2>3, <2>4
<1>5. CASE Recursion
    <2>1. w' \in [Addresses -> Cell]
        BY <1>5, <1>t, Cells, StartIsPoint DEF Recursion, Kinds, TypeOK
    <2>2. TypeOK'
        BY <1>5, <1>t, <2>1 DEF Recursion, TypeOK
    <2>3. Phases'
        BY <1>5, <1>t DEF Recursion, Phases
    <2> QED
        BY <2>2, <2>3
<1>6. CASE BeginSearch
    <2>1. w' \in [Addresses -> Cell]
        BY <1>6, <1>t, Cells, StartIsPoint DEF BeginSearch, Kinds, TypeOK
    <2>2. x' \in Point /\ x'.n = x.n + 1
        BY <1>6, <1>t, TrialMoves DEF BeginSearch
    <2>3. TypeOK'
        BY <1>6, <1>t, <2>1, <2>2 DEF BeginSearch, Trial, TypeOK
    <2>4. Phases'
        BY <1>6, <1>t, <2>2 DEF BeginSearch, Trial, Phases
    <2> QED
        BY <2>3, <2>4
<1>7. CASE NoDescent
    <2>1. w' \in [Addresses -> Cell]
        BY <1>7, <1>t, Cells, StartIsPoint DEF NoDescent, Kinds, TypeOK
    <2>2. TypeOK'
        BY <1>7, <1>t, <2>1 DEF NoDescent, TypeOK
    <2>3. Phases'
        BY <1>7, <1>t DEF NoDescent, Phases
    <2> QED
        BY <2>2, <2>3
<1>8. CASE TryAgain
    <2>1. x' \in Point /\ x'.n = x.n + 1
        BY <1>8, <1>t, TrialMoves DEF TryAgain
    <2>2. TypeOK'
        BY <1>8, <1>t, <2>1 DEF TryAgain, Trial, TypeOK
    <2>3. Phases'
        BY <1>8, <1>t, <2>1 DEF TryAgain, Trial, Phases
    <2> QED
        BY <2>2, <2>3
<1>9. CASE SearchFails
    <2>1. TypeOK'
        BY <1>9, <1>t DEF SearchFails, TypeOK, Phases
    <2>2. Phases'
        BY <1>9, <1>t DEF SearchFails, Phases
    <2> QED
        BY <2>1, <2>2
<1>10. CASE Accept
    <2>1. NextPoint \in Slots
        BY <1>t, SlotsMove
    <2>2. TypeOK'
        BY <1>10, <1>t, <2>1, StoredTyped DEF Accept, TypeOK, Phases
    <2>3. Back(1)' = point
        BY <1>10, <1>t DEF Accept, Back, NextPoint, Slots
    <2>4. Phases'
        BY <1>10, <1>t, <2>3 DEF Accept, Phases
    <2> QED
        BY <2>2, <2>4
<1>11. CASE Terminate
    <2>1. w' \in [Addresses -> Cell]
        BY <1>11, Cells, StartIsPoint DEF Terminate, Kinds, Zero
    <2>2. npt' \in {slot * size : slot \in Slots} /\ 0 \in Slots
        BY <1>11, <1>t, SlotsMove DEF Terminate
    <2>3. TypeOK'
        BY <1>11, <1>t, <2>1, <2>2 DEF Terminate, TypeOK
    <2>4. Phases'
        BY <1>11, <1>t DEF Terminate, Phases
    <2> QED
        BY <2>3, <2>4
<1>12. CASE UNCHANGED vars
    <2>1. TypeOK'
        BY <1>12, <1>t DEF vars, TypeOK
    <2>2. Back(1)' = Back(1)
        BY <1>12 DEF vars, Back
    <2>3. Phases'
        BY <1>12, <1>t, <2>2 DEF vars, Phases
    <2> QED
        BY <2>1, <2>3
<1> QED
    BY <1>1, <1>2, <1>3, <1>4, <1>5, <1>6, <1>7, <1>8, <1>9, <1>10, <1>11, <1>12
    DEF Next, Optimize

-----------------------------------------------------------------------------
(* The ring. *)

Searching == pc = "L172" \/ (pc = "caller" /\ iflag = 1)

\* The point the latest pair ends at and the next one begins at.
Base == IF Searching THEN saved ELSE x

\* The step of the pair that is i pairs old; the oldest gives way to the direction.
StepHeld(i) ==
    i < msize \/ pc \in {"main", "recursion"} =>
        \A a \in 1 .. size :
            LET change == w[ChangeOf(Back(i)) + a] IN
            w[StepOf(Back(i)) + a] =
                Of("step", Completed + 1 - i, change.old, [change.new EXCEPT !.on = TRUE])

\* Its change of gradient, which ends where the next one begins.
ChangeHeld(i) ==
    \A a \in 1 .. size :
        LET change == w[ChangeOf(Back(i)) + a] IN
        /\ change.kind = "change" /\ change.pair = Completed + 1 - i
        /\ change.old = w[ChangeOf(Back(i)) + 1].old
        /\ change.new = IF i = 1 THEN Base ELSE w[ChangeOf(Back(i - 1)) + 1].old
        /\ ~orthant => change.new.on = TRUE

\* Its 1/ys, which the newest pair gets when the next iteration begins.
RhoHeld(i) ==
    i > 1 \/ pc # "main" =>
        w[size + Back(i) + 1] = Of("rho", Completed + 1 - i, Start, Start)

PairsHeld ==
    pc # "failed" =>
        \A i \in 1 .. msize : i <= Completed =>
            StepHeld(i) /\ ChangeHeld(i) /\ RhoHeld(i)

\* What the line search will come back to.
BaseHeld ==
    /\ ~orthant => x.on = TRUE /\ saved.on = TRUE
    /\ pc = "main" /\ iter = 0 =>
         point = 0 /\ Holds(StepOf(point), Of("direction", 1, x, x))
    /\ pc \in {"recursion", "L165"} => (orthant => xi = x)
    /\ pc = "L165" => Holds(StepOf(point), Of("direction", iter, x, x))
    /\ Searching =>
         /\ Holds(0, Of("gradient", iter, saved, saved))
         /\ Holds(StepOf(point), Of("direction", iter, saved, saved))
         /\ orthant => xi = saved

IInv == TypesInv /\ BaseHeld /\ PairsHeld

\* Addresses of the parts of different slots.
LEMMA CellsApart ==
    ASSUME NEW s \in Slots, NEW a \in 1 .. size
    PROVE  /\ StepOf(s) + a \in Addresses /\ StepOf(s) + a \in Vector(StepOf(s))
           /\ ChangeOf(s) + a \in Addresses /\ ChangeOf(s) + a \in Vector(ChangeOf(s))
           /\ size + s + 1 \in Addresses
           /\ StepOf(s) + a \notin Vector(0) /\ ChangeOf(s) + a \notin Vector(0)
           /\ size + s + 1 \notin Vector(0)
           /\ \A t \in Slots :
                /\ StepOf(s) + a # size + t + 1 /\ ChangeOf(s) + a # size + t + 1
                /\ StepOf(s) + a # size + msize + t + 1
                /\ ChangeOf(s) + a # size + msize + t + 1
                /\ size + s + 1 # size + msize + t + 1
                /\ s # t => size + s + 1 # size + t + 1
                /\ ChangeOf(s) + a \notin Vector(StepOf(t))
                /\ StepOf(s) + a \notin Vector(ChangeOf(t))
                /\ s # t => /\ StepOf(s) + a \notin Vector(StepOf(t))
                            /\ ChangeOf(s) + a \notin Vector(ChangeOf(t))
                /\ size + s + 1 \notin Vector(StepOf(t))
                /\ size + s + 1 \notin Vector(ChangeOf(t))
<1>1. StepOf(s) \in Nat /\ ChangeOf(s) \in Nat
    BY Layout
<1>2. StepOf(s) + a \in Vector(StepOf(s)) /\ ChangeOf(s) + a \in Vector(ChangeOf(s))
    BY <1>1 DEF Vector
<1>3. StepOf(s) + a > size + 2 * msize /\ ChangeOf(s) + a > size + 2 * msize
    BY <1>2, Layout
<1>4. StepOf(s) + a \in Addresses /\ ChangeOf(s) + a \in Addresses /\ size + s + 1 \in Addresses
    BY <1>2, Layout
<1>5. /\ StepOf(s) + a \notin Vector(0) /\ ChangeOf(s) + a \notin Vector(0)
      /\ size + s + 1 \notin Vector(0)
    BY <1>1, <1>3 DEF Vector, Slots
<1>6. ASSUME NEW t \in Slots
      PROVE  /\ StepOf(s) + a # size + t + 1 /\ ChangeOf(s) + a # size + t + 1
             /\ StepOf(s) + a # size + msize + t + 1
             /\ ChangeOf(s) + a # size + msize + t + 1
             /\ size + s + 1 # size + msize + t + 1
             /\ s # t => size + s + 1 # size + t + 1
    BY <1>1, <1>3 DEF Slots
<1>7. ASSUME NEW t \in Slots
      PROVE  /\ ChangeOf(s) + a \notin Vector(StepOf(t))
             /\ StepOf(s) + a \notin Vector(ChangeOf(t))
             /\ s # t => /\ StepOf(s) + a \notin Vector(StepOf(t))
                         /\ ChangeOf(s) + a \notin Vector(ChangeOf(t))
    BY <1>2, Layout
<1>8. ASSUME NEW t \in Slots
      PROVE  size + s + 1 \notin Vector(StepOf(t)) /\ size + s + 1 \notin Vector(ChangeOf(t))
    <2>1. \A b \in Vector(StepOf(t)) \cup Vector(ChangeOf(t)) : b > size + 2 * msize
        BY Layout
    <2>2. size + s + 1 <= size + 2 * msize
        BY DEF Slots
    <2> QED
        BY <2>1, <2>2 DEF Slots
<1> QED
    BY <1>2, <1>4, <1>5, <1>6, <1>7, <1>8

\* A step that keeps point, the age of the pairs, the base and their cells.
LEMMA PairsKept ==
    ASSUME TypeOK, TypeOK', PairsHeld, pc # "failed", Completed \in Int,
           point' = point, Completed' = Completed, Base' = Base, orthant' = orthant,
           pc' \in {"main", "recursion"} => pc \in {"main", "recursion"},
           pc' # "main" => pc # "main",
           \A s \in Slots, a \in 1 .. size :
              /\ w'[ChangeOf(s) + a] = w[ChangeOf(s) + a]
              /\ s # point \/ pc' \in {"main", "recursion"} =>
                   w'[StepOf(s) + a] = w[StepOf(s) + a]
              /\ w'[size + s + 1] = w[size + s + 1]
    PROVE  PairsHeld'
<1> SUFFICES ASSUME pc' # "failed", NEW i \in 1 .. msize, i <= Completed'
             PROVE  StepHeld(i)' /\ ChangeHeld(i)' /\ RhoHeld(i)'
    BY DEF PairsHeld
<1>1. StepHeld(i) /\ ChangeHeld(i) /\ RhoHeld(i)
    BY DEF PairsHeld
<1>2. point \in Slots /\ Back(i)' = Back(i) /\ Back(i) \in Slots
      /\ Back(i - 1)' = Back(i - 1) /\ (i > 1 => Back(i - 1) \in Slots)
    <2>1. point \in Slots
        BY DEF TypeOK
    <2>2. i > 1 => i - 1 \in 1 .. msize
        OBVIOUS
    <2> QED
        BY <2>1, <2>2, SlotsMove DEF Back
<1>3. StepHeld(i)'
    <2>1. i < msize => Back(i) # point
        BY <1>2, SlotsMove
    <2> SUFFICES ASSUME i < msize \/ pc' \in {"main", "recursion"}, NEW a \in 1 .. size
                 PROVE  w'[StepOf(Back(i)) + a] =
                          Of("step", Completed + 1 - i, w'[ChangeOf(Back(i)) + a].old,
                             [w'[ChangeOf(Back(i)) + a].new EXCEPT !.on = TRUE])
        BY <1>2 DEF StepHeld, StepOf, ChangeOf
    <2>2. w'[StepOf(Back(i)) + a] = w[StepOf(Back(i)) + a]
        BY <1>2, <2>1
    <2>3. w'[ChangeOf(Back(i)) + a] = w[ChangeOf(Back(i)) + a]
        BY <1>2
    <2> QED
        BY <1>1, <2>2, <2>3 DEF StepHeld
<1>4. ChangeHeld(i)'
    <2> SUFFICES ASSUME NEW a \in 1 .. size
                 PROVE  LET change == w'[ChangeOf(Back(i)) + a] IN
                        /\ change.kind = "change" /\ change.pair = Completed + 1 - i
                        /\ change.old = w'[ChangeOf(Back(i)) + 1].old
                        /\ change.new = IF i = 1 THEN Base
                                        ELSE w'[ChangeOf(Back(i - 1)) + 1].old
                        /\ ~orthant => change.new.on = TRUE
        BY <1>2, ZenonT(60) DEF ChangeHeld, ChangeOf
    <2>1. 1 \in 1 .. size
        OBVIOUS
    <2>2. /\ w'[ChangeOf(Back(i)) + a] = w[ChangeOf(Back(i)) + a]
          /\ w'[ChangeOf(Back(i)) + 1] = w[ChangeOf(Back(i)) + 1]
          /\ i > 1 => w'[ChangeOf(Back(i - 1)) + 1] = w[ChangeOf(Back(i - 1)) + 1]
        BY <1>2, <2>1
    <2> QED
        BY <1>1, <2>2 DEF ChangeHeld
<1>5. RhoHeld(i)'
    <2>1. 1 \in 1 .. size
        OBVIOUS
    <2>2. w'[size + Back(i) + 1] = w[size + Back(i) + 1]
        BY <1>2, <2>1
    <2>3. (size + Back(i) + 1)' = size + Back(i) + 1
        BY <1>2
    <2> QED
        BY <1>1, <2>2, <2>3, <1>2 DEF RhoHeld
<1> QED
    BY <1>3, <1>4, <1>5

-----------------------------------------------------------------------------
(* Every step keeps what the line search comes back to. *)

LEMMA SizeAtLeastOne == 1 \in 1 .. size
OBVIOUS

\* What TypesInv gives in every state.
LEMMA Typed ==
    ASSUME TypesInv
    PROVE  /\ iter \in Nat /\ point \in Slots /\ x \in Point /\ saved \in Point
           /\ Completed \in Int /\ msize \in Nat /\ w \in [Addresses -> Cell]
           /\ orthant \in BOOLEAN
BY DEF TypesInv, TypeOK, Completed

LEMMA BaseStep == TypesInv /\ BaseHeld /\ [Next]_vars => BaseHeld'
<1> SUFFICES ASSUME TypesInv, BaseHeld, [Next]_vars PROVE BaseHeld'
    OBVIOUS
<1>p. Phases
    BY DEF TypesInv
<1>t. /\ point \in Slots /\ x \in Point /\ saved \in Point /\ iter \in Nat
      /\ w \in [Addresses -> Cell] /\ orthant \in BOOLEAN
    BY Typed
<1>a. /\ \A s \in Slots : /\ Vector(StepOf(s)) \subseteq Addresses
                         /\ Vector(StepOf(s)) \cap Vector(0) = {}
      /\ Vector(0) \subseteq Addresses
    <2>1. ASSUME NEW s \in Slots
          PROVE  Vector(StepOf(s)) \subseteq Addresses /\ Vector(StepOf(s)) \cap Vector(0) = {}
        <3>1. /\ Vector(StepOf(s)) \subseteq Addresses /\ StepOf(s) \in Nat
              /\ \A a \in Vector(StepOf(s)) : a > size + 2 * msize
            BY Layout
        <3>2. \A a \in Vector(0) : a <= size
            BY DEF Vector
        <3> QED
            BY <3>1, <3>2 DEF Vector
    <2> QED
        BY <2>1, Layout
<1>1. CASE FirstCall
    <2>1. ispt = StepOf(0) /\ 0 \in Slots
        BY <1>t, SlotsMove DEF StepOf, ispt
    <2>2. Holds(StepOf(point), Of("direction", 1, x, x))'
        BY <1>1, <1>a, <2>1 DEF FirstCall, Holds, StepOf, ispt
    <2> QED
        BY <1>1, <2>2 DEF FirstCall, BaseHeld, Searching
<1>2. CASE NextCall
    BY <1>2 DEF NextCall, BaseHeld, Searching, Holds, StepOf
<1>3. CASE FirstIteration
    BY <1>3 DEF FirstIteration, BaseHeld, Searching, Holds, StepOf
<1>4. CASE Iterate
    BY <1>4 DEF Iterate, BaseHeld, Searching
<1>5. CASE Recursion
    <2>1. Holds(StepOf(point), Of("direction", iter, x, x))'
        BY <1>5, <1>t, <1>a DEF Recursion, Holds, StepOf
    <2> QED
        BY <1>5, <2>1 DEF Recursion, BaseHeld, Searching
<1>6. CASE BeginSearch
    <2>1. Holds(0, Of("gradient", iter, saved, saved))'
        BY <1>6, <1>t, <1>a DEF BeginSearch, Holds
    <2>2. Holds(StepOf(point), Of("direction", iter, saved, saved))'
        BY <1>6, <1>t, <1>a DEF BeginSearch, Holds, StepOf, BaseHeld
    <2>3. ~orthant => x'.on = TRUE
        BY <1>6, <1>t, TrialMoves DEF BeginSearch
    <2> QED
        BY <1>6, <2>1, <2>2, <2>3 DEF BeginSearch, Trial, BaseHeld, Searching
<1>7. CASE NoDescent
    BY <1>7 DEF NoDescent, BaseHeld, Searching
<1>8. CASE TryAgain
    <2>1. ~orthant => x'.on = TRUE
        BY <1>8, <1>t, TrialMoves DEF TryAgain
    <2> QED
        BY <1>8, <2>1 DEF TryAgain, Trial, BaseHeld, Searching, Holds, StepOf
<1>9. CASE SearchFails
    BY <1>9 DEF SearchFails, BaseHeld, Searching
<1>10. CASE Accept
    BY <1>10, <1>p DEF Accept, BaseHeld, Searching, Phases
<1>11. CASE Terminate
    BY <1>11 DEF Terminate, BaseHeld, Searching
<1>12. CASE UNCHANGED vars
    BY <1>12 DEF vars, BaseHeld, Searching, Holds, StepOf
<1> QED
    BY <1>1, <1>2, <1>3, <1>4, <1>5, <1>6, <1>7, <1>8, <1>9, <1>10, <1>11, <1>12
    DEF Next, Optimize

-----------------------------------------------------------------------------
(* Every step keeps the ring of pairs. *)

\* 1/ys is stored in the slot of the newest pair, and only there.
LEMMA IteratePairs ==
    ASSUME TypesInv, PairsHeld, Iterate
    PROVE  PairsHeld'
<1>t. /\ point \in Slots /\ iter \in Nat /\ w \in [Addresses -> Cell] /\ Phases
      /\ 1 \in 1 .. size /\ 1 \in 1 .. msize
    BY Typed DEF TypesInv
<1>b. /\ pc = "main" /\ pc' = "recursion" /\ iter > 0 /\ iter' = iter + 1
      /\ point' = point /\ orthant' = orthant /\ Base' = Base
      /\ Completed = iter /\ Completed' = iter
    BY <1>t DEF Iterate, Completed, Base, Searching
<1>c. w[iypt + npt + 1].pair = iter
    <2>1. iypt + npt = ChangeOf(Back(1))
        BY <1>b, <1>t DEF Phases, ChangeOf
    <2>2. ChangeHeld(1)
        BY <1>b, <1>t DEF PairsHeld
    <2>3. w[ChangeOf(Back(1)) + 1].pair = Completed + 1 - 1
        BY <1>t, <2>2 DEF ChangeHeld
    <2> QED
        BY <1>b, <1>t, <2>1, <2>3
<1> SUFFICES ASSUME NEW i \in 1 .. msize, i <= Completed'
             PROVE  StepHeld(i)' /\ ChangeHeld(i)' /\ RhoHeld(i)'
    BY DEF PairsHeld
<1>d. StepHeld(i) /\ ChangeHeld(i) /\ RhoHeld(i)
    BY <1>b DEF PairsHeld
<1>e. /\ Back(i)' = Back(i) /\ Back(i - 1)' = Back(i - 1)
      /\ Back(i) \in Slots /\ Back(1) \in Slots
      /\ i > 1 => Back(i - 1) \in Slots /\ Back(i) # Back(1)
    <2>1. i > 1 => i - 1 \in 1 .. msize
        OBVIOUS
    <2> QED
        BY <1>b, <1>t, <2>1, SlotsMove DEF Back
<1>f. \A s \in Slots, a \in 1 .. size :
        /\ w'[ChangeOf(s) + a] = w[ChangeOf(s) + a]
        /\ w'[StepOf(s) + a] = w[StepOf(s) + a]
        /\ s # Back(1) => w'[size + s + 1] = w[size + s + 1]
    <2> SUFFICES ASSUME NEW s \in Slots, NEW a \in 1 .. size
                 PROVE  /\ w'[ChangeOf(s) + a] = w[ChangeOf(s) + a]
                        /\ w'[StepOf(s) + a] = w[StepOf(s) + a]
                        /\ s # Back(1) => w'[size + s + 1] = w[size + s + 1]
        OBVIOUS
    <2>1. RhoAddress = size + Back(1) + 1
        BY <1>t, SlotsMove
    <2> HIDE DEF Slots
    <2> QED
        BY <1>e, <2>1, CellsApart DEF Iterate
<1>g. w'[size + Back(1) + 1] = Of("rho", iter, Start, Start)
    <2>1. RhoAddress = size + Back(1) + 1
        BY <1>t, SlotsMove
    <2> QED
        BY <1>c, <1>e, <1>t, <2>1, CellsApart DEF Iterate
<1>1. StepHeld(i)'
    <2> SUFFICES ASSUME NEW a \in 1 .. size
                 PROVE  w'[StepOf(Back(i)) + a] =
                          Of("step", iter + 1 - i, w'[ChangeOf(Back(i)) + a].old,
                             [w'[ChangeOf(Back(i)) + a].new EXCEPT !.on = TRUE])
        BY <1>b, <1>e DEF StepHeld, StepOf, ChangeOf
    <2>1. /\ w'[StepOf(Back(i)) + a] = w[StepOf(Back(i)) + a]
          /\ w'[ChangeOf(Back(i)) + a] = w[ChangeOf(Back(i)) + a]
        BY <1>e, <1>f
    <2> QED
        BY <1>b, <1>d, <2>1 DEF StepHeld
<1>2. ChangeHeld(i)'
    <2> SUFFICES ASSUME NEW a \in 1 .. size
                 PROVE  LET change == w'[ChangeOf(Back(i)) + a] IN
                        /\ change.kind = "change" /\ change.pair = iter + 1 - i
                        /\ change.old = w'[ChangeOf(Back(i)) + 1].old
                        /\ change.new = IF i = 1 THEN Base
                                        ELSE w'[ChangeOf(Back(i - 1)) + 1].old
                        /\ ~orthant => change.new.on = TRUE
        BY <1>b, <1>e DEF ChangeHeld, ChangeOf
    <2>1. /\ w'[ChangeOf(Back(i)) + a] = w[ChangeOf(Back(i)) + a]
          /\ w'[ChangeOf(Back(i)) + 1] = w[ChangeOf(Back(i)) + 1]
          /\ i > 1 => w'[ChangeOf(Back(i - 1)) + 1] = w[ChangeOf(Back(i - 1)) + 1]
        BY <1>e, <1>f, <1>t
    <2> QED
        BY <1>b, <1>d, <2>1 DEF ChangeHeld
<1>3. RhoHeld(i)'
    <2>1. i > 1 => w'[size + Back(i) + 1] = w[size + Back(i) + 1]
        BY <1>e, <1>f, <1>t
    <2>2. (size + Back(i) + 1)' = size + Back(i) + 1
        BY <1>e
    <2>3. CASE i = 1
        BY <1>b, <1>g, <1>t, <2>2, <2>3 DEF RhoHeld
    <2>4. CASE i > 1
        BY <1>b, <1>d, <2>1, <2>2, <2>4 DEF RhoHeld
    <2> QED
        BY <2>3, <2>4
<1> QED
    BY <1>1, <1>2, <1>3

\* The new pair takes the slot at point; the others become one pair older.
LEMMA AcceptPairs ==
    ASSUME TypesInv, BaseHeld, PairsHeld, Accept
    PROVE  PairsHeld'
<1>t. /\ point \in Slots /\ iter \in Nat /\ w \in [Addresses -> Cell]
      /\ 1 \in 1 .. size /\ 1 \in 1 .. msize /\ x \in Point /\ saved \in Point
    BY Typed
<1>b. /\ pc = "L172" /\ pc' = "main" /\ iter' = iter /\ x' = x /\ w' = Stored
      /\ point' = NextPoint /\ orthant' = orthant /\ Base = saved /\ Base' = x
      /\ Completed = iter - 1 /\ Completed' = iter
    BY <1>t DEF Accept, Completed, Base, Searching
<1>h. /\ Holds(0, Of("gradient", iter, saved, saved))
      /\ Holds(StepOf(point), Of("direction", iter, saved, saved))
      /\ ~orthant => x.on = TRUE
    BY <1>b DEF BaseHeld, Searching
<1>f. ASSUME NEW s \in Slots, s # point, NEW a \in 1 .. size
      PROVE  /\ w'[ChangeOf(s) + a] = w[ChangeOf(s) + a]
             /\ w'[StepOf(s) + a] = w[StepOf(s) + a]
             /\ w'[size + s + 1] = w[size + s + 1]
    BY <1>b, <1>f, <1>t, CellsApart DEF Stored
<1>n. ASSUME NEW a \in 1 .. size
      PROVE  /\ w'[StepOf(point) + a] = Of("step", iter, saved, [x EXCEPT !.on = TRUE])
             /\ w'[ChangeOf(point) + a] = Of("change", iter, saved, x)
    <2>1. /\ StepOf(point) + a \in Vector(StepOf(point))
          /\ StepOf(point) + a \in Addresses
          /\ ChangeOf(point) + a \in Addresses
          /\ ChangeOf(point) + a \in Vector(ChangeOf(point))
          /\ ChangeOf(point) + a \notin Vector(StepOf(point))
        BY <1>t, CellsApart
    <2>2. /\ w[StepOf(point) + a].pair = iter
          /\ w[a].new = saved
        <3>1. a \in Vector(0)
            BY DEF Vector
        <3>2. w[StepOf(point) + a] = Of("direction", iter, saved, saved)
            BY <1>h, <2>1 DEF Holds
        <3>3. w[a] = Of("gradient", iter, saved, saved)
            BY <1>h, <3>1 DEF Holds
        <3> QED
            BY <3>2, <3>3 DEF Of
    <2>3. (ChangeOf(point) + a) - ChangeOf(point) = a
        BY <1>t, Layout
    <2>4. w'[StepOf(point) + a] = Of("step", w[StepOf(point) + a].pair, saved, [x EXCEPT !.on = TRUE])
        BY <1>b, <2>1 DEF Stored
    <2>5. w'[ChangeOf(point) + a] =
             Of("change", iter, w[(ChangeOf(point) + a) - ChangeOf(point)].new, x)
        <3> DEFINE c == ChangeOf(point) + a
        <3>1. /\ c \in Addresses /\ c \in Vector(ChangeOf(point))
              /\ c \notin Vector(StepOf(point))
            BY <2>1
        <3> HIDE DEF c
        <3>2. w'[c] = Of("change", iter, w[c - ChangeOf(point)].new, x)
            BY <1>b, <3>1 DEF Stored
        <3> QED
            BY <3>2 DEF c
    <2> QED
        BY <2>2, <2>3, <2>4, <2>5
<1> SUFFICES ASSUME NEW i \in 1 .. msize, i <= iter
             PROVE  StepHeld(i)' /\ ChangeHeld(i)' /\ RhoHeld(i)'
    BY <1>b DEF PairsHeld
<1>1. CASE i = 1
    <2>1. Back(i)' = point
        BY <1>b, <1>t, <1>1 DEF Back, NextPoint, Slots
    <2>2. StepHeld(i)'
        <3> SUFFICES ASSUME NEW a \in 1 .. size
                     PROVE  w'[StepOf(point) + a] =
                              Of("step", iter + 1 - i, w'[ChangeOf(point) + a].old,
                                 [w'[ChangeOf(point) + a].new EXCEPT !.on = TRUE])
            BY <1>b, <2>1 DEF StepHeld, StepOf, ChangeOf
        <3>1. w'[ChangeOf(point) + a].old = saved /\ w'[ChangeOf(point) + a].new = x
            BY <1>n DEF Of
        <3>2. iter + 1 - i = iter
            BY <1>1, <1>t
        <3> QED
            BY <1>n, <3>1, <3>2
    <2>3. ChangeHeld(i)'
        <3> SUFFICES ASSUME NEW a \in 1 .. size
                     PROVE  LET change == w'[ChangeOf(point) + a] IN
                            /\ change.kind = "change" /\ change.pair = iter + 1 - i
                            /\ change.old = w'[ChangeOf(point) + 1].old
                            /\ change.new = x
                            /\ ~orthant => change.new.on = TRUE
            BY <1>b, <1>1, <2>1 DEF ChangeHeld, ChangeOf
        <3> QED
            BY <1>n, <1>1, <1>t, <1>h DEF Of
    <2>4. RhoHeld(i)'
        BY <1>b, <1>1 DEF RhoHeld
    <2> QED
        BY <2>2, <2>3, <2>4
<1>2. CASE i > 1
    <2>1. /\ i - 1 \in 1 .. msize - 1 /\ i - 1 <= Completed
          /\ Completed' + 1 - i = Completed + 1 - (i - 1)
          /\ i - 1 > 1 => i - 2 \in 1 .. msize - 1
          /\ (i - 1) - 1 = i - 2
        BY <1>b, <1>t, <1>2
    <2>2. StepHeld(i - 1) /\ ChangeHeld(i - 1) /\ RhoHeld(i - 1)
        BY <1>b, <2>1 DEF PairsHeld
    <2>3. /\ Back(i)' = Back(i - 1) /\ Back(i - 1) \in Slots /\ Back(i - 1) # point
        BY <1>b, <1>t, <2>1, SlotsMove DEF Back, NextPoint, Slots
    <2>4. /\ i - 1 = 1 => Back(i - 1)' = point
          /\ i - 1 > 1 => /\ Back(i - 1)' = Back(i - 2)
                          /\ Back(i - 2) \in Slots /\ Back(i - 2) # point
        BY <1>b, <1>t, <2>1, SlotsMove DEF Back, NextPoint, Slots
    <2>5. StepHeld(i)'
        <3> SUFFICES ASSUME NEW a \in 1 .. size
                     PROVE  w'[StepOf(Back(i - 1)) + a] =
                              Of("step", Completed' + 1 - i, w'[ChangeOf(Back(i - 1)) + a].old,
                                 [w'[ChangeOf(Back(i - 1)) + a].new EXCEPT !.on = TRUE])
            BY <2>3 DEF StepHeld, StepOf, ChangeOf
        <3>1. /\ w'[StepOf(Back(i - 1)) + a] = w[StepOf(Back(i - 1)) + a]
              /\ w'[ChangeOf(Back(i - 1)) + a] = w[ChangeOf(Back(i - 1)) + a]
            BY <1>f, <2>3
        <3>2. i - 1 < msize
            BY <2>1
        <3> QED
            BY <2>1, <2>2, <3>1, <3>2 DEF StepHeld
    <2>6. ChangeHeld(i)'
        <3> DEFINE prev == Back(i - 1)'
        <3>0. prev = IF i - 1 = 1 THEN point ELSE Back(i - 2)
            BY <2>1, <2>4
        <3>1. Back(i - 1)' = prev /\ Back(i)' = Back(i - 1)
            BY <2>3
        <3>a. orthant' = orthant
            BY <1>b
        <3> HIDE DEF prev
        <3>2. ASSUME NEW a \in 1 .. size
              PROVE  LET change == w'[ChangeOf(Back(i - 1)) + a] IN
                     /\ change.kind = "change" /\ change.pair = Completed' + 1 - i
                     /\ change.old = w'[ChangeOf(Back(i - 1)) + 1].old
                     /\ change.new = w'[ChangeOf(prev) + 1].old
                     /\ ~orthant => change.new.on = TRUE
            <4>1. /\ w'[ChangeOf(Back(i - 1)) + a] = w[ChangeOf(Back(i - 1)) + a]
                  /\ w'[ChangeOf(Back(i - 1)) + 1] = w[ChangeOf(Back(i - 1)) + 1]
                BY <1>f, <1>t, <2>3
            <4>2. CASE i - 1 = 1
                <5>1. w'[ChangeOf(prev) + 1].old = saved
                    BY <1>n, <1>t, <3>0, <4>2 DEF Of
                <5> QED
                    BY <1>b, <2>1, <2>2, <4>1, <4>2, <5>1 DEF ChangeHeld
            <4>3. CASE i - 1 # 1
                <5>1. i - 1 > 1
                    BY <2>1, <4>3
                <5>2. w'[ChangeOf(prev) + 1].old = w[ChangeOf(Back(i - 2)) + 1].old
                    BY <1>f, <1>t, <2>4, <3>0, <4>3, <5>1
                <5> QED
                    BY <1>b, <2>1, <2>2, <4>1, <4>3, <5>2 DEF ChangeHeld
            <4> QED
                BY <4>2, <4>3
        <3>3. i # 1
            BY <1>2
        <3>4. \A a \in 1 .. size :
                LET change == w'[ChangeOf(Back(i - 1)) + a] IN
                /\ change.kind = "change" /\ change.pair = Completed' + 1 - i
                /\ change.old = w'[ChangeOf(Back(i - 1)) + 1].old
                /\ change.new = IF i = 1 THEN Base' ELSE w'[ChangeOf(prev) + 1].old
                /\ ~orthant' => change.new.on = TRUE
            BY <3>2, <3>3, <3>a
        <3> DEFINE slot == Back(i - 1)
        <3>5. \A a \in 1 .. size :
                LET change == w'[ChangeOf(slot) + a] IN
                /\ change.kind = "change" /\ change.pair = Completed' + 1 - i
                /\ change.old = w'[ChangeOf(slot) + 1].old
                /\ change.new = IF i = 1 THEN Base' ELSE w'[ChangeOf(prev) + 1].old
                /\ ~orthant' => change.new.on = TRUE
            BY <3>4
        <3>6. Back(i)' = slot /\ Back(i - 1)' = prev
            BY <3>1
        <3> HIDE DEF slot
        <3> QED
            BY <3>5, <3>6 DEF ChangeHeld, ChangeOf
    <2>7. RhoHeld(i)'
        <3>1. w'[size + Back(i - 1) + 1] = w[size + Back(i - 1) + 1]
            BY <1>f, <1>t, <2>3
        <3>2. (size + Back(i) + 1)' = size + Back(i - 1) + 1
            BY <2>3
        <3> QED
            BY <1>b, <2>1, <2>2, <3>1, <3>2 DEF RhoHeld
    <2> QED
        BY <2>5, <2>6, <2>7
<1> QED
    BY <1>1, <1>2

LEMMA PairsStep == TypesInv /\ BaseHeld /\ PairsHeld /\ [Next]_vars => PairsHeld'
<1> SUFFICES ASSUME TypesInv, BaseHeld, PairsHeld, [Next]_vars PROVE PairsHeld'
    OBVIOUS
<1>p. Phases /\ TypeOK
    BY DEF TypesInv
<1>q. TypeOK'
    BY TypesStep DEF TypesInv
<1>t. /\ point \in Slots /\ x \in Point /\ iter \in Nat /\ w \in [Addresses -> Cell]
      /\ Completed \in Int
    BY Typed
\* No pair is there before the second iteration.
<1>n. ASSUME Completed' < 1 PROVE PairsHeld'
    <2>1. Completed' \in Int
        BY <1>q DEF Completed, TypeOK
    <2> QED
        BY <1>n, <2>1 DEF PairsHeld
<1>1. CASE FirstCall
    BY <1>1, <1>n, <1>p DEF FirstCall, Completed, Phases
<1>2. CASE NextCall
    <2>1. /\ point' = point /\ Completed' = Completed /\ Base' = Base /\ w' = w
          /\ orthant' = orthant /\ pc # "failed" /\ pc # "main"
          /\ pc' \notin {"main", "recursion"}
        BY <1>2 DEF NextCall, Completed, Base, Searching
    <2> QED
        BY <1>p, <1>q, <1>t, <2>1, PairsKept
<1>3. CASE FirstIteration
    BY <1>3, <1>n DEF FirstIteration, Completed
<1>4. CASE Iterate
    BY <1>4, IteratePairs
<1>5. CASE Recursion
    <2>1. /\ point' = point /\ Completed' = Completed /\ Base' = Base
          /\ orthant' = orthant /\ pc # "failed" /\ pc # "main"
          /\ pc' \notin {"main", "recursion"}
        BY <1>5 DEF Recursion, Completed, Base, Searching
    <2>2. \A i \in 1 .. Bound : Back(i) \in Slots
        <3>1. 1 .. Bound \subseteq 1 .. msize
            BY <1>t DEF Bound
        <3> QED
            BY <1>t, <3>1, SlotsMove
    <2>3. ASSUME NEW s \in Slots, NEW a \in 1 .. size
          PROVE  /\ w'[ChangeOf(s) + a] = w[ChangeOf(s) + a]
                 /\ s # point => w'[StepOf(s) + a] = w[StepOf(s) + a]
                 /\ w'[size + s + 1] = w[size + s + 1]
        BY <1>5, <1>t, <2>2, CellsApart DEF Recursion
    <2> QED
        BY <1>p, <1>q, <1>t, <2>1, <2>3, PairsKept
<1>6. CASE BeginSearch
    <2>1. /\ point' = point /\ Completed' = Completed /\ Base' = Base
          /\ orthant' = orthant /\ pc # "failed" /\ pc # "main"
          /\ pc' \notin {"main", "recursion"}
        BY <1>6 DEF BeginSearch, Trial, Completed, Base, Searching
    <2>2. ASSUME NEW s \in Slots, NEW a \in 1 .. size
          PROVE  /\ w'[ChangeOf(s) + a] = w[ChangeOf(s) + a]
                 /\ w'[StepOf(s) + a] = w[StepOf(s) + a]
                 /\ w'[size + s + 1] = w[size + s + 1]
        BY <1>6, CellsApart DEF BeginSearch
    <2> QED
        BY <1>p, <1>q, <1>t, <2>1, <2>2, PairsKept
<1>7. CASE NoDescent
    BY <1>7 DEF NoDescent, PairsHeld
<1>8. CASE TryAgain
    <2>1. /\ point' = point /\ Completed' = Completed /\ Base' = Base /\ w' = w
          /\ orthant' = orthant /\ pc # "failed" /\ pc # "main"
          /\ pc' \notin {"main", "recursion"}
        BY <1>8 DEF TryAgain, Trial, Completed, Base, Searching
    <2> QED
        BY <1>p, <1>q, <1>t, <2>1, PairsKept
<1>9. CASE SearchFails
    BY <1>9 DEF SearchFails, PairsHeld
<1>10. CASE Accept
    BY <1>10, AcceptPairs
<1>11. CASE Terminate
    BY <1>11, <1>n DEF Terminate, Completed
<1>12. CASE UNCHANGED vars
    <2>1. /\ point' = point /\ Completed' = Completed /\ Base' = Base /\ w' = w
          /\ orthant' = orthant /\ pc' = pc
        BY <1>12 DEF vars, Completed, Base, Searching
    <2>2. CASE pc = "failed"
        BY <2>1, <2>2 DEF PairsHeld
    <2>3. CASE pc # "failed"
        BY <1>p, <1>q, <1>t, <2>1, <2>3, PairsKept
    <2> QED
        BY <2>2, <2>3
<1> QED
    BY <1>1, <1>2, <1>3, <1>4, <1>5, <1>6, <1>7, <1>8, <1>9, <1>10, <1>11, <1>12
    DEF Next, Optimize

LEMMA IInvInit == Init => IInv
<1> SUFFICES ASSUME Init PROVE IInv
    OBVIOUS
<1>1. TypesInv
    BY TypesInit
<1>2. BaseHeld
    BY DEF Init, BaseHeld, Searching, Start
<1>3. PairsHeld
    BY DEF Init, PairsHeld, Completed
<1> QED
    BY <1>1, <1>2, <1>3 DEF IInv

LEMMA IInvStep == IInv /\ [Next]_vars => IInv'
BY TypesStep, BaseStep, PairsStep DEF IInv

LEMMA Invariant == Spec => []IInv
BY IInvInit, IInvStep, PTL DEF Spec

-----------------------------------------------------------------------------
(* What the invariant says in the words of Lbfgs. *)

LEMMA PairsWhole == IInv => LatestPairs
<1> SUFFICES ASSUME IInv, pc = "recursion", NEW i \in 1 .. Bound
             PROVE  IsPair(Back(i), iter - i) /\ Forward(i) = Back(Bound + 1 - i)
    BY DEF LatestPairs
<1>t. point \in Slots /\ iter \in Nat /\ w \in [Addresses -> Cell]
    BY Typed DEF IInv
<1>1. /\ i \in 1 .. msize /\ i <= Completed /\ Completed + 1 - i = iter - i
      /\ Bound \in 1 .. msize /\ i <= Bound
    BY <1>t DEF Bound, Completed
<1>2. StepHeld(i) /\ ChangeHeld(i) /\ RhoHeld(i)
    BY <1>1 DEF IInv, PairsHeld
<1>3. Back(i) \in Slots
    BY <1>1, <1>t, SlotsMove
<1>4. IsOf(StepOf(Back(i)), "step", iter - i)
    <2> SUFFICES ASSUME NEW b \in Vector(StepOf(Back(i)))
                 PROVE  w[b].kind = "step" /\ w[b].pair = iter - i
        BY DEF IsOf
    <2> DEFINE a == b - StepOf(Back(i))
    <2>1. a \in 1 .. size /\ b = StepOf(Back(i)) + a
        BY <1>3, Layout DEF Vector
    <2> HIDE DEF a
    <2> QED
        <3>1. w[StepOf(Back(i)) + a] =
                 Of("step", Completed + 1 - i, w[ChangeOf(Back(i)) + a].old,
                    [w[ChangeOf(Back(i)) + a].new EXCEPT !.on = TRUE])
            BY <1>2, <2>1 DEF StepHeld
        <3> QED
            BY <1>1, <2>1, <3>1 DEF Of
<1>5. IsOf(ChangeOf(Back(i)), "change", iter - i)
    <2> SUFFICES ASSUME NEW b \in Vector(ChangeOf(Back(i)))
                 PROVE  w[b].kind = "change" /\ w[b].pair = iter - i
        BY DEF IsOf
    <2> DEFINE a == b - ChangeOf(Back(i))
    <2>1. a \in 1 .. size /\ b = ChangeOf(Back(i)) + a
        BY <1>3, Layout DEF Vector
    <2> HIDE DEF a
    <2> QED
        BY <1>1, <1>2, <2>1 DEF ChangeHeld
<1>6. w[size + Back(i) + 1] = Of("rho", iter - i, Start, Start)
    BY <1>1, <1>2 DEF RhoHeld
<1>7. Forward(i) = Back(Bound + 1 - i)
    <2> DEFINE m == Bound
    <2>1. m \in 1 .. msize /\ i <= m
        BY <1>1
    <2> HIDE DEF m
    <2> QED
        BY <1>1, <1>t, <2>1 DEF Forward, Back, Slots, m
<1> QED
    BY <1>4, <1>5, <1>6, <1>7 DEF IsPair

LEMMA PairsSecant == IInv => SecantPairs
<1> SUFFICES ASSUME IInv, pc = "recursion", NEW i \in 1 .. Bound
             PROVE  /\ SameMove(Back(i))
                    /\ i < Bound =>
                         w[ChangeOf(Back(i)) + 1].old = w[ChangeOf(Back(i + 1)) + 1].new
    BY DEF SecantPairs
<1>t. /\ point \in Slots /\ iter \in Nat /\ w \in [Addresses -> Cell]
      /\ 1 \in 1 .. size
    BY Typed DEF IInv
<1>1. /\ i \in 1 .. msize /\ i <= Completed /\ Bound \in 1 .. msize
      /\ Bound <= Completed /\ Completed \in Int
    BY <1>t DEF Bound, Completed
<1>2. StepHeld(i) /\ ChangeHeld(i)
    BY <1>1 DEF IInv, PairsHeld
<1>3. Back(i) \in Slots
    BY <1>1, <1>t, SlotsMove
<1>4. SameMove(Back(i))
    <2> SUFFICES ASSUME NEW a \in 1 .. size
                 PROVE  LET step == w[StepOf(Back(i)) + a]
                            change == w[ChangeOf(Back(i)) + a]
                        IN /\ step.old = change.old
                           /\ step.new.n = change.new.n
                           /\ ~orthant => step.new = change.new
        BY DEF SameMove
    <2> DEFINE change == w[ChangeOf(Back(i)) + a]
               step == w[StepOf(Back(i)) + a]
    <2>1. change \in Cell
        BY <1>3, <1>t, CellsApart
    <2>2. change.new \in Point
        BY <2>1 DEF Cell
    <2>3. /\ step = Of("step", Completed + 1 - i, change.old, [change.new EXCEPT !.on = TRUE])
          /\ ~orthant => change.new.on = TRUE
        BY <1>2 DEF StepHeld, ChangeHeld
    <2> HIDE DEF change
    <2>4. step.old = change.old /\ step.new = [change.new EXCEPT !.on = TRUE]
        BY <2>3 DEF Of
    <2>5. ~orthant => [change.new EXCEPT !.on = TRUE] = change.new
        BY <2>2, <2>3 DEF Point
    <2> QED
        BY <2>2, <2>4, <2>5 DEF Point, change
<1>5. ASSUME i < Bound
      PROVE  w[ChangeOf(Back(i)) + 1].old = w[ChangeOf(Back(i + 1)) + 1].new
    <2>1. i + 1 \in 1 .. msize /\ i + 1 <= Completed /\ i + 1 # 1 /\ (i + 1) - 1 = i
        BY <1>1, <1>5
    <2>2. ChangeHeld(i + 1)
        BY <2>1 DEF IInv, PairsHeld
    <2> QED
        BY <1>t, <2>1, <2>2 DEF ChangeHeld
<1> QED
    BY <1>4, <1>5

(***************************************************************************)
(* The members of the optimizer keep their types.                          *)
(***************************************************************************)
THEOREM TypeCorrect == Spec => []TypeOK
<1>1. IInv => TypeOK
    BY DEF IInv, TypesInv
<1> QED
    BY <1>1, Invariant, PTL

(***************************************************************************)
(* For every number of weights, of pairs and of trials, the recursion sees *)
(* the latest pairs, whole and in both orders (lbfgs_optimize's two        *)
(* loops over cp).                                                         *)
(***************************************************************************)
THEOREM PairsAreLatest == Spec => []LatestPairs
BY Invariant, PairsWhole, PTL

(***************************************************************************)
(* For every number of weights, of pairs and of trials, a pair's two       *)
(* halves are about one move and the pairs are consecutive.                *)
(***************************************************************************)
THEOREM PairsAreSecant == Spec => []SecantPairs
BY Invariant, PairsSecant, PTL

(***************************************************************************)
(* What the line search comes back to after the caller has evaluated a     *)
(* trial is about one point.                                               *)
(***************************************************************************)
THEOREM BaseIsOne == Spec => []OneBase
<1>1. IInv => OneBase
    BY DEF IInv, BaseHeld, OneBase, Searching
<1> QED
    BY <1>1, Invariant, PTL

(***************************************************************************)
(* No line search makes more than maxfev trials, across all the calls it   *)
(* is spread over.                                                         *)
(***************************************************************************)
THEOREM TrialsBounded == Spec => []SearchBounded
<1>1. IInv => SearchBounded
    BY DEF IInv, TypesInv, TypeOK, Phases, SearchBounded
<1> QED
    BY <1>1, Invariant, PTL

-----------------------------------------------------------------------------
(* MIRA. *)

USE CorpusAssumption, CostAssumption, ShrinkingAssumption

Fine == {"correct", "margin", "capped"}

LastPass ==
    status = "pass" /\ converge = 1 =>
        \A s \in Sentences :
            /\ s >= sentence => shrink[s] = 0
            /\ s < sentence => /\ seen[s].itr = itr
                               /\ ~kkt => seen[s].outcome \in Fine

MiraIInv == MiraTypeOK /\ WeightIsBound /\ LastPass /\ ConvergedSawAll

LEMMA MiraIInvInit == MiraInit => MiraIInv
<1> SUFFICES ASSUME MiraInit PROVE MiraIInv
    OBVIOUS
<1>1. [itr |-> 0, outcome |-> "unseen"] \in [itr : 0 .. maxitr, outcome : Outcomes]
    BY DEF Outcomes
<1>2. MiraTypeOK
    <2>1. seen \in [Sentences -> [itr : 0 .. maxitr, outcome : Outcomes]]
        BY <1>1 DEF MiraInit
    <2>2. itr \in 0 .. maxitr /\ (status = "pass" => itr < maxitr) /\ status \in {"pass", "done"}
        BY DEF MiraInit
    <2>3. 0 \in 0 .. CharSize - 1 /\ 0 \in 0 .. C /\ 0 \in 0 .. N /\ 0 \in Nat
        OBVIOUS
    <2>6. kkt \in BOOLEAN
        BY DEF MiraInit
    <2>4. sentence \in 0 .. N /\ converge \in 0 .. 2 /\ (status = "pass" => converge < 2)
        BY DEF MiraInit
    <2>5. /\ shrink \in [Sentences -> 0 .. CharSize - 1] /\ upper_bound \in [Sentences -> 0 .. C]
          /\ alpha \in [Sentences -> Nat] /\ right \in [Sentences -> Nat]
        BY <2>3 DEF MiraInit
    <2> QED
        BY <2>1, <2>2, <2>4, <2>5, <2>6 DEF MiraTypeOK
<1> QED
    BY <1>2 DEF MiraInit, MiraIInv, WeightIsBound, LastPass, ConvergedSawAll

\* What looking at a sentence does, whatever the outcome.
LEMMA Examined ==
    ASSUME MiraIInv, NEW outcome \in Outcomes \ {"unseen"}, Examine(outcome)
    PROVE  /\ sentence \in Sentences /\ sentence' = sentence + 1 /\ sentence' \in 0 .. N /\ itr \in 0 .. maxitr
           /\ status = "pass" /\ status' = status /\ itr' = itr /\ converge' = converge
           /\ seen' \in [Sentences -> [itr : 0 .. maxitr, outcome : Outcomes]]
           /\ seen'[sentence].itr = itr /\ seen'[sentence].outcome = outcome
           /\ \A s \in Sentences : s # sentence => seen'[s] = seen[s]
<1>1. sentence \in Sentences /\ sentence + 1 \in 0 .. N /\ itr \in 0 .. maxitr
    BY DEF Examine, MiraIInv, MiraTypeOK, Sentences
<1>2. [itr |-> itr, outcome |-> outcome] \in [itr : 0 .. maxitr, outcome : Outcomes]
    BY <1>1
<1>3. seen \in [Sentences -> [itr : 0 .. maxitr, outcome : Outcomes]]
    BY DEF MiraIInv, MiraTypeOK
<1> QED
    BY <1>1, <1>2, <1>3 DEF Examine

\* The sentence just looked at joins the ones before.
LEMMA LastPassGoesOn ==
    ASSUME MiraIInv, NEW outcome \in Outcomes \ {"unseen"}, Examine(outcome),
           kkt => kkt', outcome \notin Fine => kkt',
           \A s \in Sentences : s # sentence => shrink'[s] = shrink[s]
    PROVE  LastPass' /\ ConvergedSawAll'
<1>1. ConvergedSawAll'
    BY Examined DEF ConvergedSawAll
<1>2. LastPass'
    <2> SUFFICES ASSUME converge' = 1, NEW s \in Sentences
                 PROVE  /\ s >= sentence' => shrink'[s] = 0
                        /\ s < sentence' => /\ seen'[s].itr = itr'
                                            /\ ~kkt' => seen'[s].outcome \in Fine
        BY DEF LastPass
    <2>1. LastPass /\ status = "pass" /\ converge = 1
        BY Examined DEF MiraIInv
    <2>2. s \in Int /\ sentence \in Int
        BY Examined DEF Sentences
    <2>3. CASE s = sentence
        BY <2>2, <2>3, Examined
    <2>4. CASE s # sentence
        BY <2>1, <2>2, <2>4, Examined DEF LastPass
    <2> QED
        BY <2>3, <2>4
<1> QED
    BY <1>1, <1>2

LEMMA WrongTyped ==
    ASSUME MiraIInv, sentence \in Sentences, Wrong
    PROVE  /\ shrink' \in [Sentences -> 0 .. CharSize - 1]
           /\ right' \in [Sentences -> Nat]
           /\ \A s \in Sentences : s # sentence => shrink'[s] = shrink[s]
BY DEF MiraIInv, MiraTypeOK, Wrong

LEMMA MiraIInvStep == MiraIInv /\ [MiraNext]_miraVars => MiraIInv'
<1> SUFFICES ASSUME MiraIInv, [MiraNext]_miraVars PROVE MiraIInv'
    OBVIOUS
<1>t. MiraTypeOK /\ WeightIsBound /\ LastPass /\ ConvergedSawAll
    BY DEF MiraIInv
<1>1. CASE Skip
    <2>1. sentence \in Sentences /\ shrink[sentence] # 0 /\ sentence + 1 \in 0 .. N
        BY <1>1, <1>t DEF Skip, MiraTypeOK, Sentences
    <2>2. MiraTypeOK'
        BY <1>1, <1>t, <2>1 DEF Skip, MiraTypeOK
    <2>3. converge # 1
        BY <1>1, <1>t, <2>1 DEF Skip, LastPass, MiraTypeOK
    <2> QED
        BY <1>1, <1>t, <2>2, <2>3 DEF Skip, MiraIInv, WeightIsBound, LastPass, ConvergedSawAll
<1>2. CASE Correct
    <2>1. Examine("correct") /\ "correct" \in Outcomes \ {"unseen"} /\ "correct" \in Fine
        BY <1>2 DEF Correct, Outcomes, Fine
    <2>2. shrink' \in [Sentences -> 0 .. CharSize - 1] /\ right' \in [Sentences -> Nat]
          /\ \A s \in Sentences : s # sentence => shrink'[s] = shrink[s]
        <3>1. (shrink[sentence] + 1) % CharSize \in 0 .. CharSize - 1 /\ sentence \in Sentences
            BY <1>t, <2>1, Examined DEF MiraTypeOK
        <3> QED
            BY <1>2, <1>t, <3>1 DEF Correct, MiraTypeOK
    <2>3. MiraTypeOK'
        BY <1>2, <1>t, <2>1, <2>2, Examined DEF Correct, MiraTypeOK
    <2>4. WeightIsBound'
        BY <1>2, <1>t DEF Correct, WeightIsBound
    <2>5. LastPass' /\ ConvergedSawAll'
        BY <1>2, <2>1, <2>2, LastPassGoesOn DEF Correct
    <2> QED
        BY <2>3, <2>4, <2>5 DEF MiraIInv
<1>3. CASE MarginMet
    <2>1. Examine("margin") /\ "margin" \in Outcomes \ {"unseen"} /\ "margin" \in Fine /\ Wrong
        BY <1>3 DEF MarginMet, Outcomes, Fine
    <2>2. MiraTypeOK'
        BY <1>3, <1>t, <2>1, Examined, WrongTyped DEF MarginMet, MiraTypeOK
    <2>3. WeightIsBound'
        BY <1>3, <1>t DEF MarginMet, WeightIsBound
    <2>4. LastPass' /\ ConvergedSawAll'
        BY <1>3, <2>1, LastPassGoesOn, WrongTyped, Examined DEF MarginMet
    <2> QED
        BY <2>2, <2>3, <2>4 DEF MiraIInv
<1>4. CASE Improve
    <2>1. Examine("improved") /\ "improved" \in Outcomes \ {"unseen"} /\ Wrong /\ kkt'
        BY <1>4 DEF Improve, Outcomes
    <2>2. PICK mu \in 0 .. C - upper_bound[sentence] :
             /\ upper_bound' = [upper_bound EXCEPT ![sentence] = @ + mu]
             /\ alpha' = [alpha EXCEPT ![sentence] = @ + mu]
        BY <1>4 DEF Improve
    <2>3. upper_bound' \in [Sentences -> 0 .. C] /\ alpha' \in [Sentences -> Nat] /\ WeightIsBound'
        BY <1>t, <2>1, <2>2, Examined DEF MiraTypeOK, WeightIsBound
    <2>4. MiraTypeOK'
        BY <1>t, <2>1, <2>3, Examined, WrongTyped, <1>4 DEF MiraTypeOK, Improve
    <2>5. LastPass' /\ ConvergedSawAll'
        BY <2>1, LastPassGoesOn, WrongTyped, Examined
    <2> QED
        BY <2>3, <2>4, <2>5 DEF MiraIInv
<1>5. CASE Cap
    <2>1. Examine("capped") /\ "capped" \in Outcomes \ {"unseen"} /\ "capped" \in Fine /\ Wrong
        BY <1>5 DEF Cap, Outcomes, Fine
    <2>2. upper_bound' \in [Sentences -> 0 .. C] /\ alpha' \in [Sentences -> Nat] /\ WeightIsBound'
        BY <1>5, <1>t, <2>1, Examined DEF Cap, MiraTypeOK, WeightIsBound
    <2>3. MiraTypeOK'
        BY <1>5, <1>t, <2>1, <2>2, Examined, WrongTyped DEF Cap, MiraTypeOK
    <2>4. LastPass' /\ ConvergedSawAll'
        BY <1>5, <2>1, LastPassGoesOn, WrongTyped, Examined DEF Cap
    <2> QED
        BY <2>2, <2>3, <2>4 DEF MiraIInv
<1>6. CASE PassEnds
    <2>1. itr \in 0 .. maxitr /\ itr < maxitr /\ sentence = N /\ status = "pass" /\ converge \in 0 .. 1
        BY <1>6, <1>t DEF PassEnds, MiraTypeOK
    <2>a. /\ status' \in {"pass", "done"} /\ itr' \in 0 .. maxitr /\ sentence' \in 0 .. N
          /\ status' = "pass" => itr' < maxitr /\ converge' # 2
        <3>1. CASE converge' = 2 \/ itr + 1 = maxitr
            BY <1>6, <2>1, <3>1 DEF PassEnds
        <3>2. CASE ~(converge' = 2 \/ itr + 1 = maxitr)
            BY <1>6, <2>1, <3>2 DEF PassEnds
        <3> QED
            BY <3>1, <3>2
    <2>b. /\ upper_bound' = upper_bound /\ alpha' = alpha /\ seen' = seen /\ kkt' \in BOOLEAN
        BY <1>6 DEF PassEnds
    <2>2. CASE kkt
        <3>1. converge' = 0 /\ shrink' = shrink /\ right' = right
            BY <1>6, <2>2 DEF PassEnds, Busy
        <3>2. MiraTypeOK'
            BY <1>t, <2>1, <2>a, <2>b, <3>1 DEF MiraTypeOK
        <3> QED
            BY <1>6, <1>t, <3>1, <3>2 DEF PassEnds, MiraIInv, WeightIsBound, LastPass, ConvergedSawAll
    <2>3. CASE ~kkt
        <3>1. /\ converge' = converge + 1
              /\ shrink' = [s \in Sentences |-> 0] /\ right' = [s \in Sentences |-> 0]
            BY <1>6, <2>3 DEF PassEnds, Quiet
        <3>2. MiraTypeOK'
            BY <1>t, <2>1, <2>a, <2>b, <3>1 DEF MiraTypeOK
        <3>3. LastPass'
            BY <1>6, <2>1, <3>1 DEF PassEnds, LastPass, Sentences
        <3>4. ConvergedSawAll'
            <4> SUFFICES ASSUME status' = "done", converge' = 2, NEW s \in Sentences
                         PROVE  seen'[s].itr = itr' /\ seen'[s].outcome \in Fine
                BY DEF ConvergedSawAll, Fine
            <4>1. converge = 1 /\ s < sentence
                BY <2>1, <3>1 DEF Sentences
            <4>2. seen[s].itr = itr /\ seen[s].outcome \in Fine
                BY <1>t, <2>1, <2>3, <4>1 DEF LastPass
            <4>3. itr' = itr /\ seen' = seen
                BY <1>6 DEF PassEnds
            <4> QED
                BY <4>2, <4>3
        <3>5. WeightIsBound'
            BY <1>6, <1>t DEF PassEnds, WeightIsBound
        <3> QED
            BY <3>2, <3>3, <3>4, <3>5 DEF MiraIInv
    <2> QED
        BY <2>2, <2>3
<1>7. CASE UNCHANGED miraVars
    BY <1>7, <1>t DEF miraVars, MiraIInv, MiraTypeOK, WeightIsBound, LastPass, ConvergedSawAll
<1> QED
    BY <1>1, <1>2, <1>3, <1>4, <1>5, <1>6, <1>7 DEF MiraNext, Returned

LEMMA MiraInvariant == MiraSpec => []MiraIInv
BY MiraIInvInit, MiraIInvStep, PTL DEF MiraSpec

(***************************************************************************)
(* The variables of runMIRA keep their types; in particular it stops after *)
(* at most maxitr passes.                                                  *)
(***************************************************************************)
THEOREM MiraTypeCorrect == MiraSpec => []MiraTypeOK
BY MiraInvariant, PTL DEF MiraIInv

(***************************************************************************)
(* For every corpus and every option: converged means that the last pass   *)
(* looked at every sentence and left each one right, with its margin met   *)
(* or at its bound (the test of max_kkt_violation and converge at the end  *)
(* of runMIRA's loop).                                                     *)
(***************************************************************************)
THEOREM Converged == MiraSpec => []ConvergedSawAll
BY MiraInvariant, PTL DEF MiraIInv

(***************************************************************************)
(* No sentence moves the weights by more than its upper_bound says, over   *)
(* all passes.                                                             *)
(***************************************************************************)
THEOREM Bounded == MiraSpec => []WeightIsBound
BY MiraInvariant, PTL DEF MiraIInv

-----------------------------------------------------------------------------

Counts ==
    /\ sentence \in 0 .. N
    /\ shrink \in [Sentences -> 0 .. shrinking_size]
    /\ right = shrink

LEMMA CountsStep ==
    ASSUME shrinking_size < CharSize, Counts, [MiraNext]_miraVars
    PROVE  Counts'
<1>1. CASE Correct
    <2>1. sentence \in Sentences /\ shrink[sentence] + 1 \in 0 .. shrinking_size /\ sentence + 1 \in 0 .. N
        BY <1>1 DEF Correct, Examine, Counts, Sentences
    <2>2. (shrink[sentence] + 1) % CharSize = shrink[sentence] + 1
        BY <2>1
    <2> QED
        BY <1>1, <2>1, <2>2 DEF Correct, Examine, Counts
<1>2. CASE MarginMet \/ Improve \/ Cap
    <2>1. Wrong /\ \E outcome \in Outcomes : Examine(outcome)
        BY <1>2 DEF MarginMet, Improve, Cap, Outcomes
    <2>2. sentence \in Sentences /\ sentence' = sentence + 1 /\ sentence + 1 \in 0 .. N
        BY <2>1 DEF Examine, Counts, Sentences
    <2> QED
        BY <2>1, <2>2 DEF Wrong, Counts
<1>3. CASE Skip
    BY <1>3 DEF Skip, Counts
<1>4. CASE PassEnds
    BY <1>4 DEF PassEnds, Busy, Quiet, Counts
<1>5. CASE UNCHANGED miraVars
    BY <1>5 DEF miraVars, Counts
<1> QED
    BY <1>1, <1>2, <1>3, <1>4, <1>5 DEF MiraNext, Returned

(***************************************************************************)
(* As long as shrinking_size is a value of an unsigned char, a sentence is *)
(* skipped exactly when it has been right that often in a row.             *)
(***************************************************************************)
THEOREM SkipsAreOptimal ==
    ASSUME shrinking_size < CharSize
    PROVE  MiraSpec => []SkippedIffOptimal
<1>1. MiraInit => Counts
    BY DEF MiraInit, Counts
<1>2. Counts /\ [MiraNext]_miraVars => Counts'
    BY CountsStep
<1>3. Counts => SkippedIffOptimal
    BY DEF Counts, SkippedIffOptimal
<1> QED
    BY <1>1, <1>2, <1>3, PTL DEF MiraSpec
=============================================================================
