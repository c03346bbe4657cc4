------------------------------- MODULE Lbfgs -------------------------------
(***************************************************************************)
(* LBFGS::optimize and lbfgs_optimize (lbfgs.h, lbfgs.cpp).  The optimizer *)
(* is a coroutine without a stack: it returns to its caller whenever it    *)
(* needs the objective and the gradient at another point, and jumps back   *)
(* into the line search (label L172) when it is called again.  All it      *)
(* remembers is in its members and in one array w_ of doubles, laid out as *)
(*                                                                         *)
(*   1 ..                     the search vector, then the gradient g       *)
(*   size + 1 ..              1/ys of the correction pair in each slot     *)
(*   size + msize + 1 ..      a scratch number per slot                    *)
(*   ispt + 1 ..              the step of each slot's pair                 *)
(*   iypt + 1 ..              the change of gradient of each slot's pair   *)
(*                                                                         *)
(* where a slot is one of msize and slots are used in a ring.  A double is *)
(* described by what was stored in it: which kind of number, for which     *)
(* pair (the number of the iteration that made it), from which points.     *)
(* The points alpha has been at are numbered by the line search's trials;  *)
(* with L1 (orthant) a trial point may be moved off the line afterwards.   *)
(***************************************************************************)
EXTENDS Integers

CONSTANTS size,      \* the number of weights
          msize,     \* the number of correction pairs kept; 5 in the code
          maxfev,    \* trials of one line search; 20 in the code
          MaxTrials  \* bound of the state space: when the caller stops

ASSUME SizesAssumption == size \in Nat \ {0} /\ msize \in Nat \ {0}
ASSUME MaxfevAssumption == maxfev \in Nat \ {0}
ASSUME BoundAssumption == MaxTrials \in Nat

VARIABLES
    pc,                 \* where lbfgs_optimize is, by its labels
    orthant,            \* L1 or L2, for good
    iflag, info, nfev,  \* what the last call ended with, trials of this search
    iter, point, npt,
    w,                  \* w_
    saved,              \* diag_ while a line search uses it: where it began
    xi,                 \* the point whose orthant xi_ describes
    x                   \* the point the caller's weights are at

vars == <<pc, orthant, iflag, info, nfev, iter, point, npt, w, saved, xi, x>>

Point == [n : Nat, on : BOOLEAN]
Start == [n |-> 0, on |-> TRUE]

Kinds == {"zero", "search", "gradient", "rho", "scratch", "direction", "step", "change"}
Cell == [kind : Kinds, pair : Nat, old : Point, new : Point]

Of(kind, pair, old, new) == [kind |-> kind, pair |-> pair, old |-> old, new |-> new]
Zero == Of("zero", 0, Start, Start)

ispt == size + 2 * msize
iypt == ispt + size * msize
Addresses == 1 .. size * (2 * msize + 1) + 2 * msize

Slots == 0 .. msize - 1
Vector(base) == base + 1 .. base + size
StepOf(slot) == ispt + slot * size
ChangeOf(slot) == iypt + slot * size

\* The whole vector at base holds the same number, of pair k.
Holds(base, cell) == \A a \in Vector(base) : w[a] = cell
IsOf(base, kind, k) == \A a \in Vector(base) : w[a].kind = kind /\ w[a].pair = k

Init ==
    /\ pc = "caller"
    /\ orthant \in BOOLEAN
    /\ iflag = 0 /\ info = 0 /\ nfev = 0
    /\ iter = 0 /\ point = 0 /\ npt = 0
    /\ w = [a \in Addresses |-> Zero]
    /\ saved = Start
    /\ xi = Start
    /\ x = Start

-----------------------------------------------------------------------------
(* The call. *)

\* The caller has evaluated f and g at x.  w_ is empty: a new problem.
FirstCall ==
    /\ pc = "caller" /\ iflag = 0
    /\ x.n < MaxTrials
    /\ point' = 0
    /\ w' = [a \in Addresses |->
               IF a \in Vector(ispt) THEN Of("direction", 1, x, x) ELSE Zero]
    /\ pc' = "main"
    /\ UNCHANGED <<orthant, iflag, info, nfev, iter, npt, saved, xi, x>>

\* The trial counter starts afresh in every call.
NextCallRecounts ==
    /\ pc = "caller" /\ iflag = 1
    /\ x.n < MaxTrials
    /\ nfev' = 0
    /\ pc' = "L172"
    /\ UNCHANGED <<orthant, iflag, info, iter, point, npt, w, saved, xi, x>>

\* The gradient is saved in every call, not only where a line search begins.
NextCallSavesGradient ==
    /\ pc = "caller" /\ iflag = 1
    /\ x.n < MaxTrials
    /\ w' = [a \in Addresses |->
               IF a \in Vector(0) THEN Of("gradient", iter, x, x) ELSE w[a]]
    /\ pc' = "L172"
    /\ UNCHANGED <<orthant, iflag, info, nfev, iter, point, npt, saved, xi, x>>

NextCall ==
    /\ pc = "caller" /\ iflag = 1
    /\ x.n < MaxTrials
    /\ pc' = "L172"
    /\ UNCHANGED <<orthant, iflag, info, nfev, iter, point, npt, w, saved, xi, x>>

-----------------------------------------------------------------------------
(* The main iteration loop. *)

\* The first iteration searches along the gradient.
FirstIteration ==
    /\ pc = "main" /\ iter = 0
    /\ iter' = 1
    /\ info' = 0
    /\ xi' = IF orthant THEN x ELSE xi
    /\ pc' = "L165"
    /\ UNCHANGED <<orthant, iflag, nfev, point, npt, w, saved, x>>

\* cp is point itself.
RhoAtPoint == size + point

\* Where 1/ys goes: cp is msize when point is 0.
RhoAddress == size + IF point = 0 THEN msize ELSE point

\* The orthant stays that of the first point.
IterateOldOrthant ==
    /\ pc = "main" /\ iter > 0
    /\ iter' = iter + 1
    /\ info' = 0
    /\ w' = [a \in Addresses |->
               IF a \in Vector(0) THEN Of("search", iter + 1, x, x)
               ELSE IF a = RhoAddress
                    THEN Of("rho", w[iypt + npt + 1].pair, Start, Start)
                    ELSE w[a]]
    /\ pc' = "recursion"
    /\ UNCHANGED <<orthant, iflag, nfev, point, npt, saved, xi, x>>

\* ys and yy come from the pair at npt; label L100 stores 1/ys.
Iterate ==
    /\ pc = "main" /\ iter > 0
    /\ iter' = iter + 1
    /\ info' = 0
    /\ xi' = IF orthant THEN x ELSE xi
    /\ w' = [a \in Addresses |->
               IF a \in Vector(0) THEN Of("search", iter + 1, x, x)
               ELSE IF a = RhoAddress
                    THEN Of("rho", w[iypt + npt + 1].pair, Start, Start)
                    ELSE w[a]]
    /\ pc' = "recursion"
    /\ UNCHANGED <<orthant, iflag, nfev, point, npt, saved, x>>

\* The pairs the recursion uses.
Bound == IF iter - 1 < msize THEN iter - 1 ELSE msize

\* cp in pass i of the first loop, which counts down from point.
Back(i) == IF point - i < 0 THEN point - i + msize ELSE point - i

\* cp in pass i of the second loop, which counts up from where the first ended.
Forward(i) ==
    IF Back(Bound) + i - 1 >= msize THEN Back(Bound) + i - 1 - msize
    ELSE Back(Bound) + i - 1

\* Both loops; then the direction is stored in the slot of the next pair.
Recursion ==
    /\ pc = "recursion"
    /\ w' = [a \in Addresses |->
               IF a \in Vector(StepOf(point)) THEN Of("direction", iter, x, x)
               ELSE IF \E i \in 1 .. Bound : a = size + msize + Back(i) + 1
                    THEN Of("scratch", iter, Start, Start)
                    ELSE w[a]]
    /\ pc' = "L165"
    /\ UNCHANGED <<orthant, iflag, info, nfev, iter, point, npt, saved, xi, x>>

-----------------------------------------------------------------------------
(* The line search: mcsrch is entered at L165, and again at L172. *)

\* mcsrch sets x to a point of the line, and L1 may move it to the orthant.
Trial ==
    /\ info' = -1
    /\ iflag' = 1
    /\ x' \in {[n |-> x.n + 1, on |-> on] : on \in {TRUE, ~orthant}}
    /\ pc' = "caller"

\* The gradient is saved, diag_ gets x, and the first trial is made.
BeginSearch ==
    /\ pc = "L165"
    /\ w' = [a \in Addresses |->
               IF a \in Vector(0) THEN Of("gradient", iter, x, x) ELSE w[a]]
    /\ nfev' = 0
    /\ saved' = x
    /\ Trial
    /\ UNCHANGED <<orthant, iter, point, npt, xi>>

\* The direction does not descend: mcsrch returns with info = 0.
NoDescent ==
    /\ pc = "L165"
    /\ w' = [a \in Addresses |->
               IF a \in Vector(0) THEN Of("gradient", iter, x, x) ELSE w[a]]
    /\ nfev' = 0
    /\ iflag' = -1
    /\ pc' = "failed"
    /\ UNCHANGED <<orthant, info, iter, point, npt, saved, xi, x>>

\* Neither good enough nor hopeless: another trial.
TryAgain ==
    /\ pc = "L172"
    /\ nfev + 1 < maxfev
    /\ nfev' = nfev + 1
    /\ Trial
    /\ UNCHANGED <<orthant, iter, point, npt, w, saved, xi>>

\* info is 2, ..., 6: the search stops without a better point.
SearchFails ==
    /\ pc = "L172"
    /\ nfev' = nfev + 1
    /\ info' \in 2 .. 6
    /\ iflag' = -1
    /\ pc' = "failed"
    /\ UNCHANGED <<orthant, iter, point, npt, w, saved, xi, x>>

\* What the slot of the new pair gets, and what all else keeps.
Stored ==
    [a \in Addresses |->
       IF a \in Vector(StepOf(point))
       THEN Of("step", w[a].pair, saved, [x EXCEPT !.on = TRUE])
       ELSE IF a \in Vector(ChangeOf(point))
            THEN Of("change", iter, w[a - ChangeOf(point)].new, x)
            ELSE w[a]]

\* The slots are not used in a ring.
NextPointUnwrapped == point + 1

NextPoint == IF point + 1 = msize THEN 0 ELSE point + 1

\* info is 1: the pair is stored, and the loop goes on.
Accept ==
    /\ pc = "L172"
    /\ nfev' = nfev + 1
    /\ info' = 1
    /\ w' = Stored
    /\ npt' = point * size
    /\ point' = NextPoint
    /\ pc' = "main"
    /\ UNCHANGED <<orthant, iflag, iter, saved, xi, x>>

\* info is 1 and the gradient is small: 0 is returned after clear().
Terminate ==
    /\ pc = "L172"
    /\ iflag' = 0 /\ info' = 0 /\ nfev' = 0
    /\ iter' = 0 /\ point' = 0 /\ npt' = 0
    /\ w' = [a \in Addresses |-> Zero]
    /\ pc' = "caller"
    /\ UNCHANGED <<orthant, saved, xi, x>>

Optimize ==
    \/ FirstIteration \/ Iterate \/ Recursion
    \/ BeginSearch \/ NoDescent
    \/ TryAgain \/ SearchFails \/ Accept \/ Terminate

Next == FirstCall \/ NextCall \/ Optimize

Spec == Init /\ [][Next]_vars

-----------------------------------------------------------------------------

TypeOK ==
    /\ pc \in {"caller", "main", "recursion", "L165", "L172", "failed"}
    /\ orthant \in BOOLEAN
    /\ iflag \in {-1, 0, 1}
    /\ info \in -1 .. 6
    /\ nfev \in 0 .. maxfev
    /\ iter \in Nat
    /\ point \in Slots
    /\ npt \in {slot * size : slot \in Slots}
    /\ w \in [Addresses -> Cell]
    /\ saved \in Point /\ xi \in Point /\ x \in Point

\* The pair in a slot is the one of iteration k, whole.
IsPair(slot, k) ==
    /\ IsOf(StepOf(slot), "step", k)
    /\ IsOf(ChangeOf(slot), "change", k)
    /\ w[size + slot + 1] = Of("rho", k, Start, Start)

(***************************************************************************)
(* The recursion that computes the search direction uses the pairs of the  *)
(* latest min(iter - 1, msize) iterations, newest first, each with its own *)
(* step, change and 1/ys, and its second loop visits the same slots in the *)
(* opposite order - however often the ring has wrapped around and however  *)
(* often the optimizer has returned to its caller in between.              *)
(***************************************************************************)
LatestPairs ==
    pc = "recursion" =>
        \A i \in 1 .. Bound :
            /\ IsPair(Back(i), iter - i)
            /\ Forward(i) = Back(Bound + 1 - i)

\* Both halves of the pair in a slot are about the same move.
SameMove(slot) ==
    \A a \in 1 .. size :
        LET step == w[StepOf(slot) + a]
            change == w[ChangeOf(slot) + a]
        IN /\ step.old = change.old
           /\ step.new.n = change.new.n
           /\ ~orthant => step.new = change.new

(***************************************************************************)
(* A pair's step and its change of gradient belong to the same two points, *)
(* the one the line search began at and the one it accepted, although the  *)
(* first half is kept in diag_ and the second in w_ while the optimizer    *)
(* is away; and pairs are consecutive: each begins where the one before    *)
(* it ended.  With L1 the step stored is the one along the line, even if   *)
(* the point has been moved to the orthant since.                          *)
(***************************************************************************)
SecantPairs ==
    pc = "recursion" =>
        \A i \in 1 .. Bound :
            /\ SameMove(Back(i))
            /\ i < Bound =>
                 w[ChangeOf(Back(i)) + 1].old = w[ChangeOf(Back(i + 1)) + 1].new

(***************************************************************************)
(* While the caller evaluates a trial, everything the search will come     *)
(* back to is about one point: the weights to return to (diag_), the saved *)
(* gradient (w_) and, with L1, the orthant (xi_).                          *)
(***************************************************************************)
OneBase ==
    pc = "L172" \/ (pc = "caller" /\ iflag = 1) =>
        /\ Holds(0, Of("gradient", iter, saved, saved))
        /\ Holds(StepOf(point), Of("direction", iter, saved, saved))
        /\ orthant => xi = saved

(***************************************************************************)
(* A line search takes at most maxfev trials from where it began.          *)
(***************************************************************************)
SearchBounded == pc = "L172" => x.n - saved.n <= maxfev

=============================================================================
