------------------------- MODULE ParallelTrainingMC -------------------------
(***************************************************************************)
(* Three threads and up to five sentences, so that one thread meets one    *)
(* sentence and the others two, and in the shorter files some thread meets *)
(* none; one blank sentence anywhere in the file; three iterations, the    *)
(* least in which the objective can settle three times.                    *)
(***************************************************************************)
EXTENDS ParallelTraining

=============================================================================
