------------------------------ MODULE CorpusMC ------------------------------
(***************************************************************************)
(* Files of up to four lines, for crf_test up to three files of four lines *)
(* together: token lines of one column, of two with the two labels and of  *)
(* three, one more than openTagSet has room for, with the second label at  *)
(* its end; empty lines and lines that are too long.                       *)
(***************************************************************************)
EXTENDS Corpus

CONSTANT Long

MCLines == {<< >>, <<"A">>, <<"w", "A">>, <<"w", "B">>,
            <<"w", "A", "B">>, Long}
=============================================================================
