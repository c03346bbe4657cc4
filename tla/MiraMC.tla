------------------------------- MODULE MiraMC -------------------------------
(***************************************************************************)
(* Three sentences, weights that may move by two units each, sentences put *)
(* aside after being right twice, six passes: enough for a sentence to be  *)
(* put aside, taken up again after a quiet pass, and found wrong then.     *)
(***************************************************************************)
EXTENDS Mira
=============================================================================
