--------------------------- MODULE FeatureStoreMC ---------------------------
(***************************************************************************)
(* Two unigram templates with two expansions each and one bigram            *)
(* template, so that a row holds up to two ids; chunks of 6 cells, so that *)
(* rows of 3 and of 2 cells end at, before and past a chunk's end; up to   *)
(* three sentences of one or two tokens; -f 2, so that a key may be kept,  *)
(* dropped, or never seen.                                                 *)
(***************************************************************************)
EXTENDS FeatureStore

MCUnigram == <<{"Ua", "Ub"}, {"Uc", "Ud"}>>
MCBigram == <<{"B"}>>
MCKeyOrder == <<"B", "Ua", "Ub", "Uc", "Ud">>

=============================================================================
