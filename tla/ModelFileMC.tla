---------------------------- MODULE ModelFileMC -----------------------------
(***************************************************************************)
(* One or two keys of up to two out of three characters, or three keys     *)
(* that begin alike, whose ids may leave the range of an int; tags and     *)
(* templates of every padding.                                             *)
(***************************************************************************)
EXTENDS ModelFile, SequencesExt

MCKeys == SeqOf(1 .. MaxChar, 2) \ {<<>>}

MCKeySets ==
  {keys \in SUBSET MCKeys :
    \/ Cardinality(keys) \in 1 .. 2
    \/ Cardinality(keys) = 3 /\ \A k, l \in keys : k[1] = l[1]}

MCTags == {<<1>>, <<1, 1>>}

MCUnigrams == {<<2, 1>>, <<3>>}

MCBigrams == {<<>>, <<1>>}
=============================================================================
