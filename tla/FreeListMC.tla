----------------------------- MODULE FreeListMC -----------------------------
(***************************************************************************)
(* A chunk of 4 cells and blocks of 1, 2, 3, 4 and 5 cells: every way a    *)
(* block can end at, before or past the end of a chunk, a block that fills *)
(* a chunk and one that cannot fit, with up to MaxBlocks live blocks.      *)
(***************************************************************************)
EXTENDS FreeList

MCSize == 4
MCLens == 1 .. 5
MCMaxBlocks == 5

=============================================================================
