--------------------------- MODULE MCTokenAccount ---------------------------
(***************************************************************************)
(* TokenAccount with two requesting goroutines and the refresher.          *)
(***************************************************************************)
EXTENDS TokenAccount, TLC

CONSTANTS loop, volumes, refresher

MCRequester == {loop, volumes}
Symmetry == Permutations(MCRequester)
=============================================================================
