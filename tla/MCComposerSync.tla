--------------------------- MODULE MCComposerSync ---------------------------
EXTENDS ComposerRefinement, TLC

UnitSymmetry == Permutations(Units)
=============================================================================
