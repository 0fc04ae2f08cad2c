----------------------- MODULE MCEditFreezeRefinement -----------------------
EXTENDS EditFreezeRefinement, TLC

UnitSymmetry == Permutations(Units)
=============================================================================
