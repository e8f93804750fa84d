----------------------------------- MODULE MCMerge -----------------------------------
EXTENDS Merge
CONSTANTS a, b
======================================================================================
