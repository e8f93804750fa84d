------------------------------ MODULE MCParallelFetcher ------------------------------
EXTENDS ParallelFetcher
CONSTANTS c1, c2, c3
======================================================================================
