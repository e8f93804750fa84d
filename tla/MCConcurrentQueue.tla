------------------------------ MODULE MCConcurrentQueue ------------------------------
EXTENDS ConcurrentQueue
CONSTANTS c1, c2, x, y
======================================================================================
