--------------------------------- MODULE MCSemaphore ---------------------------------
EXTENDS Semaphore, TLC
CONSTANTS w1, w2, p1, p2

\* Goroutines of one kind run the same code.
Symmetry == Permutations(Waiter) \cup Permutations(Poster)
======================================================================================
