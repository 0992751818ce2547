--------------------------- MODULE MCThreadQueue ---------------------------
(* ThreadQueue on small instances for TLC: the threads are model values.   *)
EXTENDS ThreadQueue, TLC

\* Threads of one role run the same code and no definition tells them apart.
Symmetry == Permutations(Producers) \cup Permutations(Consumers)

=============================================================================
