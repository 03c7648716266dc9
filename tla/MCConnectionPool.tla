------------------------ MODULE MCConnectionPool ------------------------
(* Instances of ConnectionPool for TLC: handler threads are interchangeable. *)
EXTENDS ConnectionPool, TLC

Symmetry == Permutations(Threads)
=========================================================================
