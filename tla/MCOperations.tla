---------------------------- MODULE MCOperations ----------------------------
(* Small instances of Operations for TLC. *)
EXTENDS Operations

\* Calls, processes and requests are compared only for equality.
Interchangeable == Permutations(Calls) \cup Permutations(Drivers) \cup Permutations(Prints)

=============================================================================
