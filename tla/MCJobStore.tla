----------------------------- MODULE MCJobStore -----------------------------
(* A small instance of JobStore for TLC. *)
EXTENDS JobStore, TLC

\* Worker identities are compared only for equality, and so are the others.
Interchangeable == Permutations(Handles) \cup Permutations(Owners) \cup Permutations(Keys)

=============================================================================
