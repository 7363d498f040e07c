---------------------------- MODULE MCJobService ----------------------------
(* Small instances of JobService for TLC. *)
EXTENDS JobService

\* A service is named after its worker UUID, which is compared for equality.
AnyService == Permutations(Services)

=============================================================================
