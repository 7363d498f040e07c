--------------------------- MODULE MCFairScheduler ---------------------------
(* Small instances of FairScheduler for TLC. *)
EXTENDS FairScheduler, TLC

CONSTANTS s1, s2, s3, a1, a2, t1, t2, t3, t4, t5, t6

\* Two accounts: s1 uses both, s2 competes for the first, and s2 and s3 have
\* requests that need none.
MixedSubjects == (t1 :> s1) @@ (t2 :> s1) @@ (t3 :> s1) @@ (t4 :> s2) @@ (t5 :> s2) @@ (t6 :> s3)
MixedAccounts == (t1 :> a1) @@ (t2 :> a1) @@ (t3 :> a2) @@ (t4 :> a1)
                   @@ (t5 :> NoAccount) @@ (t6 :> NoAccount)

\* s1 and s2 share the account a1, and s3 alone uses a2.
SharedSubjects == (t1 :> s1) @@ (t2 :> s1) @@ (t3 :> s2) @@ (t4 :> s3) @@ (t5 :> s3)
SharedAccounts == (t1 :> a1) @@ (t2 :> a1) @@ (t3 :> a1) @@ (t4 :> a2) @@ (t5 :> a2)

TwoPerSubject == [s \in Subjects |-> 2]
OnePerAccount == [a \in Accounts |-> 1]

=============================================================================
