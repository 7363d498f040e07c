------------------------------ MODULE UsageStat -----------------------------
(***************************************************************************)
(* The Usagestat service as a host uses it (UsageStatClient): which quota  *)
(* belongs to an execution account, the admission of a run by its quota,   *)
(* what a page shows of it, and the capture of usage records.              *)
(*                                                                         *)
(* The service, outside this repository, observes the quota of an upstream *)
(* instance now and then; its answers take time, and a capture's are lost. *)
(***************************************************************************)
EXTENDS Integers, Sequences, FiniteSets

CONSTANTS
    Accounts,       \* execution accounts
    Subjects,
    Instances,      \* upstream quota instances
    Calls,          \* quota lookups
    Records,        \* usage records
    Minimum,        \* minimumRemaining
    MaxAge,         \* maxAgeMs, of an admission and of a page
    MaxTime,        \* bound on the clock
    MaxBindings     \* bound: bindings of a client

VARIABLES
    now,
    bindings,       \* the client's accountBindings
    left,           \* per instance: what remains of its quota
    enough,         \* per instance: when at least the minimum remained last
    snapshot,       \* per instance: what the service observed last
    call,           \* per lookup: accountLimits, and what came of it
    capture,        \* per record: what the host knows of it
    stored,         \* the records the service has
    wire            \* the records on their way to it

usageVars == <<now, bindings, left, enough, snapshot, call, capture, stored, wire>>
quota == <<bindings, left, enough, snapshot, call>>
records == <<capture, stored, wire>>

Bindings == [account : Accounts, subject : Subjects, instance : Instances]

\* One instance has one account, and an account's subject one instance.
Valid(chosen) ==
    \A b, c \in chosen :
       /\ b.instance = c.instance => b.account = c.account
       /\ b.account = c.account /\ b.subject = c.subject => b = c

Remaining == 0 .. Minimum
NoCall == [at |-> "idle", account |-> "none", instance |-> "none", read |-> 0, left |-> 0,
           ok |-> FALSE, verdict |-> "none", rightly |-> TRUE]

Init ==
    /\ now = 1
    /\ bindings \in {b \in SUBSET Bindings : Cardinality(b) <= MaxBindings /\ Valid(b)}
    /\ left \in [Instances -> Remaining]
    /\ enough = [i \in Instances |-> IF left[i] >= Minimum THEN 1 ELSE 0]
    /\ snapshot = [i \in Instances |-> [at |-> 0, left |-> 0, ok |-> FALSE]]
    /\ call = [c \in Calls |-> NoCall]
    /\ capture = [r \in Records |-> "none"]
    /\ stored = {}
    /\ wire = {}

Tick ==
    /\ now < MaxTime
    /\ now' = now + 1
    /\ left' \in [Instances -> Remaining]
    /\ enough' = [i \in Instances |-> IF left'[i] >= Minimum THEN now' ELSE enough[i]]
    /\ UNCHANGED <<bindings, snapshot, call, records>>

\* The service looks at an instance, or cannot: limitsFromSnapshots says which.
Observe(i, ok) ==
    /\ snapshot' = [snapshot EXCEPT ![i] = [at |-> now, left |-> left[i], ok |-> ok]]
    /\ UNCHANGED <<now, bindings, left, enough, call, records>>

\* accountLimits: only the instance bound to this account and subject.
Ask(c, account, subject) ==
    LET bound == {b \in bindings : b.account = account /\ b.subject = subject} IN
    /\ call[c].at = "idle"
    /\ call' = [call EXCEPT ![c] =
         IF bound = {} THEN [@ EXCEPT !.at = "done", !.verdict = "unbound"]
         ELSE [@ EXCEPT !.at = "asked", !.account = account,
                        !.instance = (CHOOSE b \in bound : TRUE).instance]]
    /\ UNCHANGED <<now, bindings, left, enough, snapshot, records>>

\* The service answers with its snapshot of the instance.
Read(c) ==
    /\ call[c].at = "asked"
    /\ LET s == snapshot[call[c].instance] IN
       call' = [call EXCEPT ![c].at = "read", ![c].read = s.at, ![c].left = s.left,
                            ![c].ok = s.ok /\ s.at # 0]
    /\ UNCHANGED <<now, bindings, left, enough, snapshot, records>>

\* quotaAdmission, when the answer is there: an observation that is too old,
\* failed, or of nothing, is unknown.
Verdict_Unaged(c) == IF ~call[c].ok THEN "unknown"
                     ELSE IF call[c].left >= Minimum THEN "allow" ELSE "deny"
Verdict(c) == IF ~call[c].ok \/ now - call[c].read > MaxAge THEN "unknown"
              ELSE IF call[c].left >= Minimum THEN "allow" ELSE "deny"

Decide(c) ==
    /\ call[c].at = "read"
    /\ call' = [call EXCEPT ![c] = [NoCall EXCEPT
         !.at = "done", !.account = call[c].account, !.instance = call[c].instance,
         !.rightly = enough[call[c].instance] >= now - MaxAge, !.verdict = Verdict(c)]]
    /\ UNCHANGED <<now, bindings, left, enough, snapshot, records>>

\* The watchdog of the request, or its caller's signal.
Miss(c) ==
    /\ call[c].at \in {"asked", "read"}
    /\ call' = [call EXCEPT ![c] = [NoCall EXCEPT !.at = "done", !.verdict = "unknown"]]
    /\ UNCHANGED <<now, bindings, left, enough, snapshot, records>>

-----------------------------------------------------------------------------
(* Records *)

\* capture: a record is sent, perhaps again, with the identity of its run.
Capture(r) ==
    /\ capture[r] \in {"none", "unknown"}
    /\ capture' = [capture EXCEPT ![r] = "sent"]
    /\ wire' = wire \cup {r}
    /\ UNCHANGED <<now, quota, stored>>

\* The service stores it, once, or refuses it; the answer is lost, or is a receipt for
\* an event that it has stored, this one or another: only one for this event counts.
Arrive(r, receipt) ==
    /\ r \in wire
    /\ wire' = wire \ {r}
    /\ stored' \in {stored, stored \cup {r}}
    /\ receipt = "own" => r \in stored'
    /\ capture' = IF receipt = "own" /\ capture[r] = "sent" THEN [capture EXCEPT ![r] = "stored"]
                  ELSE capture
    /\ UNCHANGED <<now, quota>>

\* The ingestion timeout: the record may be on its way, or stored, or lost.
Lapse(r) ==
    /\ capture[r] = "sent"
    /\ capture' = [capture EXCEPT ![r] = "unknown"]
    /\ \E lost \in SUBSET {r} : wire' = wire \ lost
    /\ UNCHANGED <<now, quota, stored>>

\* run: what the service has of it settles the question.
Reconcile(r) ==
    /\ capture[r] = "unknown" /\ r \in stored
    /\ capture' = [capture EXCEPT ![r] = "stored"]
    /\ UNCHANGED <<now, quota, stored, wire>>

Next ==
    \/ Tick
    \/ \E i \in Instances : \E ok \in BOOLEAN : Observe(i, ok)
    \/ \E c \in Calls : \/ \E account \in Accounts : \E subject \in Subjects : Ask(c, account, subject)
                        \/ Read(c) \/ Decide(c) \/ Miss(c)
    \/ \E r \in Records : \/ Capture(r) \/ Lapse(r) \/ Reconcile(r)
                          \/ \E receipt \in {"none", "own", "other"} : Arrive(r, receipt)

Spec == Init /\ [][Next]_usageVars

-----------------------------------------------------------------------------
(* Properties *)

\* Every variable has its type.
TypeOK ==
    /\ now \in 1 .. MaxTime
    /\ \A c \in Calls : call[c].verdict \in {"none", "unbound", "unknown", "allow", "deny"}
    /\ \A r \in Records : capture[r] \in {"none", "sent", "unknown", "stored"}

\* A run is admitted by the quota of its own account only, and only when that much
\* really remained a short time ago, however long the service sat on its answer:
\* two accounts never draw on one instance.
QuotaIsOwn ==
    /\ \A c \in Calls : call[c].verdict = "allow" => call[c].rightly
    /\ \A c, d \in Calls :
          call[c].instance = call[d].instance /\ call[c].instance # "none" =>
             call[c].account = call[d].account

\* A record that a host takes for captured is in the service, whichever answers were
\* lost, refused or another record's, and however often it was sent.
CaptureIsTrue == \A r \in Records : capture[r] = "stored" => r \in stored

=============================================================================
