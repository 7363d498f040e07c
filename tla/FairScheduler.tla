---------------------------- MODULE FairScheduler ----------------------------
(***************************************************************************)
(* FairScheduler: process-local admission of runs under a total, a         *)
(* per-subject and a per-account concurrency limit, with an optional       *)
(* bounded queue served round robin among subjects.                        *)
(*                                                                         *)
(* The class runs on one event loop: a call of submit, trySubmit or        *)
(* release runs to completion, and no other call starts meanwhile.  The    *)
(* model takes the loop of pump one iteration at a time: call names the    *)
(* call under way, and only its own steps are enabled until it returns.    *)
(***************************************************************************)
EXTENDS Integers, Sequences, FiniteSets

CONSTANTS
    Tickets,       \* request slots; a released slot may carry a new request
    Subjects, Accounts,
    NoAccount,     \* an identity without a host and account binding
    SubjectOf, AccountOf,         \* the identity of a slot's requests
    Total, SubjectLimit, AccountLimit,
    HasQueue, QueueTotal, QueuePerSubject

ASSUME SchedulerAssumption ==
    /\ NoAccount \notin Accounts
    /\ IsFiniteSet(Tickets)
    /\ SubjectOf \in [Tickets -> Subjects]
    /\ AccountOf \in [Tickets -> Accounts \cup {NoAccount}]
    /\ {Total, QueueTotal, QueuePerSubject} \subseteq Nat \ {0}
    /\ SubjectLimit \in [Subjects -> Nat \ {0}]
    /\ AccountLimit \in [Accounts -> Nat \ {0}]
    /\ HasQueue \in BOOLEAN

VARIABLES
    entry,     \* Entry.state of each slot's request
    pending,   \* the waiting requests of each subject, in arrival order
    order,     \* the rotation of subjects with waiting requests
    active, queued,
    subjects, accounts,     \* the counters of running requests
    call,      \* the call under way
    skipped,   \* pump's local variable
    passed     \* history: how often a subject that only lacked a slot was passed

vars == <<entry, pending, order, active, queued, subjects, accounts,
          call, skipped, passed>>

-----------------------------------------------------------------------------
NoCall == [op |-> "none"]
Calls == {NoCall, [op |-> "release"]}
           \cup [op : {"submit", "trySubmit"}, ticket : Tickets]

Within(t) ==
    /\ subjects[SubjectOf[t]] < SubjectLimit[SubjectOf[t]]
    /\ AccountOf[t] # NoAccount => accounts[AccountOf[t]] < AccountLimit[AccountOf[t]]

Eligible(t) == active < Total /\ Within(t)

\* Names with an underscore are faulty variants of the definition that follows
\* them, kept to show which property each fault breaks.

\* A change of the counter of a subject, or of an account where there is one.
Bump(counts, key, by) ==
    IF key \in DOMAIN counts THEN [counts EXCEPT ![key] = @ + by] ELSE counts

\* start(entry)
Started(t) ==
    /\ entry' = [entry EXCEPT ![t] = "active"]
    /\ active' = active + 1
    /\ subjects' = Bump(subjects, SubjectOf[t], 1)
    /\ accounts' = Bump(accounts, AccountOf[t], 1)

\* A running request gives its slot back.
Freed(t) ==
    /\ active' = active - 1
    /\ subjects' = Bump(subjects, SubjectOf[t], -1)
    /\ accounts' = Bump(accounts, AccountOf[t], -1)

\* A subject of which some waiting request lacks nothing but a slot in total.
Ready(s) == \E i \in DOMAIN pending[s] : Within(pending[s][i])

\* Bound of the model: the history counts no further.
MaxPassed == Cardinality(Subjects)

\* The history after a step that starts a request of the subjects in by.
Pass(by) ==
    passed' = [s \in Subjects |->
                  IF s \in by \/ ~Ready(s)' THEN 0
                  ELSE IF by = {} \/ passed[s] = MaxPassed THEN passed[s]
                  ELSE passed[s] + 1]

Drop(seq, i) == SubSeq(seq, 1, i - 1) \o SubSeq(seq, i + 1, Len(seq))

-----------------------------------------------------------------------------
Init ==
    /\ entry = [t \in Tickets |-> "released"]
    /\ pending = [s \in Subjects |-> <<>>]
    /\ order = <<>>
    /\ active = 0 /\ queued = 0
    /\ subjects = [s \in Subjects |-> 0]
    /\ accounts = [a \in Accounts |-> 0]
    /\ call = NoCall
    /\ skipped = 0
    /\ passed = [s \in Subjects |-> 0]

\* submit and trySubmit pump before they look for capacity.
Submit(t, op) ==
    /\ call = NoCall
    /\ entry[t] = "released"
    /\ call' = [op |-> op, ticket |-> t]
    /\ skipped' = 0
    /\ UNCHANGED <<entry, pending, order, active, queued, subjects, accounts, passed>>

Pumping_HeadOnly ==
    /\ call # NoCall
    /\ active < Total
    /\ order # <<>>
    /\ skipped = 0

\* The loop condition of pump.
Pumping ==
    /\ call # NoCall
    /\ active < Total
    /\ skipped < Len(order)

\* An iteration that finds nothing eligible: the subject goes to the back.
PumpSkip ==
    /\ Pumping
    /\ \A i \in DOMAIN pending[Head(order)] : ~Eligible(pending[Head(order)][i])
    /\ order' = Append(Tail(order), Head(order))
    /\ skipped' = skipped + 1
    /\ UNCHANGED <<entry, pending, active, queued, subjects, accounts, call, passed>>

FirstEligible_Any(s, i) == Eligible(pending[s][i])

FirstEligible(s, i) ==
    /\ Eligible(pending[s][i])
    /\ \A j \in 1..(i - 1) : ~Eligible(pending[s][j])

Rotated_KeepsTurn(s) == IF Len(pending[s]) > 1 THEN order ELSE Tail(order)

\* A subject that was served goes to the back while it still waits.
Rotated(s) == IF Len(pending[s]) > 1 THEN Append(Tail(order), s) ELSE Tail(order)

\* An iteration that starts the subject's first eligible request.
PumpStart ==
    /\ Pumping
    /\ LET s == Head(order) IN
       \E i \in DOMAIN pending[s] :
          /\ FirstEligible(s, i)
          /\ Started(pending[s][i])
          /\ pending' = [pending EXCEPT ![s] = Drop(@, i)]
          /\ order' = Rotated(s)
          /\ queued' = queued - 1
          /\ skipped' = 0
          /\ Pass({s})
    /\ UNCHANGED call

Admitting == call.op \in {"submit", "trySubmit"} /\ ~Pumping

\* The request starts at once.
AdmitStart ==
    /\ Admitting
    /\ Eligible(call.ticket)
    /\ Started(call.ticket)
    /\ call' = NoCall
    /\ UNCHANGED <<pending, order, queued, skipped>>
    /\ Pass({SubjectOf[call.ticket]})

\* The queue the request may wait in has room for it.
MayWait(t) ==
    /\ HasQueue /\ call.op = "submit"
    /\ queued < QueueTotal
    /\ Len(pending[SubjectOf[t]]) < QueuePerSubject

AdmitQueue ==
    /\ Admitting
    /\ ~Eligible(call.ticket)
    /\ MayWait(call.ticket)
    /\ LET t == call.ticket
           s == SubjectOf[t]
       IN  /\ entry' = [entry EXCEPT ![t] = "queued"]
           /\ order' = IF pending[s] = <<>> THEN Append(order, s) ELSE order
           /\ pending' = [pending EXCEPT ![s] = Append(@, t)]
    /\ queued' = queued + 1
    /\ call' = NoCall
    /\ UNCHANGED <<active, subjects, accounts, skipped>>
    /\ Pass({})

\* BUSY or QUEUE_FULL is thrown.
AdmitReject ==
    /\ Admitting
    /\ ~Eligible(call.ticket)
    /\ ~MayWait(call.ticket)
    /\ call' = NoCall
    /\ UNCHANGED <<entry, pending, order, active, queued, subjects, accounts,
                   skipped, passed>>

\* release of a running request, by its holder or by its abort signal.
ReleaseActive(t) ==
    /\ call = NoCall
    /\ entry[t] = "active"
    /\ entry' = [entry EXCEPT ![t] = "released"]
    /\ Freed(t)
    /\ call' = [op |-> "release"]
    /\ skipped' = 0
    /\ UNCHANGED <<pending, order, queued>>
    /\ Pass({})

\* prune, as a waiting request of s leaves: with the last one the subject leaves
\* the rotation.
Pruned(s) ==
    IF Len(pending[s]) = 1 /\ \E k \in DOMAIN order : order[k] = s
    THEN Drop(order, CHOOSE k \in DOMAIN order : order[k] = s)
    ELSE order

\* release of a waiting request, by its holder or by its abort signal: it
\* leaves the queue, and a subject without waiting requests the rotation.
ReleaseQueued(t) ==
    /\ call = NoCall
    /\ entry[t] = "queued"
    /\ LET s == SubjectOf[t] IN
       \E i \in DOMAIN pending[s] :
          /\ pending[s][i] = t
          /\ pending' = [pending EXCEPT ![s] = Drop(@, i)]
          /\ order' = Pruned(s)
    /\ entry' = [entry EXCEPT ![t] = "released"]
    /\ queued' = queued - 1
    /\ call' = [op |-> "release"]
    /\ skipped' = 0
    /\ UNCHANGED <<active, subjects, accounts>>
    /\ Pass({})

\* pump is done and release returns.
Released ==
    /\ call.op = "release"
    /\ ~Pumping
    /\ call' = NoCall
    /\ UNCHANGED <<entry, pending, order, active, queued, subjects, accounts,
                   skipped, passed>>

\* The steps of the call under way.
Running ==
    PumpSkip \/ PumpStart \/ AdmitStart \/ AdmitQueue \/ AdmitReject \/ Released

Next ==
    \/ \E t \in Tickets : \E op \in {"submit", "trySubmit"} : Submit(t, op)
    \/ \E t \in Tickets : ReleaseActive(t) \/ ReleaseQueued(t)
    \/ Running

Spec == Init /\ [][Next]_vars

\* A call returns, and every admitted run ends: the provider finishes or the
\* application cancels it.  Nothing makes a client submit or withdraw.
Fairness ==
    /\ WF_vars(Running)
    /\ \A t \in Tickets : SF_vars(ReleaseActive(t))

FairSpec == Spec /\ Fairness

-----------------------------------------------------------------------------
(* Properties *)

\* Every variable has its type.
TypeOK ==
    /\ entry \in [Tickets -> {"released", "queued", "active"}]
    /\ pending \in [Subjects -> Seq(Tickets)]
    /\ order \in Seq(Subjects)
    /\ active \in Nat /\ queued \in Nat
    /\ subjects \in [Subjects -> Nat]
    /\ accounts \in [Accounts -> Nat]
    /\ call \in Calls
    /\ skipped \in Nat
    /\ passed \in [Subjects -> Nat]

IsActive(t) == entry[t] = "active"

CountsAgree ==
    /\ active = Cardinality({t \in Tickets : IsActive(t)})
    /\ queued = Cardinality({t \in Tickets : entry[t] = "queued"})
    /\ \A s \in Subjects :
          subjects[s] = Cardinality({t \in Tickets : IsActive(t) /\ SubjectOf[t] = s})
    /\ \A a \in Accounts :
          accounts[a] = Cardinality({t \in Tickets : IsActive(t) /\ AccountOf[t] = a})

Occurs(seq, x) == {i \in DOMAIN seq : seq[i] = x}

QueuesAgree ==
    /\ \A t \in Tickets : \A s \in Subjects :
          Cardinality(Occurs(pending[s], t)) =
             IF entry[t] = "queued" /\ SubjectOf[t] = s THEN 1 ELSE 0
    /\ \A s \in Subjects :
          Cardinality(Occurs(order, s)) = IF pending[s] = <<>> THEN 0 ELSE 1

\* The class's redundant state tells one story.  The counters are the requests
\* they count: over any sequence of admissions, aborts and double releases no
\* slot leaks and none is returned twice.  Every waiting request stands once in
\* its subject's queue, and the rotation holds exactly the subjects with a
\* queue, once each: no request waits where pump will never look, and pump never
\* finds an empty queue.
BookkeepingAgrees == CountsAgree /\ QueuesAgree

\* No limit is ever exceeded.
WithinLimits ==
    /\ active <= Total
    /\ \A s \in Subjects : subjects[s] <= SubjectLimit[s]
    /\ \A a \in Accounts : accounts[a] <= AccountLimit[a]

\* Between calls no request waits that could run: each release wakes all it can.
WorkConserving ==
    call = NoCall => \A t \in Tickets : entry[t] = "queued" => ~Eligible(t)

\* The counters are true and bind, and between calls no slot is free that a waiting
\* request could take, after whatever aborts and releases.
SchedulerIsSound == TypeOK /\ BookkeepingAgrees /\ WithinLimits /\ WorkConserving

\* "preserving arrival order among requests whose account has capacity": no
\* request starts while an earlier one of its subject and account waits.
ArrivalOrder ==
    [][\A t \in Tickets : \A i \in DOMAIN pending[SubjectOf[t]] :
          LET u == pending[SubjectOf[t]][i] IN
          /\ entry[t] # "active" /\ entry'[t] = "active"
          /\ u # t /\ entry'[u] = "queued" /\ AccountOf[u] = AccountOf[t]
          => \E j \in 1..(i - 1) : pending[SubjectOf[t]][j] = t]_vars

\* A subject with a request that lacks only a slot is passed by each other
\* subject at most once before it is served.
BoundedOvertaking ==
    \A s \in Subjects : passed[s] < MaxPassed

\* A request that needs no account is served or withdrawn in the end, although
\* others, with and without an account, keep arriving.
NoStarvation ==
    \A t \in Tickets :
        AccountOf[t] = NoAccount => (entry[t] = "queued" ~> entry[t] # "queued")

\* docs/scheduling.md: "An admitted tenant's backlog cannot indefinitely
\* overtake another eligible queued tenant."  A request that is eligible again
\* and again does not wait for ever.
NoIndefiniteOvertaking ==
    \A t \in Tickets : []<>Eligible(t) => []<>(entry[t] # "queued")

=============================================================================
