----------------------------- MODULE ToolCalls ------------------------------
(***************************************************************************)
(* A reviewed tool call: driver.execute with the ApprovalManager and the   *)
(* ApplicationToolManager.                                                 *)
(*                                                                         *)
(* Several runs share the two managers, each with one tool call in hand.   *)
(* The call is proposed, reviewed by a person, and then executed by the    *)
(* host or by an application that holds a ticket for it.  The run is a     *)
(* generator that stands still at each event it yields; decisions,         *)
(* results, timers and the abort listeners run all the same.               *)
(*                                                                         *)
(* A decision that is refused (another subject, no grant, a call that is   *)
(* not the reviewed one) changes nothing and is left out, like progress.   *)
(***************************************************************************)
EXTENDS Naturals, FiniteSets

CONSTANTS
    Runs,           \* runs with a tool call that requires approval
    MaxReviews,     \* maxPending of the approval manager
    MaxTickets      \* maxPending of the application tool manager

ASSUME ToolCallsAssumption ==
    IsFiniteSet(Runs) /\ MaxReviews \in Nat /\ MaxTickets \in Nat

VARIABLES
    reviews,    \* the approval manager's pending requests
    tickets,    \* the application tool manager's pending executions
    run         \* the runs

vars == <<reviews, tickets, run>>

-----------------------------------------------------------------------------
(* Runs.  Names with an underscore are faulty variants of the definition that
   follows them. *)

\* application, pauses, expires, limited: the tool is the application's; the
\* idle policy is "pause", which means nothing without an inactivity limit; the
\* review expires; an inactivity limit applies.
\* finished, told: the approval's outcome and what its waiter was settled with.
\* due: the review period has passed.  clock: the inactivity timer is armed.
\* delivered: the tool may act from now on.  result: what the tool settled.
\* pending: toolOutcomePending.  receipt, accepted: what the reviewer and the
\* executor were told.
Outcomes == {"approved", "denied", "cancelled", "expired"}
Results == {"output", "error", "lost"}
Places == {"called", "reviewing", "resolved", "executing", "done", "failed", "ended"}
Run == [at : Places, application : BOOLEAN, pauses : BOOLEAN, expires : BOOLEAN,
        limited : BOOLEAN, aborted : BOOLEAN,
        finished : Outcomes \cup {"none"}, told : Outcomes \cup {"none", "unaudited"},
        due : BOOLEAN, clock : BOOLEAN, delivered : BOOLEAN, acted : BOOLEAN,
        result : Results \cup {"none"}, pending : BOOLEAN,
        receipt : Outcomes \cup {"none"}, accepted : {"none", "output", "error"},
        answer : {"none", "completed", "certain", "uncertain"}]

Called(application, pauses, expires, limited) ==
    [at |-> "called", application |-> application, pauses |-> pauses,
     expires |-> expires, limited |-> limited, aborted |-> FALSE,
     finished |-> "none", told |-> "none", due |-> FALSE, clock |-> limited,
     delivered |-> FALSE, acted |-> FALSE, result |-> "none", pending |-> FALSE,
     receipt |-> "none", accepted |-> "none", answer |-> "none"]

Init ==
    /\ reviews = {} /\ tickets = {}
    /\ run \in [Runs -> {Called(application, pauses, expires, limited) :
                           application, pauses, expires, limited \in BOOLEAN}]
    /\ \A r \in Runs : run[r].pauses => run[r].limited

\* reportProgress: the inactivity timer starts again.
Active(rn) == [rn EXCEPT !.clock = rn.limited /\ ~rn.aborted]

Audited_Unsettled(rn, ok) == IF ok THEN rn.finished ELSE "none"

\* What the waiter is settled with: the outcome, once the audit sink has it.
Audited(rn, ok) == IF ok THEN rn.finished ELSE "unaudited"

Finished_StillPaused(rn, outcome, ok) ==
    LET done == [rn EXCEPT !.finished = outcome]
    IN  [done EXCEPT !.told = Audited(done, ok)]

\* finish, the first time: the outcome is audited, the waiter settled, and the
\* inactivity clock goes on if the tool may run.
Finished(rn, outcome, ok) ==
    LET done == [rn EXCEPT !.finished = outcome]
        settled == [done EXCEPT !.told = Audited(done, ok)]
    IN  IF rn.pauses /\ settled.told = "approved" THEN Active(settled) ELSE settled

\* What the tool settles with; an output is activity.
Settled(rn, result) ==
    IF result = "output" THEN Active([rn EXCEPT !.result = result])
    ELSE [rn EXCEPT !.result = result]

\* The abort listeners of both managers.
Aborted(r, rn, ok) ==
    LET stopped == [rn EXCEPT !.aborted = TRUE, !.clock = FALSE]
    IN  IF r \in reviews THEN Finished(stopped, "cancelled", ok)
        ELSE IF r \in tickets THEN Settled(stopped, "lost")
        ELSE stopped

-----------------------------------------------------------------------------
(* The review *)

\* The run asks for a review of the call, unless the manager is full or the
\* audit sink refuses the request; approval.requested is yielded.
RequestReview(r) ==
    /\ run[r].at = "called" /\ ~run[r].aborted
    /\ \/ /\ Cardinality(reviews) < MaxReviews
          /\ reviews' = reviews \cup {r}
          /\ run' = [run EXCEPT ![r].at = "reviewing",
                                ![r].clock = @ /\ ~run[r].pauses]
       \/ /\ run' = [run EXCEPT ![r].at = "failed"]
          /\ UNCHANGED reviews
    /\ UNCHANGED tickets

\* What decide makes of a decision: a review that has expired or was aborted is
\* finished so, and the decision refused.
Decided(r, outcome) ==
    IF run[r].aborted THEN "cancelled" ELSE IF run[r].due THEN "expired" ELSE outcome

\* A person approves, denies or cancels; a failing audit sink is reported.
Decide(r, outcome) ==
    /\ r \in reviews
    /\ reviews' = reviews \ {r}
    /\ \E ok \in BOOLEAN :
          run' = [run EXCEPT ![r] =
                    [Finished(@, Decided(r, outcome), ok) EXCEPT
                        !.receipt = IF ok /\ Decided(r, outcome) = outcome
                                    THEN outcome ELSE "none"]]
    /\ UNCHANGED tickets

\* The review period passes.
Lapse(r) ==
    /\ r \in reviews /\ run[r].expires /\ ~run[r].due
    /\ run' = [run EXCEPT ![r].due = TRUE]
    /\ UNCHANGED <<reviews, tickets>>

\* The expiry timer fires.
Expire(r) ==
    /\ r \in reviews /\ run[r].due
    /\ reviews' = reviews \ {r}
    /\ \E ok \in BOOLEAN : run' = [run EXCEPT ![r] = Finished(@, "expired", ok)]
    /\ UNCHANGED tickets

Resolve_Unaudited(r) ==
    /\ run[r].at = "reviewing" /\ run[r].finished # "none"
    /\ run' = [run EXCEPT ![r].at = IF run[r].finished # "none" THEN "resolved" ELSE "failed"]
    /\ UNCHANGED <<reviews, tickets>>

\* The consumer has read approval.requested and the review is settled: its
\* outcome is yielded, or the audit failure thrown.
Resolve(r) ==
    /\ run[r].at = "reviewing" /\ run[r].told # "none"
    /\ run' = [run EXCEPT ![r].at = IF run[r].told = "unaudited" THEN "failed" ELSE "resolved"]
    /\ UNCHANGED <<reviews, tickets>>

-----------------------------------------------------------------------------
(* The execution *)

\* The tool may run: it was approved, and the run is not aborted now.
Cleared(r) == run[r].finished = "approved" /\ ~run[r].aborted

\* ApplicationToolManager.request: a ticket, while there is room for one.
Requested(r) ==
    /\ Cardinality(tickets) < MaxTickets
    /\ tickets' = tickets \cup {r}

\* The consumer has read approval.resolved and the tool runs: a host's tool, or
\* an application's with a ticket, for which tool.execution.requested is yielded.
Execute(r) ==
    /\ run[r].at = "resolved" /\ Cleared(r)
    /\ IF run[r].application THEN Requested(r) ELSE UNCHANGED tickets
    /\ run' = [run EXCEPT ![r].at = "executing", ![r].pending = TRUE,
                          ![r].delivered = TRUE]
    /\ UNCHANGED reviews

\* The application has no room for the ticket, or the outcome forbids the tool;
\* a cancellation by the reviewer aborts the run.
Refuse(r) ==
    /\ run[r].at = "resolved"
    /\ \/ ~Cleared(r)
       \/ run[r].application /\ Cardinality(tickets) >= MaxTickets
    /\ run' = [run EXCEPT ![r].at = "failed",
                          ![r].aborted = @ \/ run[r].finished = "cancelled",
                          ![r].clock = @ /\ run[r].finished # "cancelled"]
    /\ UNCHANGED <<reviews, tickets>>

\* The tool acts, in the host or in the application, aborted or not.
Act(r) ==
    /\ run[r].delivered /\ ~run[r].acted
    /\ run' = [run EXCEPT ![r].acted = TRUE]
    /\ UNCHANGED <<reviews, tickets>>

\* The host's tool returns or throws; an aborted run does not hear of it.
Return(r) ==
    /\ run[r].at = "executing" /\ ~run[r].application /\ run[r].acted
    /\ run[r].result = "none" /\ ~run[r].aborted
    /\ \E result \in {"output", "error"} :
          run' = [run EXCEPT ![r] = Settled(@, result)]
    /\ UNCHANGED <<reviews, tickets>>

\* complete: the application's result, error, or an output that is too large or
\* does not match its schema, which is an error that is not accepted.
Complete(r) ==
    /\ r \in tickets /\ ~run[r].aborted
    /\ tickets' = tickets \ {r}
    /\ \E result \in {"output", "error"}, accepted \in {"none", "output", "error"} :
          /\ accepted \in {"none", result} /\ (result = "output" => accepted = "output")
          /\ run' = [run EXCEPT ![r] = Settled(@, result), ![r].accepted = accepted]
    /\ UNCHANGED reviews

\* The run reads an output and yields tool.completed.
Complied(r) ==
    /\ run[r].at = "executing" /\ run[r].result = "output" /\ ~run[r].aborted
    /\ run' = [run EXCEPT ![r].at = "done", ![r].pending = FALSE,
                          ![r].answer = "completed"]
    /\ UNCHANGED <<reviews, tickets>>

\* Anything else ends the run: the tool's error, the abort, a limit.
Fail(r) ==
    /\ \/ run[r].at \in {"called", "resolved", "done"} /\ run[r].aborted
       \/ run[r].at = "executing" /\ (run[r].aborted \/ run[r].result \in {"error", "lost"})
       \/ run[r].at = "reviewing" /\ run[r].aborted /\ run[r].told # "none"
    /\ run' = [run EXCEPT ![r].at = "failed"]
    /\ UNCHANGED <<reviews, tickets>>

Answered_AlwaysCertain(rn) == IF rn.answer = "completed" THEN "completed" ELSE "certain"

\* The outcome of the tool that the run's last event reports.
Answered(rn) ==
    IF rn.answer = "completed" THEN "completed"
    ELSE IF rn.pending THEN "uncertain" ELSE "certain"

\* catch and finally: the failure is yielded, the clock stops.
Finish(r) ==
    /\ \/ run[r].at = "failed"
       \/ run[r].at = "done"
    /\ run' = [run EXCEPT ![r].at = "ended", ![r].answer = Answered(run[r]),
                          ![r].clock = FALSE, ![r].aborted = TRUE]
    /\ UNCHANGED <<reviews, tickets>>

\* The caller aborts, the stream closes, or the inactivity timer fires.
Stop(r) ==
    /\ run[r].at # "ended" /\ ~run[r].aborted
    /\ \E ok \in BOOLEAN : run' = [run EXCEPT ![r] = Aborted(r, @, ok)]
    /\ reviews' = reviews \ {r}
    /\ tickets' = tickets \ {r}

Next ==
    \E r \in Runs :
        \/ RequestReview(r) \/ Lapse(r) \/ Expire(r) \/ Resolve(r)
        \/ \E outcome \in {"approved", "denied", "cancelled"} : Decide(r, outcome)
        \/ Execute(r) \/ Refuse(r) \/ Act(r) \/ Return(r) \/ Complete(r)
        \/ Complied(r) \/ Fail(r) \/ Finish(r) \/ Stop(r)

Spec == Init /\ [][Next]_vars

\* Timers fire, and the consumer goes on reading.
FairSpec ==
    /\ Spec
    /\ \A r \in Runs :
          WF_vars(Lapse(r)) /\ WF_vars(Expire(r)) /\ WF_vars(Resolve(r))

-----------------------------------------------------------------------------
(* Properties *)

\* Runs have their types, and a waiter is settled with the outcome or with the
\* audit failure, once there is an outcome.
TypeOK ==
    /\ reviews \subseteq Runs /\ tickets \subseteq Runs
    /\ run \in [Runs -> Run]
    /\ \A r \in Runs : run[r].told \in {"unaudited", run[r].finished}

\* "No tool was authorized by this decision": a tool may act only for a run
\* whose approval the audit sink recorded and its waiter received
\* (approvals.ts:153, driver.ts:1311).
ReviewedBeforeEffect ==
    \A r \in Runs : run[r].delivered => run[r].told = "approved"

\* "Expired decisions are rejected even if the timer callback has not yet run":
\* a call is approved only while its review is open, in time and not aborted,
\* and the reviewer's receipt is what the run is told.
ApprovedInTime ==
    [][\A r \in Runs :
          /\ run'[r].finished = "approved" /\ run[r].finished # "approved" =>
                r \in reviews /\ ~run[r].due /\ ~run[r].aborted
          /\ run'[r].receipt # "none" => run'[r].told = run'[r].receipt]_vars

\* "A lost acknowledgement is uncertain" (driver.ts:1325): a run never reports a
\* certain failure of a call that its tool may have acted on or may still act
\* on, whatever the abort, the result and the ticket's end came after.
EffectIsNotDenied ==
    \A r \in Runs :
        run[r].at = "ended" /\ run[r].delivered => run[r].answer \in {"completed", "uncertain"}

\* Neither manager keeps an entry of a run that no longer waits for it, so that
\* the limits on pending entries count waiting runs only.
NoLeftovers ==
    /\ \A r \in reviews : run[r].at = "reviewing" /\ run[r].finished = "none"
    /\ \A r \in tickets : run[r].at = "executing" /\ run[r].result = "none"

\* docs/approvals.md, "pause suspends the configured activity clock while the
\* person decides", and "the full interval resumes when the decision settles,
\* even if a local consumer stops reading".
IdleClock ==
    \A r \in Runs :
        /\ r \in reviews /\ run[r].pauses => ~run[r].clock
        /\ run[r].limited /\ run[r].told = "approved" /\ ~run[r].aborted
           /\ run[r].at \in {"reviewing", "resolved", "executing"} => run[r].clock

\* The bounded maps hold what is waited for, and the activity clock runs when it must.
WaitsAreBounded == TypeOK /\ NoLeftovers /\ IdleClock

\* An expiring review ends for its run too, also when the audit sink fails.
ReviewEnds ==
    \A r \in Runs :
        (run[r].at = "reviewing" /\ run[r].expires) ~> (run[r].at # "reviewing")

\* A review is approved only in time, its reviewer is told what the run is told, and it
\* ends for both.
ReviewSettles == ApprovedInTime /\ ReviewEnds

=============================================================================
