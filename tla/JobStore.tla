------------------------------ MODULE JobStore ------------------------------
(***************************************************************************)
(* SqliteJobStore: the durable job queue of a host.  One SQLite file holds *)
(* the accepted jobs, at most one worker lease, and a generation number.   *)
(* Generation 0 is the original layout (user_version 1); a store adopted   *)
(* by acquireQuiet has a generation of at least 1 (user_version 2), and    *)
(* every handle is then bound to the generation it opened or acquired.     *)
(*                                                                         *)
(* Every operation is one BEGIN IMMEDIATE transaction, hence one action:   *)
(* the fence, then maintenance (expired leases and payloads), then the     *)
(* work.  When the work throws, SQLite rolls back to the savepoint and the *)
(* maintenance is still committed.  When the fence throws, nothing is.     *)
(***************************************************************************)
EXTENDS Integers, Sequences, FiniteSetsExt

CONSTANTS
    Subjects,          \* authenticated subjects
    Keys,              \* the submission keys of a subject
    Prints,            \* request fingerprints
    Progress,          \* the types of the events between a run's first and last
    Handles,           \* SqliteJobStore objects, one per open connection
    Owners,            \* worker identities (a UUID per JobService)
    NoOwner,           \* no lease row, or a handle that never acquired
    LeaseMs, RetentionMs,
    MaxJobs, MaxJobsPerSubject, MaxBytes, MaxJobBytes,
    BaseSize,          \* the size of a record with an empty event log
    ReserveSize,       \* the 4 KiB reserved for a live job
    MaxTime,           \* bound of the model: the last clock reading
    MaxGeneration      \* bound of the model: the last ownership cycle

ASSUME JobStoreAssumption ==
    /\ NoOwner \notin Owners
    /\ Progress \cap {"run.started", "run.completed", "run.failed", "run.cancelled"} = {}
    /\ {LeaseMs, RetentionMs, BaseSize} \subseteq Nat \ {0}
    /\ {MaxJobs, MaxJobsPerSubject, MaxBytes, MaxJobBytes,
        MaxTime, MaxGeneration} \subseteq Nat
    /\ ReserveSize \in Nat /\ ReserveSize >= 2

VARIABLES
    jobs,        \* ad_jobs, by rowid
    lease,       \* ad_job_worker: its one row, or NoLease
    generation,  \* ad_job_generation, 0 in the original layout
    handles,     \* the fields of each SqliteJobStore object
    now          \* Date.now()

dbVars == <<jobs, lease, generation>>
vars == <<jobs, lease, generation, handles, now>>

-----------------------------------------------------------------------------
(* Records *)

Terminal == {"completed", "failed", "cancelled", "interrupted"}
States == {"queued", "running"} \cup Terminal

\* The events that close a run, and the others.
Closing == {"run.completed", "run.failed", "run.cancelled"}
EventTypes == {"run.started"} \cup Progress \cup Closing

\* uncertain: the event's error carries outcome "uncertain".
Event == [type : EventTypes, uncertain : BOOLEAN]
Plain(type) == [type |-> type, uncertain |-> FALSE]

\* The events a running driver can hand to append.
DriverEvents ==
    {e \in Event : e.uncertain => e.type \in {"run.failed", "run.cancelled"}}

\* A row.  expires = 0 is the SQL NULL; erased is payload IS NULL.  The log of
\* an erased row is history only: no action reads it.
Row == [subject : Subjects, key : Keys, print : Prints, state : States,
        log : Seq(Event), cancelRequested : BOOLEAN, expires : Nat,
        erased : BOOLEAN, safe : BOOLEAN]

NoLease == [owner |-> NoOwner, expires |-> 0]
Closed == [open |-> FALSE, generation |-> 0, owner |-> NoOwner, acquired |-> FALSE]

Ids == DOMAIN jobs

IsUncertain(row) ==
    \E n \in DOMAIN row.log : row.log[n].uncertain

\* Names with an underscore are faulty variants of the definition that follows
\* them, kept to show which property each fault breaks.
Cost_NoReserve(row) == IF row.erased THEN 0 ELSE BaseSize + Len(row.log)

\* bytes + reserved of a row.
Cost(row) ==
    IF row.erased THEN 0
    ELSE BaseSize + Len(row.log)
           + (IF row.state \in Terminal THEN 0 ELSE ReserveSize)

Total(rows) == MapThenSumSet(LAMBDA i : Cost(rows[i]), DOMAIN rows)

\* save without the emergency flag accepts the row at position i.
Fits(rows, i) ==
    /\ Cost(rows[i]) <= MaxJobBytes
    /\ Total(rows) <= MaxBytes

Classified_ByStateOnly(row) ==
    [row EXCEPT !.safe = generation > 0 /\ row.state \in {"completed", "cancelled"}]

\* save's handoff_safe column, which exists from generation 1 on.
Classified(row) ==
    [row EXCEPT !.safe = /\ generation > 0
                         /\ row.state \in {"completed", "cancelled"}
                         /\ ~IsUncertain(row)]

\* end: the fixed terminal barrier, after a run.started when nothing is logged.
Ended(row, state, uncertain) ==
    LET opened == IF row.log = <<>> THEN <<Plain("run.started")>> ELSE row.log
        type   == IF state = "cancelled" THEN "run.cancelled" ELSE "run.failed"
    IN  Classified([row EXCEPT
            !.state = state,
            !.log = Append(opened, [type |-> type, uncertain |-> uncertain]),
            !.expires = now + RetentionMs])

-----------------------------------------------------------------------------
(* The parts of a transaction *)

Live == lease # NoLease /\ lease.expires > now
Lapsed == lease # NoLease /\ lease.expires <= now

Holds_Anyone(owner) == Live

\* lease(owner): the caller owns a lease that has not expired.
Holds(owner) == Live /\ lease.owner = owner

\* A transaction of the given mode gets past its fence.
Fenced(h, mode) ==
    /\ handles[h].open
    /\ handles[h].generation = generation
    /\ generation > 0 /\ mode = "ordinary" => Holds(handles[h].owner)
    /\ generation > 0 /\ mode = "acquire" => ~Live

\* checkOwner, the fence and lease(owner): what every worker operation needs.
Worker(h, owner) ==
    /\ Fenced(h, "ordinary")
    /\ generation > 0 => handles[h].owner = owner
    /\ Holds(owner)

InterruptRunning(rows) ==
    [i \in DOMAIN rows |->
        IF rows[i].state = "running" THEN Ended(rows[i], "interrupted", TRUE)
        ELSE rows[i]]

EraseExpired(rows) ==
    [i \in DOMAIN rows |->
        IF rows[i].expires # 0 /\ rows[i].expires <= now
        THEN [rows[i] EXCEPT !.erased = TRUE]
        ELSE rows[i]]

Maintained_LeaseOnly == EraseExpired(jobs)

\* maintain(now): what every transaction but the handoff does first.
Maintained ==
    EraseExpired(IF Lapsed THEN InterruptRunning(jobs) ELSE jobs)
MaintainedLease == IF Lapsed THEN NoLease ELSE lease

-----------------------------------------------------------------------------
(* Operations *)

Init ==
    /\ jobs = <<>>
    /\ lease = NoLease
    /\ generation = 0
    /\ handles = [h \in Handles |-> Closed]
    /\ now = 0

\* open / openExisting: the handle remembers the generation it found.
Open(h) ==
    /\ ~handles[h].open
    /\ handles' = [handles EXCEPT ![h] =
                      [Closed EXCEPT !.open = TRUE, !.generation = generation]]
    /\ UNCHANGED <<dbVars, now>>

\* close, and just as well a crash of the process that holds the handle: the
\* database is left as it is, the lease row included.
Close(h) ==
    /\ handles[h].open
    /\ handles' = [handles EXCEPT ![h] = Closed]
    /\ UNCHANGED <<dbVars, now>>

\* Every transaction whose work changes nothing: read, queued, a submission of
\* a key already accepted, and every operation that throws after its fence.
Access(h) ==
    /\ Fenced(h, "ordinary")
    /\ jobs' = Maintained
    /\ lease' = MaintainedLease
    /\ UNCHANGED <<generation, handles, now>>

\* advanceGeneration
Advanced == IF generation > 0 THEN generation + 1 ELSE 0

Acquire(h, owner) ==
    /\ Fenced(h, "acquire")
    /\ ~(handles[h].generation > 0 /\ handles[h].acquired)
    /\ MaintainedLease = NoLease
    /\ Advanced <= MaxGeneration
    /\ jobs' = Maintained
    /\ lease' = [owner |-> owner, expires |-> now + LeaseMs]
    /\ generation' = Advanced
    /\ handles' = [handles EXCEPT ![h] =
                      [open |-> TRUE, generation |-> Advanced,
                       owner |-> owner, acquired |-> TRUE]]
    /\ UNCHANGED now

\* observation().quiet: no lease row, nothing pending, nothing to reconcile.
Quiet ==
    /\ lease = NoLease
    /\ \A i \in Ids :
          /\ jobs[i].state \in {"completed", "cancelled"}
          /\ IF jobs[i].erased THEN generation > 0 /\ jobs[i].safe
                               ELSE ~IsUncertain(jobs[i])

\* acquireQuiet on handle h returns the fresh handle b.  The snapshot its
\* caller inspected is the current one, or the transaction refuses and changes
\* nothing.  No maintenance runs.
AcquireQuiet(h, b, owner) ==
    /\ Fenced(h, "handoff")
    /\ ~handles[b].open
    /\ Quiet
    /\ generation < MaxGeneration
    /\ jobs' = IF generation = 0
               THEN [i \in Ids |-> [jobs[i] EXCEPT !.safe = TRUE]]
               ELSE jobs
    /\ lease' = [owner |-> owner, expires |-> now + LeaseMs]
    /\ generation' = generation + 1
    /\ handles' = [handles EXCEPT ![b] =
                      [open |-> TRUE, generation |-> generation + 1,
                       owner |-> owner, acquired |-> TRUE]]
    /\ UNCHANGED now

Renew(h, owner) ==
    /\ Worker(h, owner)
    /\ jobs' = Maintained
    /\ lease' = [lease EXCEPT !.expires = now + LeaseMs]
    /\ UNCHANGED <<generation, handles, now>>

Release_KeepRunning(h, owner) ==
    /\ Worker(h, owner)
    /\ Advanced <= MaxGeneration
    /\ jobs' = Maintained
    /\ lease' = NoLease
    /\ generation' = Advanced
    /\ UNCHANGED <<handles, now>>

Release(h, owner) ==
    /\ Worker(h, owner)
    /\ Advanced <= MaxGeneration
    /\ jobs' = InterruptRunning(Maintained)
    /\ lease' = NoLease
    /\ generation' = Advanced
    /\ UNCHANGED <<handles, now>>

NewRow(s, k, p) ==
    [subject |-> s, key |-> k, print |-> p, state |-> "queued", log |-> <<>>,
     cancelRequested |-> FALSE, expires |-> 0, erased |-> FALSE, safe |-> FALSE]

\* The row that owns a submission key, tombstones included.
Accepted(s, k) == \E i \in Ids : jobs[i].subject = s /\ jobs[i].key = k

Submit(h, s, k, p) ==
    /\ Fenced(h, "ordinary")
    /\ ~Accepted(s, k)
    /\ Len(jobs) < MaxJobs
    /\ Cardinality({i \in Ids : jobs[i].subject = s}) < MaxJobsPerSubject
    /\ jobs' = Append(Maintained, NewRow(s, k, p))
    /\ Fits(jobs', Len(jobs'))
    /\ lease' = MaintainedLease
    /\ UNCHANGED <<generation, handles, now>>

\* start returns true.
Start(h, owner, i) ==
    /\ Worker(h, owner)
    /\ Maintained[i].state = "queued"
    /\ jobs' = [Maintained EXCEPT ![i] =
                   Classified([Maintained[i] EXCEPT !.state = "running"])]
    /\ UNCHANGED <<lease, generation, handles, now>>

ClosedState(type) ==
    CASE type = "run.completed" -> "completed"
      [] type = "run.cancelled" -> "cancelled"
      [] type = "run.failed"    -> "failed"
      [] OTHER                  -> "running"

\* The rows once append has saved the event.
Appended(i, e) ==
    [Maintained EXCEPT ![i] =
        Classified([Maintained[i] EXCEPT
            !.log = Append(@, e),
            !.state = ClosedState(e.type),
            !.expires = IF e.type \in Closing THEN now + RetentionMs ELSE @])]

\* append of the event numbered n.
AppendEvent(h, owner, i, n, e) ==
    /\ Worker(h, owner)
    /\ Maintained[i].state = "running"
    /\ n = Len(Maintained[i].log) + 1
    /\ n = 1 => e.type = "run.started"
    /\ Fits(Appended(i, e), i)
    /\ jobs' = Appended(i, e)
    /\ UNCHANGED <<lease, generation, handles, now>>

\* fail: before dispatch the job failed; a started one is interrupted.
Fail(h, owner, i) ==
    /\ Worker(h, owner)
    /\ ~Maintained[i].erased
    /\ Maintained[i].state \notin Terminal
    /\ jobs' = [Maintained EXCEPT ![i] =
                   IF Maintained[i].state = "running"
                   THEN Ended(Maintained[i], "interrupted", TRUE)
                   ELSE Ended(Maintained[i], "failed", FALSE)]
    /\ UNCHANGED <<lease, generation, handles, now>>

\* cancel, by any handle of the subject's host: a queued job ends here, a
\* running one is flagged for its worker.
Cancel(h, s, i) ==
    /\ Fenced(h, "ordinary")
    /\ Maintained[i].subject = s
    /\ ~Maintained[i].erased
    /\ Maintained[i].state \notin Terminal
    /\ LET asked == [Maintained[i] EXCEPT !.cancelRequested = TRUE]
       IN  jobs' = [Maintained EXCEPT ![i] =
                       IF asked.state = "queued"
                       THEN Ended(asked, "cancelled", FALSE)
                       ELSE Classified(asked)]
    /\ lease' = MaintainedLease
    /\ UNCHANGED <<generation, handles, now>>

Tick ==
    /\ now < MaxTime
    /\ now' = now + 1
    /\ UNCHANGED <<dbVars, handles>>

WorkerStep(h, owner) ==
    \/ Acquire(h, owner)
    \/ \E b \in Handles : AcquireQuiet(h, b, owner)
    \/ Renew(h, owner)
    \/ Release(h, owner)
    \/ \E i \in Ids : Start(h, owner, i)
    \/ \E i \in Ids : \E e \in DriverEvents : \E n \in 1..(Len(jobs[i].log) + 1) :
          AppendEvent(h, owner, i, n, e)
    \/ \E i \in Ids : Fail(h, owner, i)

ClientStep(h) ==
    \/ Open(h)
    \/ Close(h)
    \/ Access(h)
    \/ \E s \in Subjects, k \in Keys, p \in Prints : Submit(h, s, k, p)
    \/ \E s \in Subjects : \E i \in Ids : Cancel(h, s, i)

Next ==
    \/ \E h \in Handles : ClientStep(h)
    \/ \E h \in Handles, owner \in Owners : WorkerStep(h, owner)
    \/ Tick

Spec == Init /\ [][Next]_vars

-----------------------------------------------------------------------------
(* Properties *)

\* The rows of the tables and the fields of the handles have their types.
TypeOK ==
    /\ jobs \in Seq(Row)
    /\ lease \in [owner : Owners \cup {NoOwner}, expires : Nat]
    /\ generation \in Nat
    /\ handles \in [Handles -> [open : BOOLEAN, generation : Nat,
                                owner : Owners \cup {NoOwner}, acquired : BOOLEAN]]
    /\ now \in Nat

\* A running job always has a lease row, live or lapsed: no sequence of
\* releases, crashes, lapses and takeovers leaves a job running that nobody
\* will ever interrupt (maintain and release interrupt before they delete).
RunningIsOwned ==
    (\E i \in Ids : jobs[i].state = "running") => lease # NoLease

\* The log tells how the job ended: an unstarted job has no log, a live one no
\* closing event, a completed, failed or cancelled one ends in the matching
\* event, and an interrupted one in an uncertain failure (append and end keep
\* info.state and events in step).
LogAgreesWithState ==
    \A i \in Ids :
        LET row == jobs[i] IN
        /\ row.state = "queued" => row.log = <<>>
        /\ \A n \in DOMAIN row.log :
              row.log[n].type \in Closing <=> (n = Len(row.log) /\ row.state \in Terminal)
        /\ row.log # <<>> => row.log[1].type = "run.started"
        /\ row.state \in Terminal =>
              /\ row.log # <<>>
              /\ LET last == row.log[Len(row.log)] IN
                 /\ last.type = CASE row.state = "completed" -> "run.completed"
                                  [] row.state = "cancelled" -> "run.cancelled"
                                  [] OTHER                   -> "run.failed"
                 /\ row.state = "interrupted" => last.uncertain

\* "A reserved 4KiB per live job guarantees room for a fixed, redacted terminal
\* barrier": although end skips the capacity checks, the stored bytes never
\* exceed maxBytes, whatever jobs are interrupted at once.
WithinCapacity == Total(jobs) <= MaxBytes

\* In an adopted store at most one handle that acquired is still current, and
\* a lease row can only be that handle's: a handle left behind by a release, a
\* lapse or another adoption is fenced by its generation for good.
OneBoundHandle ==
    generation > 0 =>
        \A g, h \in Handles :
            /\ handles[g].acquired /\ handles[g].generation = generation =>
                  /\ lease # NoLease /\ lease.owner = handles[g].owner
                  /\ handles[h].acquired /\ handles[h].generation = generation => g = h

\* Adoption is never used to walk away from work: a store that acquireQuiet
\* would hand out holds only jobs that completed or were cancelled, and no event
\* of their logs, the erased ones included, left an effect uncertain
\* (handoff_safe never hides what a tombstone forgot).
QuietIsClean ==
    Quiet => \A i \in Ids : /\ jobs[i].state \in {"completed", "cancelled"}
                            /\ ~IsUncertain(jobs[i])

\* A handoff of the store loses no work, and one handle at most is current after it.
HandoffIsSafe == OneBoundHandle /\ QuietIsClean

\* JobStore's contract, "it must NEVER return that work to queued": a job only
\* moves queued -> running -> outcome or queued -> outcome, it is started once,
\* its log only grows, and after its outcome nothing but erasure changes it.
\* Rows are never removed, so an accepted (subject, key) stays taken and its
\* fingerprint stays what was accepted, also by a tombstone.
Lifecycle ==
    [][\A i \in Ids :
          /\ i \in DOMAIN jobs'
          /\ \A f \in {"subject", "key", "print"} : jobs'[i][f] = jobs[i][f]
          /\ jobs[i].state # "queued" => jobs'[i].state # "queued"
          /\ jobs[i].erased => jobs'[i].erased
          /\ jobs[i].log = SubSeq(jobs'[i].log, 1, Len(jobs[i].log))
          /\ jobs[i].state \in Terminal =>
                jobs'[i].state = jobs[i].state /\ jobs'[i].log = jobs[i].log]_vars

\* A row's columns, its log and the byte count of the whole store tell one story, and
\* it is the story of a job that is started once and ends once.
StoreIsSound == [](TypeOK /\ LogAgreesWithState /\ WithinCapacity) /\ Lifecycle

\* Work passes between workers only through an interruption: a step that takes
\* the lease from its owner leaves no job running, so a new worker never
\* inherits execution.
TakeoverInterrupts ==
    [][lease'.owner # lease.owner =>
          \A i \in DOMAIN jobs' : jobs'[i].state # "running"]_vars

\* "The old owner cannot renew or append results once fenced": a job starts,
\* and its log grows other than by the interruption barrier or the cancellation
\* of a queued job, only while the same owner's lease is live.
OnlyTheOwnerWrites ==
    [][\A i \in Ids :
          \/ jobs'[i].log = jobs[i].log /\ jobs'[i].state = jobs[i].state
          \/ jobs'[i].state = "interrupted"
          \/ jobs[i].state = "queued" /\ jobs'[i].state = "cancelled"
          \/ Live /\ lease' = lease]_vars

\* In an adopted store nobody but the live owner changes a row, and a lapsed
\* one is only recovered by the step that takes the next generation ("Every
\* write path must fence before maintenance").
AdoptedStoreIsFenced ==
    [][generation > 0 /\ (jobs' # jobs \/ lease' # lease) =>
          Live \/ generation' = generation + 1]_vars

-----------------------------------------------------------------------------
(* The store implements the interface's promise.  A row's position is its  *)
(* slot; the other slots of the table are free.                            *)

Queue == INSTANCE JobQueue WITH
    Slots  <- 1..MaxJobs,
    phase  <- [i \in 1..MaxJobs |-> IF i \in Ids THEN jobs[i].state ELSE "free"],
    worker <- lease.owner

\* Every transaction is a step of the abstract queue, whatever else its
\* maintenance did: one worker, one start per job, no requeueing.
ImplementsJobQueue == Queue!Spec

=============================================================================
