-------------------------- MODULE JobServiceProofs --------------------------
(***************************************************************************)
(* Proofs about JobStore and about JobService, its clients.                *)
(*                                                                         *)
(* Of the store: its type invariant, that a running job is always owned,   *)
(* that work passes between workers only through an interruption, that     *)
(* rows, logs and byte counts agree, that a handoff fences, and that the   *)
(* store implements JobQueue.  Of the services: their types, that one      *)
(* executes a job, that a closed one is quiet, that no effect runs ahead   *)
(* of the durable log, and that an outcome which misses an effect's result *)
(* is uncertain, for any services, jobs and limits, whatever crashes or is *)
(* fenced.                                                                 *)
(***************************************************************************)
EXTENDS JobService, Sums, FiniteSetTheorems, TLAPS

USE JobStoreAssumption

-----------------------------------------------------------------------------
(* The operators on rows *)

\* An interval that starts at one.
LEMMA IntervalSize ==
    ASSUME NEW n \in Nat PROVE IsFiniteSet(1..n) /\ Cardinality(1..n) = n
<1>1. 1 \in Int /\ n \in Int
  OBVIOUS
<1>2. IsFiniteSet(1..n) /\ Cardinality(1..n) = IF 1 > n THEN 0 ELSE n - 1 + 1
  BY <1>1, FS_Interval
<1> QED
  BY <1>2

\* A function on the positions of a table is a table.
LEMMA TableIsSequence ==
    ASSUME NEW S, NEW n \in Nat, NEW f \in [1..n -> S]
    PROVE  f \in Seq(S)
OBVIOUS

\* save's classification of a row changes no column but handoff_safe.
LEMMA ClassifiedRow ==
    ASSUME NEW row \in Row
    PROVE  /\ Classified(row) \in Row
           /\ Classified(row).state = row.state
BY DEF Classified, Row

\* end produces a row in the state it is asked for.
LEMMA EndedRow ==
    ASSUME TypeOK, NEW row \in Row,
           NEW state \in {"failed", "cancelled", "interrupted"},
           NEW uncertain \in BOOLEAN
    PROVE  /\ Ended(row, state, uncertain) \in Row
           /\ Ended(row, state, uncertain).state = state
<1> DEFINE opened == IF row.log = <<>> THEN <<Plain("run.started")>> ELSE row.log
           type == IF state = "cancelled" THEN "run.cancelled" ELSE "run.failed"
           barrier == [type |-> type, uncertain |-> uncertain]
           body == [row EXCEPT !.state = state,
                               !.log = Append(opened, barrier),
                               !.expires = now + RetentionMs]
<1>1. opened \in Seq(Event)
  <2>1. row.log \in Seq(Event)
    BY DEF Row
  <2>2. Plain("run.started") \in Event
    BY DEF Plain, Event, EventTypes
  <2> QED
    BY <2>1, <2>2
<1>2. barrier \in Event
  BY DEF Event, EventTypes, Closing
<1>3. Append(opened, barrier) \in Seq(Event)
  BY <1>1, <1>2
<1>4. now + RetentionMs \in Nat
  BY DEF TypeOK
<1>5. body \in Row /\ body.state = state
  BY <1>3, <1>4 DEF Row, States, Terminal
<1>6. Ended(row, state, uncertain) = Classified(body)
  BY DEF Ended
<1> QED
  BY <1>5, <1>6, ClassifiedRow

\* Interrupting keeps a table a table, and leaves no row running.
LEMMA InterruptRunningRows ==
    ASSUME TypeOK, NEW rows \in Seq(Row)
    PROVE  /\ InterruptRunning(rows) \in Seq(Row)
           /\ DOMAIN InterruptRunning(rows) = DOMAIN rows
           /\ \A i \in DOMAIN rows :
                 /\ InterruptRunning(rows)[i].state # "running"
                 /\ rows[i].state # "running" => InterruptRunning(rows)[i] = rows[i]
<1>1. \A i \in DOMAIN rows : rows[i] \in Row
  OBVIOUS
<1>2. ASSUME NEW i \in DOMAIN rows
      PROVE  /\ InterruptRunning(rows)[i] \in Row
             /\ InterruptRunning(rows)[i].state # "running"
             /\ rows[i].state # "running" => InterruptRunning(rows)[i] = rows[i]
  <2>1. CASE rows[i].state = "running"
    BY <1>1, <2>1, EndedRow DEF InterruptRunning
  <2>2. CASE rows[i].state # "running"
    BY <1>1, <2>2 DEF InterruptRunning
  <2> QED
    BY <2>1, <2>2
<1>3. DOMAIN InterruptRunning(rows) = 1..Len(rows)
  BY DEF InterruptRunning
<1>4. InterruptRunning(rows) \in [1..Len(rows) -> Row]
  BY <1>2, <1>3 DEF InterruptRunning
<1>5. InterruptRunning(rows) \in Seq(Row)
  <2>1. Len(rows) \in Nat
    OBVIOUS
  <2> QED
    BY ONLY <1>4, <2>1, TableIsSequence
<1>6. DOMAIN rows = 1..Len(rows)
  OBVIOUS
<1> QED
  BY ONLY <1>2, <1>3, <1>5, <1>6

\* Erasing payloads keeps a table a table, and moves no row to another state.
LEMMA EraseExpiredRows ==
    ASSUME NEW rows \in Seq(Row)
    PROVE  /\ EraseExpired(rows) \in Seq(Row)
           /\ DOMAIN EraseExpired(rows) = DOMAIN rows
           /\ \A i \in DOMAIN rows :
                 EraseExpired(rows)[i] \in {rows[i], [rows[i] EXCEPT !.erased = TRUE]}
           /\ \A i \in DOMAIN rows : EraseExpired(rows)[i].state = rows[i].state
<1>1. ASSUME NEW i \in DOMAIN rows
      PROVE  /\ EraseExpired(rows)[i] \in Row
             /\ EraseExpired(rows)[i] \in {rows[i], [rows[i] EXCEPT !.erased = TRUE]}
             /\ EraseExpired(rows)[i].state = rows[i].state
  <2>1. rows[i] \in Row
    OBVIOUS
  <2> QED
    BY <2>1 DEF EraseExpired, Row
<1>2. DOMAIN EraseExpired(rows) = 1..Len(rows)
  BY DEF EraseExpired
<1>3. EraseExpired(rows) \in [1..Len(rows) -> Row]
  BY <1>1, <1>2 DEF EraseExpired
<1>4. EraseExpired(rows) \in Seq(Row)
  <2>1. Len(rows) \in Nat
    OBVIOUS
  <2> QED
    BY ONLY <1>3, <2>1, TableIsSequence
<1>5. DOMAIN rows = 1..Len(rows)
  OBVIOUS
<1> QED
  BY ONLY <1>1, <1>2, <1>4, <1>5

\* maintain keeps a table a table, starts nothing, and leaves nothing running
\* when it deletes a lapsed lease.
LEMMA MaintainedRows ==
    ASSUME TypeOK
    PROVE  /\ Maintained \in Seq(Row)
           /\ DOMAIN Maintained = Ids
           /\ \A i \in Ids : Maintained[i].state = "running" => jobs[i].state = "running"
           /\ Lapsed => \A i \in Ids : Maintained[i].state # "running"
           /\ MaintainedLease \in [owner : Owners \cup {NoOwner}, expires : Nat]
<1> DEFINE rows == IF Lapsed THEN InterruptRunning(jobs) ELSE jobs
<1>1. jobs \in Seq(Row)
  BY DEF TypeOK
<1>2. /\ rows \in Seq(Row) /\ DOMAIN rows = Ids
      /\ \A i \in Ids : rows[i].state = "running" => jobs[i].state = "running"
      /\ Lapsed => \A i \in Ids : rows[i].state # "running"
  BY <1>1, InterruptRunningRows DEF Ids
<1>3. Maintained = EraseExpired(rows)
  BY DEF Maintained
<1>4. MaintainedLease \in [owner : Owners \cup {NoOwner}, expires : Nat]
  BY DEF MaintainedLease, NoLease, TypeOK
<1>5. /\ EraseExpired(rows) \in Seq(Row)
      /\ DOMAIN EraseExpired(rows) = DOMAIN rows
      /\ \A i \in DOMAIN rows : EraseExpired(rows)[i].state = rows[i].state
  BY <1>2, EraseExpiredRows
<1> HIDE DEF rows
<1> QED
  BY <1>2, <1>3, <1>4, <1>5

\* Writing a row at its position keeps a table a table.
LEMMA UpdatedTable ==
    ASSUME NEW rows \in Seq(Row), NEW i \in DOMAIN rows, NEW row \in Row
    PROVE  /\ [rows EXCEPT ![i] = row] \in Seq(Row)
           /\ DOMAIN [rows EXCEPT ![i] = row] = DOMAIN rows
           /\ [rows EXCEPT ![i] = row][i] = row
           /\ \A j \in DOMAIN rows : j # i => [rows EXCEPT ![i] = row][j] = rows[j]
OBVIOUS

-----------------------------------------------------------------------------
(* The type invariant *)

HandleType == [open : BOOLEAN, generation : Nat,
               owner : Owners \cup {NoOwner}, acquired : BOOLEAN]
LeaseType == [owner : Owners \cup {NoOwner}, expires : Nat]

\* A worker operation leaves the lease alone: it is live, so not lapsed.
LEMMA WorkerLease ==
    ASSUME NEW h, NEW owner, TypeOK, Worker(h, owner)
    PROVE  /\ lease # NoLease /\ ~Lapsed
           /\ MaintainedLease = lease
BY DEF Worker, Holds, Live, Lapsed, MaintainedLease, TypeOK

\* The rows the operations write.
LEMMA WrittenRows ==
    ASSUME TypeOK, NEW row \in Row
    PROVE  /\ Classified([row EXCEPT !.state = "running"]) \in Row
           /\ \A e \in DriverEvents :
                 Classified([row EXCEPT
                      !.log = Append(@, e),
                      !.state = ClosedState(e.type),
                      !.expires = IF e.type \in Closing THEN now + RetentionMs
                                                        ELSE @]) \in Row
           /\ [row EXCEPT !.cancelRequested = TRUE] \in Row
           /\ [row EXCEPT !.safe = TRUE] \in Row
<1>1. [row EXCEPT !.state = "running"] \in Row
  BY DEF Row, States
<1>2. ASSUME NEW e \in DriverEvents
      PROVE  [row EXCEPT !.log = Append(@, e),
                         !.state = ClosedState(e.type),
                         !.expires = IF e.type \in Closing THEN now + RetentionMs
                                                           ELSE @] \in Row
  <2>1. e \in Event
    BY DEF DriverEvents
  <2>2. row.log \in Seq(Event) /\ row.expires \in Nat
    BY DEF Row
  <2>3. Append(row.log, e) \in Seq(Event)
    BY <2>1, <2>2
  <2>4. ClosedState(e.type) \in States
    <3>1. ClosedState(e.type) \in {"completed", "cancelled", "failed", "running"}
      BY DEF ClosedState
    <3> QED
      BY <3>1 DEF States, Terminal
  <2>5. (IF e.type \in Closing THEN now + RetentionMs ELSE row.expires) \in Nat
    BY <2>2 DEF TypeOK
  <2> QED
    BY <2>3, <2>4, <2>5 DEF Row
<1>3. /\ [row EXCEPT !.cancelRequested = TRUE] \in Row
      /\ [row EXCEPT !.safe = TRUE] \in Row
  BY DEF Row
<1> QED
  BY <1>1, <1>2, <1>3, ClassifiedRow

\* Every step keeps the tables and the handles in their types.
LEMMA TypeStep == TypeOK /\ [Next]_vars => TypeOK'
<1> SUFFICES ASSUME TypeOK, [Next]_vars PROVE TypeOK'
  OBVIOUS
<1>t. /\ jobs \in Seq(Row) /\ lease \in LeaseType /\ generation \in Nat
      /\ handles \in [Handles -> HandleType] /\ now \in Nat
  BY DEF TypeOK, LeaseType, HandleType
<1>m. /\ Maintained \in Seq(Row) /\ DOMAIN Maintained = Ids
      /\ MaintainedLease \in LeaseType
      /\ \A i \in Ids : Maintained[i] \in Row
  BY MaintainedRows DEF LeaseType
<1>g. Advanced \in Nat
  BY <1>t DEF Advanced
<1>l. \A owner \in Owners : [owner |-> owner, expires |-> now + LeaseMs] \in LeaseType
  BY <1>t DEF LeaseType
<1>n. NoLease \in LeaseType
  BY DEF NoLease, LeaseType
<1>u. \A h \in Handles : \A r \in HandleType :
          [handles EXCEPT ![h] = r] \in [Handles -> HandleType]
  BY <1>t
<1> DEFINE Typed ==
        /\ jobs' \in Seq(Row) /\ lease' \in LeaseType /\ generation' \in Nat
        /\ handles' \in [Handles -> HandleType] /\ now' \in Nat
<1>q. Typed => TypeOK'
  BY DEF TypeOK, LeaseType, HandleType
<1>w. ASSUME NEW i \in Ids, NEW row \in Row
      PROVE  [Maintained EXCEPT ![i] = row] \in Seq(Row)
  BY <1>m, UpdatedTable
<1>1. ASSUME NEW h \in Handles, Open(h) PROVE Typed
  <2>1. [Closed EXCEPT !.open = TRUE, !.generation = generation] \in HandleType
    BY <1>t DEF Closed, HandleType
  <2> QED
    BY <1>t, <1>u, <1>1, <2>1 DEF Open, dbVars
<1>2. ASSUME NEW h \in Handles, Close(h) PROVE Typed
  <2>1. Closed \in HandleType
    BY DEF Closed, HandleType
  <2> QED
    BY <1>t, <1>u, <1>2, <2>1 DEF Close, dbVars
<1>3. ASSUME NEW h \in Handles, Access(h) PROVE Typed
  BY <1>t, <1>m, <1>3 DEF Access
<1>4. ASSUME NEW h \in Handles, NEW s \in Subjects, NEW k \in Keys, NEW p \in Prints,
             Submit(h, s, k, p)
      PROVE  Typed
  <2>1. NewRow(s, k, p) \in Row
    BY DEF NewRow, Row, States
  <2>2. Append(Maintained, NewRow(s, k, p)) \in Seq(Row)
    BY <1>m, <2>1
  <2> QED
    BY <1>t, <1>m, <1>4, <2>2 DEF Submit
<1>5. ASSUME NEW h \in Handles, NEW s \in Subjects, NEW i \in Ids, Cancel(h, s, i)
      PROVE  Typed
  <2> DEFINE asked == [Maintained[i] EXCEPT !.cancelRequested = TRUE]
  <2>1. asked \in Row
    BY <1>m, WrittenRows
  <2>2. (IF asked.state = "queued" THEN Ended(asked, "cancelled", FALSE)
                                   ELSE Classified(asked)) \in Row
    BY <2>1, ClassifiedRow, EndedRow
  <2>3. jobs' \in Seq(Row)
    BY <1>5, <1>w, <2>2 DEF Cancel
  <2> QED
    BY <1>t, <1>m, <1>5, <2>3 DEF Cancel
<1>6. ASSUME NEW h \in Handles, NEW owner \in Owners, Acquire(h, owner) PROVE Typed
  <2>1. [open |-> TRUE, generation |-> Advanced, owner |-> owner, acquired |-> TRUE]
           \in HandleType
    BY <1>g DEF HandleType
  <2> QED
    BY <1>t, <1>m, <1>g, <1>l, <1>u, <1>6, <2>1 DEF Acquire
<1>7. ASSUME NEW h \in Handles, NEW b \in Handles, NEW owner \in Owners,
             AcquireQuiet(h, b, owner)
      PROVE  Typed
  <2>1. [open |-> TRUE, generation |-> generation + 1, owner |-> owner,
         acquired |-> TRUE] \in HandleType
    BY <1>t DEF HandleType
  <2>2. [i \in Ids |-> [jobs[i] EXCEPT !.safe = TRUE]] \in [1..Len(jobs) -> Row]
    <3>1. Ids = 1..Len(jobs) /\ \A i \in Ids : jobs[i] \in Row
      BY <1>t DEF Ids
    <3> QED
      BY <3>1, WrittenRows
  <2>3. [i \in Ids |-> [jobs[i] EXCEPT !.safe = TRUE]] \in Seq(Row)
    <3>1. Len(jobs) \in Nat
      BY <1>t
    <3> QED
      BY ONLY <2>2, <3>1, TableIsSequence
  <2>4. generation + 1 \in Nat
    BY <1>t
  <2> QED
    BY <1>t, <1>l, <1>u, <1>7, <2>1, <2>3, <2>4 DEF AcquireQuiet
<1>8. ASSUME NEW h \in Handles, NEW owner \in Owners, Renew(h, owner) PROVE Typed
  <2>1. [lease EXCEPT !.expires = now + LeaseMs] \in LeaseType
    <3>1. now + LeaseMs \in Nat
      BY <1>t
    <3> QED
      BY <1>t, <3>1 DEF LeaseType
  <2> QED
    BY <1>t, <1>m, <1>8, <2>1 DEF Renew
<1>9. ASSUME NEW h \in Handles, NEW owner \in Owners, Release(h, owner) PROVE Typed
  <2>1. InterruptRunning(Maintained) \in Seq(Row)
    BY <1>m, InterruptRunningRows
  <2> QED
    BY <1>t, <1>g, <1>n, <1>9, <2>1 DEF Release
<1>10. ASSUME NEW h \in Handles, NEW owner \in Owners, NEW i \in Ids, Start(h, owner, i)
       PROVE  Typed
  <2>1. jobs' \in Seq(Row)
    BY <1>m, <1>10, <1>w, WrittenRows DEF Start
  <2> QED
    BY <1>t, <1>10, <2>1 DEF Start
<1>11. ASSUME NEW h \in Handles, NEW owner \in Owners, NEW i \in Ids,
              NEW e \in DriverEvents, NEW n \in 1..(Len(jobs[i].log) + 1),
              AppendEvent(h, owner, i, n, e)
       PROVE  Typed
  <2>1. jobs' \in Seq(Row)
    BY <1>m, <1>11, <1>w, WrittenRows DEF AppendEvent, Appended
  <2> QED
    BY <1>t, <1>11, <2>1 DEF AppendEvent, Appended
<1>12. ASSUME NEW h \in Handles, NEW owner \in Owners, NEW i \in Ids, Fail(h, owner, i)
       PROVE  Typed
  <2>1. Ended(Maintained[i], "interrupted", TRUE) \in Row
    BY <1>m, EndedRow
  <2>2. Ended(Maintained[i], "failed", FALSE) \in Row
    BY <1>m, EndedRow
  <2>3. jobs' \in Seq(Row)
    BY <1>12, <1>w, <2>1, <2>2 DEF Fail
  <2> QED
    BY <1>t, <1>12, <2>3 DEF Fail
<1>13. ASSUME Tick PROVE Typed
  BY <1>t, <1>13 DEF Tick, dbVars
<1>14. ASSUME UNCHANGED vars PROVE Typed
  BY <1>t, <1>14 DEF vars
<1> QED
  <2> HIDE DEF Typed
  <2> QED
    BY <1>q, <1>1, <1>2, <1>3, <1>4, <1>5, <1>6, <1>7, <1>8, <1>9, <1>10, <1>11,
       <1>12, <1>13, <1>14
       DEF Next, ClientStep, WorkerStep

\* The tables and the handles always have their types.
THEOREM TypeCorrect == Spec => []TypeOK
<1>1. Init => TypeOK
  BY DEF Init, TypeOK, Closed, NoLease
<1> QED
  BY <1>1, TypeStep, PTL DEF Spec

-----------------------------------------------------------------------------
(* Ownership of running work *)

\* The lease is absent after a step only if no job runs after it.
LEMMA OwnershipStep == TypeOK /\ RunningIsOwned /\ [Next]_vars => RunningIsOwned'
<1> SUFFICES ASSUME TypeOK, RunningIsOwned, [Next]_vars,
                    NEW r \in Ids', jobs'[r].state = "running"
             PROVE  lease' # NoLease
  BY DEF RunningIsOwned
<1>m. /\ Maintained \in Seq(Row) /\ DOMAIN Maintained = Ids
      /\ \A i \in Ids : Maintained[i].state = "running" => jobs[i].state = "running"
      /\ Lapsed => \A i \in Ids : Maintained[i].state # "running"
      /\ \A i \in Ids : Maintained[i] \in Row
  BY MaintainedRows
\* A job that maintenance leaves running had an unlapsed lease, which it keeps.
<1>k. ASSUME NEW i \in Ids, Maintained[i].state = "running"
      PROVE  lease # NoLease /\ MaintainedLease = lease
  BY <1>m, <1>k DEF RunningIsOwned, MaintainedLease
<1>o. \A owner \in Owners : [owner |-> owner, expires |-> now + LeaseMs] # NoLease
  BY DEF NoLease
<1>1. ASSUME NEW h \in Handles, Open(h) \/ Close(h) PROVE lease' # NoLease
  BY <1>1 DEF Open, Close, dbVars, RunningIsOwned, Ids
<1>2. ASSUME NEW h \in Handles, Access(h) PROVE lease' # NoLease
  <2>1. jobs' = Maintained /\ lease' = MaintainedLease /\ r \in Ids
    BY <1>2, <1>m DEF Access, Ids
  <2> QED
    BY <1>k, <2>1
<1>3. ASSUME NEW h \in Handles, NEW s \in Subjects, NEW k \in Keys, NEW p \in Prints,
             Submit(h, s, k, p)
      PROVE  lease' # NoLease
  <2>1. NewRow(s, k, p) \in Row
    BY DEF NewRow, Row, States
  <2>2. jobs' = Append(Maintained, NewRow(s, k, p))
    BY <1>3 DEF Submit
  <2>3. r \in Ids /\ jobs'[r] = Maintained[r]
    <3>1. NewRow(s, k, p).state # "running"
      BY DEF NewRow
    <3>2. r \in DOMAIN Append(Maintained, NewRow(s, k, p))
      BY <2>2 DEF Ids
    <3> QED
      BY <1>m, <2>1, <2>2, <3>1, <3>2
  <2> QED
    BY <1>k, <1>3, <2>3 DEF Submit
<1>4. ASSUME NEW h \in Handles, NEW s \in Subjects, NEW i \in Ids, Cancel(h, s, i)
      PROVE  lease' # NoLease
  <2> DEFINE asked == [Maintained[i] EXCEPT !.cancelRequested = TRUE]
             row == IF asked.state = "queued" THEN Ended(asked, "cancelled", FALSE)
                                              ELSE Classified(asked)
  <2>1. asked \in Row /\ asked.state = Maintained[i].state
    BY ZenonT(30), <1>m, WrittenRows DEF Row
  <2>2. row \in Row /\ (row.state = "running" => Maintained[i].state = "running")
    <3>1. CASE asked.state = "queued"
      BY <2>1, <3>1, EndedRow
    <3>2. CASE asked.state # "queued"
      BY <2>1, <3>2, ClassifiedRow
    <3> QED
      BY <3>1, <3>2
  <2>3. jobs' = [Maintained EXCEPT ![i] = row]
    BY <1>4 DEF Cancel
  <2> HIDE DEF row
  <2>4. r \in Ids /\ Maintained[r].state = "running"
    BY <1>m, <2>2, <2>3, UpdatedTable DEF Ids
  <2> QED
    BY <1>k, <1>4, <2>4 DEF Cancel
<1>5. ASSUME NEW h \in Handles, NEW owner \in Owners,
             Acquire(h, owner) \/ \E b \in Handles : AcquireQuiet(h, b, owner)
      PROVE  lease' # NoLease
  BY <1>5, <1>o DEF Acquire, AcquireQuiet
<1>6. ASSUME NEW h \in Handles, NEW owner \in Owners, Renew(h, owner)
      PROVE  lease' # NoLease
  <2>1. lease.owner # NoOwner
    BY <1>6 DEF Renew, Worker, Holds
  <2>2. lease'.owner = lease.owner
    BY <1>6 DEF Renew, TypeOK
  <2> QED
    BY <2>1, <2>2 DEF NoLease
<1>7. ASSUME NEW h \in Handles, NEW owner \in Owners, Release(h, owner) PROVE FALSE
  <2>1. jobs' = InterruptRunning(Maintained)
    BY <1>7 DEF Release
  <2>2. r \in DOMAIN InterruptRunning(Maintained)
    BY <2>1 DEF Ids
  <2> QED
    BY <1>m, <2>1, <2>2, InterruptRunningRows
<1>8. ASSUME NEW h \in Handles, NEW owner \in Owners, NEW i \in Ids,
             \/ Start(h, owner, i)
             \/ Fail(h, owner, i)
             \/ \E n \in Nat, e \in DriverEvents : AppendEvent(h, owner, i, n, e)
      PROVE  lease' # NoLease
  <2>1. Worker(h, owner) /\ lease' = lease
    BY <1>8 DEF Start, Fail, AppendEvent, Appended
  <2> QED
    BY <2>1, WorkerLease
<1>9. ASSUME Tick \/ UNCHANGED vars PROVE lease' # NoLease
  BY <1>9 DEF Tick, dbVars, vars, RunningIsOwned, Ids
<1> QED
  <2>1. \A i \in Ids : 1..(Len(jobs[i].log) + 1) \subseteq Nat
    OBVIOUS
  <2> QED
    BY <1>1, <1>2, <1>3, <1>4, <1>5, <1>6, <1>7, <1>8, <1>9, <2>1
       DEF Next, ClientStep, WorkerStep

\* A running job always has a lease row, so whoever deletes or takes that row
\* interrupts it: no job is left running for ever by a crash.
THEOREM RunningAlwaysOwned == Spec => []RunningIsOwned
<1>1. Init => RunningIsOwned
  BY DEF Init, RunningIsOwned, Ids
<1>2. TypeOK /\ RunningIsOwned /\ [Next]_vars => RunningIsOwned'
  BY OwnershipStep
<1> QED
  BY <1>1, <1>2, TypeCorrect, PTL DEF Spec

-----------------------------------------------------------------------------
(* What a step does under whose lease *)

\* Work passes between workers only through an interruption: a step after which
\* the lease has another owner, or none, leaves no job running (maintain,
\* acquire, acquireQuiet and release).
THEOREM TakeoverAlwaysInterrupts == Spec => TakeoverInterrupts
<1> DEFINE Handover == lease'.owner # lease.owner =>
                          \A i \in DOMAIN jobs' : jobs'[i].state # "running"
<1>1. TypeOK /\ RunningIsOwned /\ [Next]_vars => Handover
  <2> SUFFICES ASSUME TypeOK, RunningIsOwned, [Next]_vars, lease'.owner # lease.owner
               PROVE  \A i \in DOMAIN jobs' : jobs'[i].state # "running"
    OBVIOUS
  \* A step that leaves no lease leaves nothing running, as RunningIsOwned holds
  \* after it; so a new owner is the only interesting case.
  <2>1. CASE lease' = NoLease
    BY <2>1, OwnershipStep DEF RunningIsOwned, Ids
  <2>2. ASSUME lease' # NoLease
        PROVE  \E h \in Handles, owner \in Owners :
                  \/ Acquire(h, owner)
                  \/ \E b \in Handles : AcquireQuiet(h, b, owner)
    <3>1. ASSUME NEW h \in Handles, ClientStep(h) PROVE FALSE
      <4>1. lease' \in {lease, MaintainedLease}
        BY <3>1 DEF ClientStep, Open, Close, Access, Submit, Cancel, dbVars
      <4> QED
        BY <2>2, <4>1 DEF MaintainedLease
    <3>2. ASSUME NEW h \in Handles, NEW owner \in Owners, Renew(h, owner) PROVE FALSE
      <4>1. lease'.owner = lease.owner
        BY <3>2 DEF Renew, TypeOK
      <4> QED
        BY <4>1
    <3>3. ASSUME NEW h \in Handles, NEW owner \in Owners, NEW i \in Ids,
                 \/ Start(h, owner, i)
                 \/ Fail(h, owner, i)
                 \/ \E e \in DriverEvents : \E n \in 1..(Len(jobs[i].log) + 1) :
                       AppendEvent(h, owner, i, n, e)
          PROVE  FALSE
      BY <3>3 DEF Start, Fail, AppendEvent
    <3>4. ASSUME NEW h \in Handles, NEW owner \in Owners, Release(h, owner) PROVE FALSE
      BY <2>2, <3>4 DEF Release
    <3>5. ASSUME Tick \/ UNCHANGED vars PROVE FALSE
      BY <3>5 DEF Tick, vars, dbVars
    <3> QED
      BY <3>1, <3>2, <3>3, <3>4, <3>5 DEF Next, WorkerStep
  <2>3. ASSUME NEW h \in Handles, NEW owner \in Owners, Acquire(h, owner)
        PROVE  \A i \in DOMAIN jobs' : jobs'[i].state # "running"
    <3>1. jobs' = Maintained /\ MaintainedLease = NoLease
      BY <2>3 DEF Acquire
    <3>2. CASE Lapsed
      BY <3>1, <3>2, MaintainedRows
    <3>3. CASE ~Lapsed
      <4>1. lease = NoLease
        BY <3>1, <3>3 DEF MaintainedLease
      <4> QED
        BY <3>1, <4>1, MaintainedRows DEF RunningIsOwned
    <3> QED
      BY <3>2, <3>3
  <2>4. ASSUME NEW h \in Handles, NEW b \in Handles, NEW owner \in Owners,
               AcquireQuiet(h, b, owner)
        PROVE  \A i \in DOMAIN jobs' : jobs'[i].state # "running"
    <3>1. \A i \in Ids : jobs[i] \in Row /\ jobs[i].state # "running"
      <4>1. \A i \in Ids : jobs[i].state \in {"completed", "cancelled"}
        BY <2>4 DEF AcquireQuiet, Quiet
      <4>2. \A i \in Ids : jobs[i] \in Row
        BY DEF TypeOK, Ids
      <4> QED
        BY ONLY <4>1, <4>2
    <3>2. CASE generation = 0
      <4>1. jobs' = [i \in Ids |-> [jobs[i] EXCEPT !.safe = TRUE]]
        BY <2>4, <3>2 DEF AcquireQuiet
      <4> QED
        BY <3>1, <4>1 DEF Row
    <3>3. CASE generation # 0
      BY <2>4, <3>1, <3>3 DEF AcquireQuiet, Ids
    <3> QED
      BY <3>2, <3>3
  <2> QED
    BY <2>1, <2>2, <2>3, <2>4
<1>2. TypeOK /\ RunningIsOwned /\ [Next]_vars => [Handover]_vars
  BY <1>1
<1> QED
  BY <1>2, TypeCorrect, RunningAlwaysOwned, PTL DEF Spec, TakeoverInterrupts

\* In an adopted store only the live owner changes a row or the lease, and the
\* one other step that may is the takeover that begins the next generation
\* (fence, and advanceGeneration in acquire and acquireQuiet).
THEOREM AdoptedStoreStaysFenced == Spec => AdoptedStoreIsFenced
<1> DEFINE FencedStep == generation > 0 /\ (jobs' # jobs \/ lease' # lease) =>
                            Live \/ generation' = generation + 1
<1>1. [Next]_vars => FencedStep
  <2> SUFFICES ASSUME [Next]_vars, generation > 0, jobs' # jobs \/ lease' # lease
               PROVE  Live \/ generation' = generation + 1
    OBVIOUS
  <2>1. ASSUME NEW h \in Handles, Fenced(h, "ordinary") PROVE Live
    BY <2>1 DEF Fenced, Holds
  <2>2. ASSUME NEW h \in Handles, ClientStep(h) PROVE Live
    <3>1. Fenced(h, "ordinary")
      BY <2>2 DEF ClientStep, Open, Close, Access, Submit, Cancel, dbVars
    <3> QED
      BY <2>1, <3>1
  <2>3. ASSUME NEW h \in Handles, NEW owner \in Owners, WorkerStep(h, owner)
        PROVE  Live \/ generation' = generation + 1
    <3>1. CASE Worker(h, owner)
      BY <2>1, <3>1 DEF Worker
    <3>2. CASE Acquire(h, owner) \/ \E b \in Handles : AcquireQuiet(h, b, owner)
      BY <3>2 DEF Acquire, AcquireQuiet, Advanced
    <3> QED
      BY <2>3, <3>1, <3>2 DEF WorkerStep, Renew, Release, Start, AppendEvent, Fail
  <2>4. ~(Tick \/ UNCHANGED vars)
    BY DEF Tick, dbVars, vars
  <2> QED
    BY <2>2, <2>3, <2>4 DEF Next
<1>2. [Next]_vars => [FencedStep]_vars
  BY <1>1
<1> QED
  BY <1>2, PTL DEF Spec, AdoptedStoreIsFenced

\* Maintenance changes no log and no state but by the interruption barrier.
LEMMA MaintainedStories ==
    ASSUME TypeOK, NEW i \in Ids
    PROVE  \/ /\ Maintained[i].log = jobs[i].log
              /\ Maintained[i].state = jobs[i].state
           \/ Maintained[i].state = "interrupted"
<1> DEFINE rows == IF Lapsed THEN InterruptRunning(jobs) ELSE jobs
<1>1. jobs \in Seq(Row) /\ jobs[i] \in Row
  BY DEF TypeOK, Ids
<1>2. rows \in Seq(Row) /\ DOMAIN rows = Ids /\ rows[i] \in Row
  BY <1>1, InterruptRunningRows DEF Ids
<1>3. rows[i] = jobs[i] \/ rows[i].state = "interrupted"
  BY <1>1, EndedRow DEF InterruptRunning, Ids
<1>4. Maintained = EraseExpired(rows)
  BY DEF Maintained
<1> HIDE DEF rows
<1>5. Maintained[i] \in {rows[i], [rows[i] EXCEPT !.erased = TRUE]}
  BY <1>2, <1>4, EraseExpiredRows
<1>6. Maintained[i].log = rows[i].log /\ Maintained[i].state = rows[i].state
  BY <1>2, <1>5 DEF Row
<1> QED
  BY <1>3, <1>6

\* "The old owner cannot renew or append results once fenced": a job starts, and
\* its log grows other than by the interruption barrier or the cancellation of
\* a queued job, only in a step of the owner of a live lease, which it keeps.
THEOREM OwnerAloneWrites == Spec => OnlyTheOwnerWrites
<1> DEFINE Written(i) ==
              \/ jobs'[i].log = jobs[i].log /\ jobs'[i].state = jobs[i].state
              \/ jobs'[i].state = "interrupted"
              \/ jobs[i].state = "queued" /\ jobs'[i].state = "cancelled"
              \/ Live /\ lease' = lease
<1>1. ASSUME TypeOK, [Next]_vars, NEW i \in Ids PROVE Written(i)
  <2>m. /\ Maintained \in Seq(Row) /\ DOMAIN Maintained = Ids
        /\ Maintained[i] \in Row
    BY <1>1, MaintainedRows
  <2>s. \/ Maintained[i].log = jobs[i].log /\ Maintained[i].state = jobs[i].state
        \/ Maintained[i].state = "interrupted"
    BY <1>1, MaintainedStories
  <2>1. CASE jobs'[i] = Maintained[i]
    BY <2>s, <2>1
  <2>2. CASE UNCHANGED jobs
    BY <2>2
  <2>3. ASSUME NEW h \in Handles, NEW s \in Subjects, NEW k \in Keys, NEW p \in Prints,
               Submit(h, s, k, p)
        PROVE  jobs'[i] = Maintained[i]
    <3>1. NewRow(s, k, p) \in Row
      BY DEF NewRow, Row, States
    <3>2. jobs' = Append(Maintained, NewRow(s, k, p))
      BY <2>3 DEF Submit
    <3> QED
      BY <2>m, <3>1, <3>2
  <2>4. ASSUME NEW h \in Handles, NEW s \in Subjects, NEW j \in Ids, Cancel(h, s, j)
        PROVE  Written(i)
    <3> DEFINE asked == [Maintained[j] EXCEPT !.cancelRequested = TRUE]
               row == IF asked.state = "queued" THEN Ended(asked, "cancelled", FALSE)
                                                ELSE Classified(asked)
    <3>1. jobs' = [Maintained EXCEPT ![j] = row]
      BY <2>4 DEF Cancel
    <3>2. CASE i # j
      BY <2>m, <3>1, <3>2, <2>1
    <3>3. CASE i = j
      <4>1. asked \in Row /\ asked.state = Maintained[i].state
            /\ asked.log = Maintained[i].log
        BY <2>m, <3>3, <1>1, WrittenRows DEF Row
      <4>2. jobs'[i] = row
        BY <2>m, <3>1, <3>3
      <4>3. CASE asked.state = "queued"
        <5>1. jobs'[i].state = "cancelled"
          <6>1. jobs'[i] = Ended(asked, "cancelled", FALSE)
            BY <4>2, <4>3
          <6>2. Ended(asked, "cancelled", FALSE).state = "cancelled"
            <7> HIDE DEF asked
            <7> QED
              BY <1>1, <4>1, EndedRow
          <6> QED
            BY <6>1, <6>2
        <5>2. jobs[i].state = "queued"
          BY <2>s, <4>1, <4>3
        <5> QED
          BY <5>1, <5>2
      <4>4. CASE asked.state # "queued"
        <5>1. jobs'[i].state = Maintained[i].state /\ jobs'[i].log = Maintained[i].log
          <6>1. jobs'[i] = Classified(asked)
            BY <4>2, <4>4
          <6>2. Classified(asked).log = asked.log /\ Classified(asked).state = asked.state
            BY <4>1 DEF Classified, Row
          <6> QED
            BY <4>1, <6>1, <6>2
        <5> QED
          BY <2>s, <5>1
      <4> QED
        BY <4>3, <4>4
    <3> QED
      BY <3>2, <3>3
  <2>5. ASSUME NEW h \in Handles, ClientStep(h) PROVE Written(i)
    <3>1. CASE Open(h) \/ Close(h)
      BY <2>2, <3>1 DEF Open, Close, dbVars
    <3>2. CASE Access(h)
      BY <2>1, <3>2 DEF Access
    <3> HIDE DEF Written
    <3> QED
      BY <2>1, <2>3, <2>4, <2>5, <3>1, <3>2 DEF ClientStep
  <2>6. ASSUME NEW h \in Handles, NEW owner \in Owners, NEW b \in Handles,
               AcquireQuiet(h, b, owner)
        PROVE  Written(i)
    <3>1. jobs[i] \in Row
      BY <1>1 DEF TypeOK, Ids
    <3>2. jobs'[i] \in {jobs[i], [jobs[i] EXCEPT !.safe = TRUE]}
      BY <2>6 DEF AcquireQuiet
    <3> QED
      BY <3>1, <3>2 DEF Row
  <2>7. ASSUME NEW h \in Handles, NEW owner \in Owners, Release(h, owner)
        PROVE  Written(i)
    <3>1. jobs' = InterruptRunning(Maintained)
      BY <2>7 DEF Release
    <3>2. jobs'[i] = Maintained[i] \/ jobs'[i].state = "interrupted"
      BY <1>1, <2>m, <3>1, EndedRow DEF InterruptRunning
    <3> QED
      BY <2>1, <3>2
  <2>8. ASSUME NEW h \in Handles, NEW owner \in Owners, NEW j \in Ids,
               \/ Start(h, owner, j)
               \/ Fail(h, owner, j)
               \/ \E e \in DriverEvents : \E n \in 1..(Len(jobs[j].log) + 1) :
                     AppendEvent(h, owner, j, n, e)
        PROVE  Live /\ lease' = lease
    BY <2>8 DEF Start, Fail, AppendEvent, Worker, Holds
  <2>9. ASSUME NEW h \in Handles, NEW owner \in Owners, WorkerStep(h, owner)
        PROVE  Written(i)
    <3>1. CASE Acquire(h, owner) \/ Renew(h, owner)
      BY <2>1, <3>1 DEF Acquire, Renew
    <3>2. Live /\ lease' = lease => Written(i)
      OBVIOUS
    <3> HIDE DEF Written
    <3> QED
      BY <2>6, <2>7, <2>8, <2>9, <3>1, <3>2 DEF WorkerStep
  <2>10. CASE Tick \/ UNCHANGED vars
    BY <2>2, <2>10 DEF Tick, vars, dbVars
  <2> HIDE DEF Written
  <2> QED
    BY <1>1, <2>5, <2>9, <2>10 DEF Next
<1>2. TypeOK /\ [Next]_vars => [\A i \in Ids : Written(i)]_vars
  BY <1>1
<1> QED
  BY <1>2, TypeCorrect, PTL DEF Spec, OnlyTheOwnerWrites

-----------------------------------------------------------------------------
(* The bytes of a table *)

\* The bytes of a table are the sum of what its rows cost.
Costs(rows) == [i \in DOMAIN rows |-> Cost(rows[i])]

LEMMA TotalIsSum ==
    ASSUME NEW rows, IsFiniteSet(DOMAIN rows), \A i \in DOMAIN rows : Cost(rows[i]) \in Nat
    PROVE  /\ Costs(rows) \in [DOMAIN rows -> Nat]
           /\ SumOver(Costs(rows)) \in [SUBSET DOMAIN rows -> Nat]
           /\ \A s \in SUBSET DOMAIN rows : Adds(SumOver(Costs(rows)), Costs(rows), s)
           /\ Total(rows) = SumOver(Costs(rows))[DOMAIN rows]
<1> DEFINE D == DOMAIN rows
           F == Costs(rows)
           Step(h) == [s \in SUBSET D |->
                         IF s = {} THEN 0
                         ELSE Cost(rows[CHOOSE x \in s : TRUE])
                                + h[s \ {CHOOSE x \in s : TRUE}]]
<1>1. F \in [D -> Nat]
  BY DEF Costs
<1>2. SumOver(F) \in [SUBSET D -> Nat] /\ \A s \in SUBSET D : Adds(SumOver(F), F, s)
  <2> HIDE DEF D, F
  <2> QED
    BY <1>1, SumType DEF D
<1>3. \A s \in SUBSET D : s # {} => F[Pick(s)] = Cost(rows[Pick(s)])
  BY PickIn DEF Costs
<1>4. SumOver(F) = Step(SumOver(F))
  <2> HIDE DEF F
  <2> QED
    BY <1>2, <1>3 DEF Adds, Pick
<1>5. \E g : g = Step(g) /\ Total(rows) = g[D]
  BY <1>4, Zenon DEF Total, MapThenSumSet, MapThenFoldSet
<1>6. PICK g : g = Step(g) /\ Total(rows) = g[D]
  BY <1>5
<1>7. \A s \in SUBSET D : Adds(g, F, s)
  <2> HIDE DEF F
  <2> QED
    BY <1>3, <1>6 DEF Adds, Pick
<1>8. g[D] = SumOver(F)[D]
  <2>1. IsFiniteSet(D) /\ D \in SUBSET D
    OBVIOUS
  <2> HIDE DEF D, F
  <2> QED
    BY <1>1, <1>7, <2>1, SumUnique
<1> QED
  BY <1>1, <1>2, <1>6, <1>8

\* Rows that cost no more, one by one, cost no more together.
LEMMA CheaperRows ==
    ASSUME NEW old, NEW new, IsFiniteSet(DOMAIN old), DOMAIN new = DOMAIN old,
           \A i \in DOMAIN old :
              Cost(old[i]) \in Nat /\ Cost(new[i]) \in Nat /\ Cost(new[i]) <= Cost(old[i])
    PROVE  Total(new) \in Nat /\ Total(old) \in Nat /\ Total(new) <= Total(old)
<1> DEFINE D == DOMAIN old
<1>1. /\ Costs(old) \in [D -> Nat] /\ Costs(new) \in [D -> Nat]
      /\ SumOver(Costs(old))[D] \in Nat /\ SumOver(Costs(new))[D] \in Nat
      /\ Total(old) = SumOver(Costs(old))[D] /\ Total(new) = SumOver(Costs(new))[D]
  BY TotalIsSum
<1>2. \A i \in D : Costs(new)[i] <= Costs(old)[i]
  BY DEF Costs
<1>3. SumOver(Costs(new))[D] <= SumOver(Costs(old))[D]
  <2>1. IsFiniteSet(D) /\ D \in SUBSET D
    OBVIOUS
  <2> HIDE DEF D
  <2> QED
    BY <1>1, <1>2, <2>1, SumMonotone
<1> QED
  BY <1>1, <1>3

-----------------------------------------------------------------------------
(* The story of a row *)

\* LogAgreesWithState, of one row.
Told(row) ==
    /\ row.state = "queued" => row.log = <<>>
    /\ \A n \in DOMAIN row.log :
          row.log[n].type \in Closing <=> (n = Len(row.log) /\ row.state \in Terminal)
    /\ row.log # <<>> => row.log[1].type = "run.started"
    /\ row.state \in Terminal =>
          /\ row.log # <<>>
          /\ LET last == row.log[Len(row.log)] IN
             /\ last.type = CASE row.state = "completed" -> "run.completed"
                              [] row.state = "cancelled" -> "run.cancelled"
                              [] OTHER                   -> "run.failed"
             /\ row.state = "interrupted" => last.uncertain

\* The handoff_safe column is true of what it says, also once the log is erased.
Kept(row) ==
    row.safe => row.state \in {"completed", "cancelled"} /\ ~IsUncertain(row)

Sound(rows) == \A i \in DOMAIN rows : Told(rows[i]) /\ Kept(rows[i])

\* Lifecycle, of one row; the log only grows.
Follows(old, new) ==
    /\ new.subject = old.subject /\ new.key = old.key /\ new.print = old.print
    /\ old.state # "queued" => new.state # "queued"
    /\ old.erased => new.erased
    /\ Len(old.log) <= Len(new.log)
    /\ \A n \in 1..Len(old.log) : new.log[n] = old.log[n]
    /\ old.state \in Terminal => new.state = old.state /\ new.log = old.log

\* A row is rewritten without breaking its story, and takes no more room.
Rewritten(old, new) ==
    /\ new \in Row /\ Told(new) /\ Kept(new)
    /\ Follows(old, new)
    /\ Cost(new) <= Cost(old)

\* So is each row of a table.
Evolves(rows, next) ==
    /\ next \in Seq(Row) /\ DOMAIN next = DOMAIN rows
    /\ \A i \in DOMAIN rows : Rewritten(rows[i], next[i])

LEMMA AppendedLog ==
    ASSUME NEW s \in Seq(Event), NEW e \in Event
    PROVE  LET log == Append(s, e) IN
           /\ Len(s) \in Nat /\ log \in Seq(Event) /\ Len(log) = Len(s) + 1 /\ log # <<>>
           /\ log[Len(log)] = e /\ DOMAIN log = 1..Len(log)
           /\ \A n \in 1..Len(s) : log[n] = s[n]
OBVIOUS

\* A log that repeats another from its first event on begins with it.
LEMMA PrefixIsSubSeq ==
    ASSUME NEW s \in Seq(Event), NEW t \in Seq(Event), Len(s) <= Len(t),
           \A n \in 1..Len(s) : t[n] = s[n]
    PROVE  s = SubSeq(t, 1, Len(s))
OBVIOUS

LEMMA CostType == ASSUME NEW row \in Row PROVE Cost(row) \in Nat
<1>1. row.log \in Seq(Event) /\ BaseSize \in Nat /\ ReserveSize \in Nat
  BY DEF Row
<1>2. Len(row.log) \in Nat /\ row.erased \in BOOLEAN
  BY <1>1 DEF Row
<1>3. BaseSize + Len(row.log) \in Nat /\ BaseSize + Len(row.log) + ReserveSize \in Nat
  BY <1>1, <1>2
<1>4. (IF row.state \in Terminal THEN 0 ELSE ReserveSize) \in {0, ReserveSize}
  OBVIOUS
<1>5. /\ Cost(row) \in {0, BaseSize + Len(row.log) + 0,
                        BaseSize + Len(row.log) + ReserveSize}
  BY <1>2, <1>4 DEF Cost
<1> QED
  BY <1>1, <1>2, <1>3, <1>5

LEMMA RewrittenItself ==
    ASSUME NEW row \in Row, Told(row), Kept(row) PROVE Rewritten(row, row)
<1>1. row.log \in Seq(Event) /\ Len(row.log) \in Nat /\ Cost(row) \in Nat
  BY CostType DEF Row
<1> QED
  BY <1>1 DEF Rewritten, Follows

LEMMA FollowsTwice ==
    ASSUME NEW a \in Row, NEW b \in Row, NEW c \in Row, Follows(a, b), Follows(b, c)
    PROVE  Follows(a, c)
<1> DEFINE x == Len(a.log)
           y == Len(b.log)
           z == Len(c.log)
<1>1. x \in Nat /\ y \in Nat /\ z \in Nat
  BY DEF Row
<1>2. x <= y /\ y <= z
  BY DEF Follows
<1>3. \A n \in 1..x : c.log[n] = a.log[n]
  <2>1. \A n \in 1..x : n \in 1..y /\ b.log[n] = a.log[n]
    BY <1>1, <1>2 DEF Follows
  <2> QED
    BY <2>1 DEF Follows
<1> HIDE DEF x, y, z
<1>4. x <= z
  BY <1>1, <1>2
<1> QED
  BY <1>3, <1>4 DEF Follows, x, z

LEMMA RewrittenTwice ==
    ASSUME NEW a \in Row, NEW b \in Row, NEW c \in Row, Rewritten(a, b), Rewritten(b, c)
    PROVE  Rewritten(a, c)
<1> DEFINE x == Cost(a)
           y == Cost(b)
           z == Cost(c)
<1>1. x \in Nat /\ y \in Nat /\ z \in Nat /\ y <= x /\ z <= y
  BY CostType DEF Rewritten
<1> HIDE DEF x, y, z
<1>2. z <= x
  BY <1>1
<1>3. Follows(a, c)
  BY FollowsTwice DEF Rewritten
<1> QED
  BY <1>2, <1>3 DEF Rewritten, x, z

LEMMA EvolvesTwice ==
    ASSUME NEW a \in Seq(Row), NEW b, NEW c, Evolves(a, b), Evolves(b, c)
    PROVE  Evolves(a, c)
<1>1. /\ b \in Seq(Row) /\ c \in Seq(Row) /\ DOMAIN b = DOMAIN a /\ DOMAIN c = DOMAIN a
      /\ \A i \in DOMAIN a : a[i] \in Row /\ b[i] \in Row /\ c[i] \in Row
  BY DEF Evolves
<1>2. \A i \in DOMAIN a : Rewritten(a[i], c[i])
  BY <1>1, RewrittenTwice DEF Evolves
<1> QED
  BY <1>1, <1>2 DEF Evolves

\* One row is rewritten.
LEMMA OneRowEvolves ==
    ASSUME NEW rows \in Seq(Row), Sound(rows), NEW i \in DOMAIN rows, NEW row \in Row,
           Rewritten(rows[i], row)
    PROVE  Evolves(rows, [rows EXCEPT ![i] = row])
<1>1. \A j \in DOMAIN rows : rows[j] \in Row
  OBVIOUS
<1>2. \A j \in DOMAIN rows : Rewritten(rows[j], rows[j])
  BY <1>1, RewrittenItself DEF Sound
<1> QED
  BY <1>2, UpdatedTable DEF Evolves

-----------------------------------------------------------------------------
(* The operators that write a row *)

LEMMA ClassifiedFields ==
    ASSUME NEW row \in Row
    PROVE  LET new == Classified(row) IN
           /\ new \in Row /\ Kept(new)
           /\ new.subject = row.subject /\ new.key = row.key /\ new.print = row.print
           /\ new.state = row.state /\ new.log = row.log /\ new.erased = row.erased
<1> DEFINE new == Classified(row)
           safe == /\ generation > 0
                   /\ row.state \in {"completed", "cancelled"}
                   /\ ~IsUncertain(row)
<1>1. new = [row EXCEPT !.safe = safe]
  BY DEF Classified
<1>2. safe \in BOOLEAN
  OBVIOUS
<1>3. safe => row.state \in {"completed", "cancelled"} /\ ~IsUncertain(row)
  OBVIOUS
<1> HIDE DEF safe
<1>4. /\ new \in Row /\ new.safe = safe
      /\ new.subject = row.subject /\ new.key = row.key /\ new.print = row.print
      /\ new.state = row.state /\ new.log = row.log /\ new.erased = row.erased
  BY <1>1, <1>2 DEF Row
<1> HIDE DEF new
<1>5. Kept(new)
  BY <1>3, <1>4 DEF Kept, IsUncertain
<1> QED
  BY <1>4, <1>5 DEF new

\* save keeps a row's story.
LEMMA ClassifiedStory ==
    ASSUME NEW old \in Row, NEW row \in Row, Told(row), Follows(old, row),
           Cost(row) <= Cost(old)
    PROVE  Rewritten(old, Classified(row))
<1> DEFINE new == Classified(row)
<1>1. /\ new \in Row /\ Kept(new)
      /\ new.subject = row.subject /\ new.key = row.key /\ new.print = row.print
      /\ new.state = row.state /\ new.log = row.log /\ new.erased = row.erased
  BY ClassifiedFields
<1> HIDE DEF new
<1>2. Told(new) /\ Follows(old, new) /\ Cost(new) = Cost(row)
  BY <1>1 DEF Told, Follows, Cost
<1> QED
  BY <1>1, <1>2 DEF Rewritten, new

\* end closes a live row's story.
LEMMA EndedStory ==
    ASSUME TypeOK, NEW row \in Row, Told(row), row.state \notin Terminal,
           NEW state \in {"failed", "cancelled", "interrupted"},
           NEW uncertain \in BOOLEAN, state = "interrupted" => uncertain
    PROVE  Rewritten(row, Ended(row, state, uncertain))
<1> DEFINE opened == IF row.log = <<>> THEN <<Plain("run.started")>> ELSE row.log
           type == IF state = "cancelled" THEN "run.cancelled" ELSE "run.failed"
           barrier == [type |-> type, uncertain |-> uncertain]
           body == [row EXCEPT !.state = state,
                               !.log = Append(opened, barrier),
                               !.expires = now + RetentionMs]
<1>1. /\ row.log \in Seq(Event) /\ Len(row.log) \in Nat
      /\ opened \in Seq(Event) /\ opened # <<>>
      /\ Len(opened) \in Nat /\ Len(row.log) <= Len(opened)
      /\ Len(opened) <= Len(row.log) + 1
      /\ \A n \in 1..Len(row.log) : opened[n] = row.log[n]
  <2>1. row.log \in Seq(Event)
    BY DEF Row
  <2>2. Plain("run.started") \in Event
    BY DEF Plain, Event, EventTypes
  <2>3. CASE row.log = <<>>
    BY <2>2, <2>3
  <2>4. CASE row.log # <<>>
    BY <2>1, <2>4
  <2> QED
    BY <2>3, <2>4
<1>2. /\ opened[1].type = "run.started"
      /\ \A n \in 1..Len(opened) : opened[n].type \notin Closing
  <2>1. Plain("run.started").type = "run.started" /\ "run.started" \notin Closing
    BY DEF Plain, Closing
  <2>2. CASE row.log = <<>>
    BY <2>1, <2>2
  <2>3. CASE row.log # <<>>
    BY SMTT(20), <1>1, <2>3 DEF Told
  <2> QED
    BY <2>2, <2>3
<1>3. barrier \in Event /\ barrier.type = type /\ barrier.uncertain = uncertain
      /\ type \in Closing
  BY DEF Event, EventTypes, Closing
<1> HIDE DEF opened, type
<1> DEFINE log == Append(opened, barrier)
<1>4. /\ log \in Seq(Event) /\ Len(log) = Len(opened) + 1 /\ log # <<>>
      /\ log[Len(log)] = barrier /\ DOMAIN log = 1..Len(log)
      /\ \A n \in 1..Len(opened) : log[n] = opened[n]
  BY <1>1, <1>3
<1> HIDE DEF barrier, log
<1>5. /\ body \in Row /\ body.state = state /\ body.log = log
      /\ body.subject = row.subject /\ body.key = row.key /\ body.print = row.print
      /\ body.erased = row.erased
  <2>1. now + RetentionMs \in Nat /\ state \in States
    BY DEF TypeOK, States, Terminal
  <2> QED
    BY <1>4, <2>1 DEF Row, log
<1> HIDE DEF body
<1>6. state \in Terminal
  BY DEF Terminal
<1>7. Told(body)
  <2>1. body.state # "queued"
    BY <1>5
  <2>2. ASSUME NEW n \in DOMAIN log PROVE log[n].type \in Closing <=> n = Len(log)
    <3>1. CASE n = Len(log)
      BY <1>3, <1>4, <3>1
    <3>2. CASE n # Len(log)
      <4>1. n \in 1..Len(opened)
        BY <1>1, <1>4, <3>2
      <4> QED
        BY <1>2, <1>4, <3>2, <4>1
    <3> QED
      BY <3>1, <3>2
  <2>3. log[1].type = "run.started"
    BY SMTT(20), <1>1, <1>2, <1>4
  <2>4. log[Len(log)].type = CASE state = "completed" -> "run.completed"
                               [] state = "cancelled" -> "run.cancelled"
                               [] OTHER               -> "run.failed"
    BY <1>3, <1>4 DEF type
  <2>5. state = "interrupted" => log[Len(log)].uncertain
    BY <1>3, <1>4
  <2> QED
    BY <1>4, <1>5, <1>6, <2>1, <2>2, <2>3, <2>4, <2>5 DEF Told
<1>8. Follows(row, body)
  BY SMTT(20), <1>1, <1>4, <1>5 DEF Follows
<1>9. Cost(body) <= Cost(row)
  <2>1. Cost(row) \in Nat /\ BaseSize \in Nat /\ ReserveSize \in Nat /\ ReserveSize >= 2
    BY CostType
  <2>2. CASE row.erased
    BY <1>5, <2>2 DEF Cost
  <2>3. CASE ~row.erased
    <3>1. Cost(body) = BaseSize + Len(log)
      <4>1. /\ ~body.erased /\ body.state \in Terminal /\ body.log = log
            /\ Len(log) \in Nat
        BY <1>4, <1>5, <1>6, <2>3
      <4>2. Cost(body) = BaseSize + Len(body.log) + 0
        BY <4>1 DEF Cost
      <4> QED
        BY <2>1, <4>1, <4>2
    <3>2. Cost(row) = BaseSize + Len(row.log) + ReserveSize
      BY <2>3 DEF Cost
    <3> QED
      BY SMTT(20), <1>1, <1>4, <2>1, <3>1, <3>2
  <2> QED
    BY <2>2, <2>3
<1>10. Ended(row, state, uncertain) = Classified(body)
  BY DEF Ended, body, barrier, opened, type, log
<1> QED
  BY <1>5, <1>7, <1>8, <1>9, <1>10, ClassifiedStory

-----------------------------------------------------------------------------
(* The operators that write a table *)

LEMMA RowsOfTable ==
    ASSUME NEW rows \in Seq(Row)
    PROVE  /\ \A i \in DOMAIN rows : rows[i] \in Row
           /\ Len(rows) \in Nat /\ DOMAIN rows = 1..Len(rows)
OBVIOUS

LEMMA InterruptRunningEvolves ==
    ASSUME TypeOK, NEW rows \in Seq(Row), Sound(rows)
    PROVE  Evolves(rows, InterruptRunning(rows))
<1>1. ASSUME NEW i \in DOMAIN rows PROVE Rewritten(rows[i], InterruptRunning(rows)[i])
  <2>1. rows[i] \in Row /\ Told(rows[i]) /\ Kept(rows[i])
    BY RowsOfTable DEF Sound
  <2>2. CASE rows[i].state = "running"
    <3>1. rows[i].state \notin Terminal
      BY <2>2 DEF Terminal
    <3>2. Rewritten(rows[i], Ended(rows[i], "interrupted", TRUE))
      BY <2>1, <3>1, EndedStory
    <3> QED
      BY <2>2, <3>2 DEF InterruptRunning
  <2>3. CASE rows[i].state # "running"
    BY <2>1, <2>3, RewrittenItself DEF InterruptRunning
  <2> QED
    BY <2>2, <2>3
<1> QED
  BY <1>1, InterruptRunningRows DEF Evolves

LEMMA EraseExpiredEvolves ==
    ASSUME NEW rows \in Seq(Row), Sound(rows)
    PROVE  Evolves(rows, EraseExpired(rows))
<1>1. ASSUME NEW i \in DOMAIN rows PROVE Rewritten(rows[i], EraseExpired(rows)[i])
  <2>1. rows[i] \in Row /\ Told(rows[i]) /\ Kept(rows[i])
    BY RowsOfTable DEF Sound
  <2> DEFINE row == rows[i]
             new == [row EXCEPT !.erased = TRUE]
  <2>2. /\ new \in Row /\ new.erased = TRUE /\ new.safe = row.safe
        /\ new.subject = row.subject /\ new.key = row.key /\ new.print = row.print
        /\ new.state = row.state /\ new.log = row.log
    BY <2>1 DEF Row
  <2>3. Rewritten(row, new)
    <3>1. row.log \in Seq(Event) /\ Len(row.log) \in Nat /\ Cost(row) \in Nat
      BY <2>1, CostType DEF Row
    <3> HIDE DEF row, new
    <3>2. Cost(new) = 0
      BY <2>2 DEF Cost
    <3>3. Told(new) /\ Kept(new)
      BY <2>1, <2>2 DEF Told, Kept, IsUncertain, row
    <3>4. Follows(row, new)
      BY <2>2, <3>1 DEF Follows
    <3> QED
      BY <2>2, <3>1, <3>2, <3>3, <3>4 DEF Rewritten
  <2>4. EraseExpired(rows)[i] \in {row, new}
    BY EraseExpiredRows
  <2> QED
    BY <2>1, <2>3, <2>4, RewrittenItself
<1> QED
  BY <1>1, EraseExpiredRows DEF Evolves

LEMMA MaintainedEvolves ==
    ASSUME TypeOK, Sound(jobs) PROVE Evolves(jobs, Maintained) /\ Sound(Maintained)
<1> DEFINE rows == IF Lapsed THEN InterruptRunning(jobs) ELSE jobs
<1>1. jobs \in Seq(Row) /\ \A i \in DOMAIN jobs : jobs[i] \in Row
  BY RowsOfTable DEF TypeOK
<1>2. Evolves(jobs, jobs)
  BY <1>1, RewrittenItself DEF Evolves, Sound
<1>3. Evolves(jobs, rows)
  BY <1>1, <1>2, InterruptRunningEvolves
<1>4. Maintained = EraseExpired(rows)
  BY DEF Maintained
<1> HIDE DEF rows
<1>5. rows \in Seq(Row) /\ Sound(rows)
  BY <1>3 DEF Evolves, Rewritten, Sound
<1>6. Evolves(rows, Maintained)
  BY <1>4, <1>5, EraseExpiredEvolves
<1>7. Evolves(jobs, Maintained)
  BY <1>1, <1>3, <1>6, EvolvesTwice
<1> QED
  BY <1>7 DEF Evolves, Rewritten, Sound

\* append writes an event of the driver into a running job's row.
LEMMA AppendedStory ==
    ASSUME TypeOK, NEW row \in Row, Told(row), row.state = "running",
           NEW e \in DriverEvents, row.log = <<>> => e.type = "run.started"
    PROVE  LET new == Classified([row EXCEPT
                          !.log = Append(@, e),
                          !.state = ClosedState(e.type),
                          !.expires = IF e.type \in Closing THEN now + RetentionMs
                                                            ELSE @])
           IN  new \in Row /\ Told(new) /\ Kept(new) /\ Follows(row, new)
<1> DEFINE log == Append(row.log, e)
           state == ClosedState(e.type)
           expires == IF e.type \in Closing THEN now + RetentionMs ELSE row.expires
           body == [row EXCEPT !.log = log, !.state = state, !.expires = expires]
<1>1. /\ row.log \in Seq(Event) /\ Len(row.log) \in Nat /\ e \in Event
      /\ row.expires \in Nat /\ now + RetentionMs \in Nat
  BY SMTT(20) DEF Row, DriverEvents, TypeOK
<1>2. /\ log \in Seq(Event) /\ Len(log) = Len(row.log) + 1 /\ log # <<>>
      /\ log[Len(log)] = e /\ DOMAIN log = 1..Len(log)
      /\ \A n \in 1..Len(row.log) : log[n] = row.log[n]
  BY <1>1, AppendedLog
<1>f. /\ row.log = <<>> => log[1] = e
      /\ row.log # <<>> => log[1] = row.log[1]
  <2>1. row.log = <<>> => Len(row.log) = 0
    OBVIOUS
  <2>2. row.log # <<>> => 1 \in 1..Len(row.log)
    BY <1>1
  <2> HIDE DEF log
  <2> QED
    BY <1>2, <2>1, <2>2
<1>3. /\ state \in States /\ state # "queued" /\ state # "interrupted"
      /\ state \in Terminal <=> e.type \in Closing
      /\ state = "completed" => e.type = "run.completed"
      /\ state = "cancelled" => e.type = "run.cancelled"
      /\ state = "failed" => e.type = "run.failed"
  BY DEF ClosedState, States, Terminal, Closing
<1>4. expires \in Nat
  BY <1>1
<1>5. ASSUME NEW n \in 1..Len(row.log) PROVE row.log[n].type \notin Closing
  <2>1. n \in DOMAIN row.log
    BY <1>1
  <2> QED
    BY <2>1 DEF Told, Terminal
<1> HIDE DEF log, state, expires
<1>6. /\ body \in Row /\ body.state = state /\ body.log = log
      /\ body.subject = row.subject /\ body.key = row.key /\ body.print = row.print
      /\ body.erased = row.erased
  BY <1>2, <1>3, <1>4 DEF Row
<1> HIDE DEF body
<1>7. Told(body)
  <2>1. \A n \in DOMAIN log :
           log[n].type \in Closing <=> (n = Len(log) /\ state \in Terminal)
    <3> SUFFICES ASSUME NEW n \in DOMAIN log
                 PROVE  log[n].type \in Closing <=> (n = Len(log) /\ state \in Terminal)
      OBVIOUS
    <3>1. CASE n = Len(log)
      BY <1>2, <1>3, <3>1
    <3>2. CASE n # Len(log)
      <4>1. n \in 1..Len(row.log)
        BY SMTT(20), <1>1, <1>2, <3>2
      <4> QED
        BY <1>2, <1>5, <3>2, <4>1
    <3> QED
      BY <3>1, <3>2
  <2>2. log[1].type = "run.started"
    BY <1>f DEF Told
  <2>3. state \in Terminal =>
           log[Len(log)].type = CASE state = "completed" -> "run.completed"
                                  [] state = "cancelled" -> "run.cancelled"
                                  [] OTHER               -> "run.failed"
    BY <1>2, <1>3 DEF Terminal
  <2> QED
    BY <1>2, <1>3, <1>6, <2>1, <2>2, <2>3 DEF Told
<1>8. Follows(row, body)
  <2>1. row.state \notin Terminal
    BY DEF Terminal
  <2> QED
    BY <1>1, <1>2, <1>3, <1>6, <2>1 DEF Follows
<1> DEFINE new == Classified(body)
<1>9. /\ new \in Row /\ Kept(new)
      /\ new.subject = body.subject /\ new.key = body.key /\ new.print = body.print
      /\ new.state = body.state /\ new.log = body.log /\ new.erased = body.erased
  BY <1>6, ClassifiedFields
<1> HIDE DEF new
<1>10. Told(new) /\ Follows(row, new)
  BY <1>7, <1>8, <1>9 DEF Told, Follows
<1> QED
  BY <1>9, <1>10 DEF new, body, log, state, expires

-----------------------------------------------------------------------------
(* Every step keeps the table's story *)

\* What a step does to a table that is sound and within its capacity.
Continues ==
    /\ Sound(jobs') /\ WithinCapacity'
    /\ \A i \in Ids : i \in DOMAIN jobs' /\ Follows(jobs[i], jobs'[i])

StoryInv == TypeOK /\ Sound(jobs) /\ WithinCapacity

LEMMA EvolvingContinues ==
    ASSUME StoryInv, Evolves(jobs, jobs') PROVE Continues
<1>1. jobs \in Seq(Row) /\ \A i \in DOMAIN jobs : jobs[i] \in Row
  BY RowsOfTable DEF StoryInv, TypeOK
<1>2. /\ jobs' \in Seq(Row) /\ DOMAIN jobs' = DOMAIN jobs
      /\ \A i \in DOMAIN jobs : Rewritten(jobs[i], jobs'[i])
  BY DEF Evolves
<1>3. Sound(jobs')
  BY <1>2 DEF Sound, Rewritten
<1>4. IsFiniteSet(DOMAIN jobs)
  BY <1>1, RowsOfTable, FS_Interval
<1>5. \A i \in DOMAIN jobs :
         Cost(jobs[i]) \in Nat /\ Cost(jobs'[i]) \in Nat /\ Cost(jobs'[i]) <= Cost(jobs[i])
  BY <1>1, <1>2, CostType DEF Rewritten
<1>6. Total(jobs') \in Nat /\ Total(jobs) \in Nat /\ Total(jobs') <= Total(jobs)
  BY <1>2, <1>4, <1>5, CheaperRows
<1>7. WithinCapacity'
  BY <1>6 DEF StoryInv, WithinCapacity
<1> QED
  BY <1>2, <1>3, <1>7 DEF Continues, Rewritten, Ids

\* A step that maintains the table, then rewrites one row of it.
LEMMA RowContinues ==
    ASSUME StoryInv, NEW i \in Ids, NEW row \in Row,
           jobs' = [Maintained EXCEPT ![i] = row], Rewritten(Maintained[i], row)
    PROVE  Continues
<1>1. /\ Evolves(jobs, Maintained) /\ Sound(Maintained) /\ Maintained \in Seq(Row)
      /\ i \in DOMAIN Maintained /\ jobs \in Seq(Row)
  BY MaintainedEvolves, MaintainedRows DEF StoryInv, TypeOK
<1>2. Evolves(Maintained, jobs')
  BY <1>1, OneRowEvolves
<1> QED
  BY <1>1, <1>2, EvolvesTwice, EvolvingContinues

\* What the row of an operation is once the table is maintained.
LEMMA MaintainedRow ==
    ASSUME StoryInv, NEW i \in Ids
    PROVE  /\ Maintained[i] \in Row /\ Told(Maintained[i]) /\ Kept(Maintained[i])
           /\ Rewritten(jobs[i], Maintained[i])
BY MaintainedEvolves, MaintainedRows DEF StoryInv, Sound, Evolves, Ids

LEMMA StartContinues ==
    ASSUME StoryInv, NEW h, NEW owner, NEW i \in Ids, Start(h, owner, i) PROVE Continues
<1> DEFINE row == Maintained[i]
           new == [row EXCEPT !.state = "running"]
<1>1. row \in Row /\ Told(row) /\ row.state = "queued"
  BY MaintainedRow DEF Start
<1>2. /\ new \in Row /\ new.state = "running" /\ new.log = row.log
      /\ new.subject = row.subject /\ new.key = row.key /\ new.print = row.print
      /\ new.erased = row.erased
  BY <1>1 DEF Row, States
<1>3. row.log = <<>> /\ Len(row.log) = 0 /\ Cost(row) \in Nat
  BY <1>1, CostType DEF Told
<1> HIDE DEF row, new
<1>4. Told(new) /\ Follows(row, new)
  BY <1>1, <1>2, <1>3 DEF Told, Follows, Terminal
<1>5. Cost(new) = Cost(row)
  BY <1>1, <1>2 DEF Cost, Terminal
<1>6. Rewritten(row, Classified(new))
  BY <1>1, <1>2, <1>3, <1>4, <1>5, ClassifiedStory
<1>7. jobs' = [Maintained EXCEPT ![i] = Classified(new)]
  BY DEF Start, row, new
<1> QED
  BY <1>2, <1>6, <1>7, ClassifiedFields, RowContinues DEF row

LEMMA FailContinues ==
    ASSUME StoryInv, NEW h, NEW owner, NEW i \in Ids, Fail(h, owner, i) PROVE Continues
<1> DEFINE row == Maintained[i]
           new == IF row.state = "running" THEN Ended(row, "interrupted", TRUE)
                                           ELSE Ended(row, "failed", FALSE)
<1>1. row \in Row /\ Told(row) /\ row.state \notin Terminal /\ TypeOK
  BY MaintainedRow DEF Fail, StoryInv
<1>2. Rewritten(row, new)
  <2> HIDE DEF row
  <2> QED
    BY <1>1, EndedStory
<1>3. new \in Row
  BY <1>2 DEF Rewritten
<1>4. jobs' = [Maintained EXCEPT ![i] = new]
  BY DEF Fail
<1> HIDE DEF new
<1> QED
  BY <1>2, <1>3, <1>4, RowContinues

LEMMA CancelContinues ==
    ASSUME StoryInv, NEW h, NEW s, NEW i \in Ids, Cancel(h, s, i) PROVE Continues
<1> DEFINE row == Maintained[i]
           asked == [row EXCEPT !.cancelRequested = TRUE]
           new == IF asked.state = "queued" THEN Ended(asked, "cancelled", FALSE)
                                            ELSE Classified(asked)
<1>1. row \in Row /\ Told(row) /\ Kept(row) /\ row.state \notin Terminal /\ TypeOK
  BY MaintainedRow DEF Cancel, StoryInv
<1>2. /\ asked \in Row /\ asked.state = row.state /\ asked.log = row.log
      /\ asked.subject = row.subject /\ asked.key = row.key /\ asked.print = row.print
      /\ asked.erased = row.erased /\ asked.safe = row.safe
  BY <1>1 DEF Row
<1>3. row.log \in Seq(Event) /\ Len(row.log) \in Nat /\ Cost(row) \in Nat
  BY <1>1, CostType DEF Row
<1>4. jobs' = [Maintained EXCEPT ![i] = new]
  BY DEF Cancel
<1> HIDE DEF row, asked
<1>5. /\ Told(asked) /\ Kept(asked) /\ Follows(row, asked) /\ Cost(asked) = Cost(row)
      /\ asked.state \notin Terminal
  BY <1>1, <1>2, <1>3 DEF Told, Kept, IsUncertain, Follows, Cost
<1>6. Rewritten(row, asked)
  BY <1>2, <1>3, <1>5 DEF Rewritten
<1>7. CASE asked.state = "queued"
  <2>1. Rewritten(asked, Ended(asked, "cancelled", FALSE))
    BY <1>1, <1>2, <1>5, EndedStory
  <2>2. new = Ended(asked, "cancelled", FALSE)
    BY <1>7
  <2>3. new \in Row /\ Rewritten(asked, new)
    BY <2>1, <2>2 DEF Rewritten
  <2> HIDE DEF new
  <2>4. Rewritten(row, new)
    BY <1>1, <1>2, <1>6, <2>3, RewrittenTwice
  <2> QED
    BY <1>4, <2>3, <2>4, RowContinues DEF row
<1>8. CASE asked.state # "queued"
  <2>1. new = Classified(asked)
    BY <1>8
  <2>2. Rewritten(row, new)
    <3>1. Cost(asked) <= Cost(row)
      BY <1>3, <1>5
    <3> HIDE DEF new
    <3> QED
      BY <1>1, <1>2, <1>5, <2>1, <3>1, ClassifiedStory
  <2>3. new \in Row
    BY <2>2 DEF Rewritten
  <2> HIDE DEF new
  <2> QED
    BY <1>4, <2>2, <2>3, RowContinues DEF row
<1> QED
  BY <1>7, <1>8

LEMMA AppendContinues ==
    ASSUME StoryInv, NEW h, NEW owner, NEW i \in Ids, NEW e \in DriverEvents,
           NEW n \in 1..(Len(jobs[i].log) + 1), AppendEvent(h, owner, i, n, e)
    PROVE  Continues
<1> DEFINE row == Maintained[i]
           new == Classified([row EXCEPT
                     !.log = Append(@, e),
                     !.state = ClosedState(e.type),
                     !.expires = IF e.type \in Closing THEN now + RetentionMs ELSE @])
<1>1. /\ row \in Row /\ Told(row) /\ row.state = "running" /\ TypeOK
      /\ Rewritten(jobs[i], row) /\ n = Len(row.log) + 1
      /\ n = 1 => e.type = "run.started"
  BY MaintainedRow DEF AppendEvent, StoryInv
<1>2. row.log = <<>> => e.type = "run.started"
  BY <1>1
<1>3. new \in Row /\ Told(new) /\ Kept(new) /\ Follows(row, new)
  <2> HIDE DEF row
  <2> QED
    BY <1>1, <1>2, AppendedStory
<1>4. jobs' = [Maintained EXCEPT ![i] = new] /\ Total(jobs') <= MaxBytes
  BY DEF AppendEvent, Appended, Fits
<1> HIDE DEF new, row
<1>5. /\ Maintained \in Seq(Row) /\ DOMAIN Maintained = Ids /\ Sound(Maintained)
      /\ Evolves(jobs, Maintained) /\ jobs[i] \in Row
  BY MaintainedEvolves, MaintainedRows, RowsOfTable DEF StoryInv, Ids, TypeOK
<1>6. /\ DOMAIN jobs' = Ids /\ jobs'[i] = new
      /\ \A j \in Ids : j # i => jobs'[j] = Maintained[j]
  BY <1>3, <1>4, <1>5, UpdatedTable
<1>7. Sound(jobs')
  BY <1>3, <1>5, <1>6 DEF Sound
<1>8. Follows(jobs[i], new)
  <2>1. Follows(jobs[i], row) /\ Follows(row, new)
    BY <1>1, <1>3 DEF Rewritten
  <2> QED
    BY <1>1, <1>3, <1>5, <2>1, FollowsTwice
<1>9. \A j \in Ids : j # i => Follows(jobs[j], jobs'[j])
  BY <1>5, <1>6 DEF Evolves, Rewritten, Ids
<1> QED
  BY <1>4, <1>6, <1>7, <1>8, <1>9 DEF Continues, WithinCapacity

LEMMA SubmitContinues ==
    ASSUME StoryInv, NEW h, NEW s \in Subjects, NEW k \in Keys, NEW p \in Prints,
           Submit(h, s, k, p)
    PROVE  Continues
<1>1. NewRow(s, k, p) \in Row /\ Told(NewRow(s, k, p)) /\ Kept(NewRow(s, k, p))
  BY DEF NewRow, Row, States, Told, Kept, Terminal
<1>2. jobs' = Append(Maintained, NewRow(s, k, p)) /\ Total(jobs') <= MaxBytes
  BY DEF Submit, Fits
<1>3. /\ Maintained \in Seq(Row) /\ DOMAIN Maintained = Ids /\ Sound(Maintained)
      /\ Evolves(jobs, Maintained)
  BY MaintainedEvolves, MaintainedRows DEF StoryInv
<1>4. /\ DOMAIN jobs' = Ids \cup {Len(Maintained) + 1}
      /\ jobs'[Len(Maintained) + 1] = NewRow(s, k, p)
      /\ \A i \in Ids : jobs'[i] = Maintained[i]
  BY <1>1, <1>2, <1>3
<1>5. Sound(jobs')
  BY <1>1, <1>3, <1>4 DEF Sound
<1> QED
  BY <1>2, <1>3, <1>4, <1>5 DEF Continues, WithinCapacity, Evolves, Rewritten, Ids

LEMMA HandoffContinues ==
    ASSUME StoryInv, NEW h, NEW b, NEW owner, AcquireQuiet(h, b, owner) PROVE Continues
<1>1. jobs \in Seq(Row) /\ \A i \in DOMAIN jobs : jobs[i] \in Row
  BY RowsOfTable DEF StoryInv, TypeOK
<1>2. \A i \in DOMAIN jobs : Told(jobs[i]) /\ Kept(jobs[i])
  BY DEF StoryInv, Sound
<1>3. CASE jobs' = jobs
  BY <1>1, <1>2, <1>3, RewrittenItself, EvolvingContinues DEF Evolves
<1>4. CASE generation = 0 /\ jobs' = [i \in Ids |-> [jobs[i] EXCEPT !.safe = TRUE]]
  <2>1. ASSUME NEW i \in DOMAIN jobs PROVE Rewritten(jobs[i], jobs'[i])
    <3> DEFINE row == jobs[i]
               new == [row EXCEPT !.safe = TRUE]
    <3>1. row \in Row /\ Told(row) /\ jobs'[i] = new
      BY <1>1, <1>2, <1>4, <2>1 DEF Ids
    <3>2. /\ new \in Row /\ new.state = row.state /\ new.log = row.log
          /\ new.subject = row.subject /\ new.key = row.key /\ new.print = row.print
          /\ new.erased = row.erased
      BY <3>1 DEF Row
    <3>3. row.state \in {"completed", "cancelled"} /\ ~IsUncertain(row)
      BY <1>4, <2>1 DEF AcquireQuiet, Quiet, Ids
    <3>4. row.log \in Seq(Event) /\ Len(row.log) \in Nat /\ Cost(row) \in Nat
      BY <3>1, CostType DEF Row
    <3> HIDE DEF row, new
    <3>5. Told(new) /\ Kept(new) /\ Follows(row, new) /\ Cost(new) = Cost(row)
      BY <3>1, <3>2, <3>3, <3>4 DEF Told, Kept, IsUncertain, Follows, Cost
    <3> QED
      BY <3>1, <3>2, <3>4, <3>5 DEF Rewritten, row
  <2>2. /\ DOMAIN jobs' = DOMAIN jobs /\ DOMAIN jobs' = 1..Len(jobs) /\ Len(jobs) \in Nat
        /\ \A i \in 1..Len(jobs) : jobs'[i] \in Row
    <3>1. DOMAIN jobs = 1..Len(jobs) /\ Len(jobs) \in Nat
      BY <1>1, RowsOfTable
    <3>2. DOMAIN jobs' = DOMAIN jobs
      BY <1>4 DEF Ids
    <3>3. \A i \in DOMAIN jobs : jobs'[i] \in Row
      BY <2>1 DEF Rewritten
    <3> QED
      BY <3>1, <3>2, <3>3
  <2>3. jobs' \in Seq(Row)
    <3>1. jobs' \in [1..Len(jobs) -> Row]
      BY <1>4, <2>2 DEF Ids
    <3> QED
      BY ONLY <2>2, <3>1, TableIsSequence
  <2> QED
    BY <2>1, <2>2, <2>3, EvolvingContinues DEF Evolves
<1> QED
  BY <1>3, <1>4 DEF AcquireQuiet

LEMMA StoryStep == ASSUME StoryInv, [Next]_vars PROVE Continues
<1>1. /\ Evolves(jobs, Maintained) /\ Sound(Maintained) /\ Maintained \in Seq(Row)
      /\ jobs \in Seq(Row) /\ TypeOK
  BY MaintainedEvolves, MaintainedRows DEF StoryInv, TypeOK
<1>2. ASSUME jobs' = jobs PROVE Continues
  <2>1. Evolves(jobs, jobs)
    BY <1>1, RewrittenItself, RowsOfTable DEF Evolves, StoryInv, Sound
  <2> QED
    BY <1>2, <2>1, EvolvingContinues
<1>3. ASSUME jobs' = Maintained PROVE Continues
  BY <1>1, <1>3, EvolvingContinues
<1>4. ASSUME jobs' = InterruptRunning(Maintained) PROVE Continues
  BY <1>1, <1>4, InterruptRunningEvolves, EvolvesTwice, EvolvingContinues
<1>5. ASSUME NEW h \in Handles, ClientStep(h) PROVE Continues
  BY <1>2, <1>3, <1>5, SubmitContinues, CancelContinues
  DEF ClientStep, Open, Close, Access, dbVars
<1>6. ASSUME NEW h \in Handles, NEW owner \in Owners, WorkerStep(h, owner) PROVE Continues
  BY <1>2, <1>3, <1>4, <1>6, HandoffContinues, StartContinues, FailContinues,
     AppendContinues DEF WorkerStep, Acquire, Renew, Release
<1>7. ASSUME Tick \/ UNCHANGED vars PROVE jobs' = jobs
  BY <1>7 DEF Tick, vars, dbVars
<1> QED
  BY <1>2, <1>5, <1>6, <1>7 DEF Next

LEMMA StoryBegins == ASSUME Init PROVE StoryInv
<1>1. TypeOK
  BY DEF Init, TypeOK, Closed, NoLease
<1>2. DOMAIN jobs = {}
  BY DEF Init
<1>3. Total(jobs) = 0
  <2>1. IsFiniteSet(DOMAIN jobs) /\ {} \in SUBSET DOMAIN jobs
    BY <1>2, FS_EmptySet
  <2>2. /\ Total(jobs) = SumOver(Costs(jobs))[DOMAIN jobs]
        /\ Adds(SumOver(Costs(jobs)), Costs(jobs), {})
    BY <1>2, <2>1, TotalIsSum
  <2> QED
    BY <1>2, <2>2 DEF Adds
<1> QED
  BY <1>1, <1>2, <1>3 DEF StoryInv, Sound, WithinCapacity

LEMMA StoryHolds == Spec => []StoryInv
<1>1. Init => StoryInv
  BY StoryBegins
<1>2. StoryInv /\ [Next]_vars => StoryInv'
  BY StoryStep, TypeStep DEF StoryInv, Continues
<1> QED
  BY <1>1, <1>2, PTL DEF Spec

\* A row's columns, its log and the byte count of the whole store tell one
\* story: a job is started once and ends once, its log says how, and the
\* reserved bytes always suffice for the barriers that end writes without a
\* capacity check.
THEOREM StoreAlwaysSound == Spec => StoreIsSound
<1> DEFINE Lived(i) ==
              /\ i \in DOMAIN jobs'
              /\ \A f \in {"subject", "key", "print"} : jobs'[i][f] = jobs[i][f]
              /\ jobs[i].state # "queued" => jobs'[i].state # "queued"
              /\ jobs[i].erased => jobs'[i].erased
              /\ jobs[i].log = SubSeq(jobs'[i].log, 1, Len(jobs[i].log))
              /\ jobs[i].state \in Terminal =>
                    jobs'[i].state = jobs[i].state /\ jobs'[i].log = jobs[i].log
<1>1. StoryInv => TypeOK /\ LogAgreesWithState /\ WithinCapacity
  BY DEF StoryInv, Sound, Told, LogAgreesWithState, Ids
<1>2. StoryInv /\ StoryInv' /\ [Next]_vars => \A i \in Ids : Lived(i)
  <2> SUFFICES ASSUME StoryInv, StoryInv', [Next]_vars, NEW i \in Ids PROVE Lived(i)
    OBVIOUS
  <2>1. i \in DOMAIN jobs' /\ Follows(jobs[i], jobs'[i])
    BY StoryStep DEF Continues
  <2>2. jobs[i].log \in Seq(Event) /\ jobs'[i].log \in Seq(Event)
    BY <2>1, RowsOfTable DEF StoryInv, TypeOK, Row, Ids
  <2>3. jobs[i].log = SubSeq(jobs'[i].log, 1, Len(jobs[i].log))
    BY <2>1, <2>2, PrefixIsSubSeq DEF Follows
  <2> QED
    BY <2>1, <2>3 DEF Follows
<1>3. StoryInv /\ StoryInv' /\ [Next]_vars => [\A i \in Ids : Lived(i)]_vars
  BY <1>2
<1> QED
  BY <1>1, <1>3, StoryHolds, PTL DEF Spec, StoreIsSound, Lifecycle

-----------------------------------------------------------------------------
(* The handoff *)

\* No handle is ahead of the store, so advancing the generation fences them all.
HandleInv == OneBoundHandle /\ \A h \in Handles : handles[h].generation <= generation

LEMMA HandleStep ==
    ASSUME TypeOK, HandleInv, [Next]_vars PROVE HandleInv'
<1>t. /\ handles \in [Handles -> HandleType] /\ generation \in Nat
      /\ lease \in LeaseType /\ \A h \in Handles : handles[h].generation \in Nat
  BY DEF TypeOK, HandleType, LeaseType
\* A step that changes neither the generation nor whose the lease is.
<1>k. ASSUME generation' = generation, lease'.owner = lease.owner,
             lease # NoLease => lease' # NoLease,
             \A h \in Handles :
                \/ handles'[h] = handles[h]
                \/ handles'[h].acquired = FALSE /\ handles'[h].generation <= generation
      PROVE  HandleInv'
  BY <1>k DEF HandleInv, OneBoundHandle
<1>n. ASSUME handles' = handles, generation' = generation, generation = 0 PROVE HandleInv'
  BY <1>n DEF HandleInv, OneBoundHandle
\* An ordinary step on an adopted store is the live owner's.
<1>l. ASSUME NEW h \in Handles, Fenced(h, "ordinary"), generation # 0
      PROVE  lease # NoLease /\ MaintainedLease = lease
  <2>1. generation > 0
    BY <1>t, <1>l
  <2>2. Live
    BY <1>l, <2>1 DEF Fenced, Holds
  <2>3. ~Lapsed
    BY <2>2 DEF Live, Lapsed, TypeOK
  <2> QED
    BY <2>2, <2>3 DEF Live, MaintainedLease
<1>1. ASSUME NEW h \in Handles, Open(h) PROVE HandleInv'
  <2>1. handles' = [handles EXCEPT ![h] =
                       [Closed EXCEPT !.open = TRUE, !.generation = generation]]
    BY <1>1 DEF Open
  <2>2. \A g \in Handles :
           \/ handles'[g] = handles[g]
           \/ handles'[g].acquired = FALSE /\ handles'[g].generation <= generation
    BY <1>t, <2>1 DEF Closed
  <2> QED
    BY <1>k, <1>1, <2>2 DEF Open, dbVars
<1>2. ASSUME NEW h \in Handles, Close(h) PROVE HandleInv'
  <2>1. \A g \in Handles :
           \/ handles'[g] = handles[g]
           \/ handles'[g].acquired = FALSE /\ handles'[g].generation <= generation
    BY <1>t, <1>2 DEF Close, Closed
  <2> QED
    BY <1>k, <1>2, <2>1 DEF Close, dbVars
<1>3. ASSUME NEW h \in Handles,
             \/ Access(h)
             \/ \E s \in Subjects, k \in Keys, p \in Prints : Submit(h, s, k, p)
             \/ \E s \in Subjects : \E i \in Ids : Cancel(h, s, i)
      PROVE  HandleInv'
  <2>1. /\ Fenced(h, "ordinary") /\ lease' = MaintainedLease
        /\ generation' = generation /\ handles' = handles
    BY <1>3 DEF Access, Submit, Cancel
  <2>2. CASE generation = 0
    BY <1>n, <2>1, <2>2
  <2>3. CASE generation # 0
    BY <1>k, <1>l, <2>1, <2>3
  <2> QED
    BY <2>2, <2>3
<1>4. ASSUME NEW h \in Handles, NEW owner \in Owners, Acquire(h, owner) PROVE HandleInv'
  <2>1. /\ generation' = Advanced /\ lease' = [owner |-> owner, expires |-> now + LeaseMs]
        /\ handles' = [handles EXCEPT ![h] =
                          [open |-> TRUE, generation |-> Advanced,
                           owner |-> owner, acquired |-> TRUE]]
    BY <1>4 DEF Acquire
  <2>2. lease' # NoLease /\ lease'.owner = owner
    BY <2>1 DEF NoLease
  <2>3. \A g \in Handles : g # h => handles'[g] = handles[g]
    BY <1>t, <2>1
  <2>4. /\ handles'[h].generation = Advanced /\ handles'[h].owner = owner
    BY <1>t, <2>1
  <2>5. CASE generation = 0
    BY <1>t, <2>1, <2>3, <2>4, <2>5 DEF HandleInv, OneBoundHandle, Advanced
  <2>6. CASE generation # 0
    <3>1. generation' = generation + 1 /\ generation + 1 \in Nat
      BY <1>t, <2>1, <2>6 DEF Advanced
    <3>2. \A g \in Handles : g # h => handles'[g].generation < generation'
      BY <1>t, <2>3, <3>1 DEF HandleInv
    <3>3. \A g \in Handles : handles'[g].generation <= generation'
      BY <1>t, <2>1, <2>4, <3>1, <3>2
    <3>4. \A g \in Handles : handles'[g].generation = generation' => g = h
      BY <1>t, <2>3, <3>1, <3>2
    <3> QED
      BY <2>2, <2>4, <3>3, <3>4 DEF HandleInv, OneBoundHandle
  <2> QED
    BY <2>5, <2>6
<1>5. ASSUME NEW h \in Handles, NEW b \in Handles, NEW owner \in Owners,
             AcquireQuiet(h, b, owner)
      PROVE  HandleInv'
  <2>1. /\ generation' = generation + 1
        /\ lease' = [owner |-> owner, expires |-> now + LeaseMs]
        /\ handles' = [handles EXCEPT ![b] =
                          [open |-> TRUE, generation |-> generation + 1,
                           owner |-> owner, acquired |-> TRUE]]
    BY <1>5 DEF AcquireQuiet
  <2>2. lease' # NoLease /\ lease'.owner = owner
    BY <2>1 DEF NoLease
  <2>3. \A g \in Handles : g # b => handles'[g] = handles[g]
    BY <1>t, <2>1
  <2>4. handles'[b].generation = generation' /\ handles'[b].owner = owner
    BY <1>t, <2>1
  <2>5. \A g \in Handles : g # b => handles'[g].generation < generation'
    BY <1>t, <2>1, <2>3 DEF HandleInv
  <2>6. \A g \in Handles : handles'[g].generation <= generation'
    BY <1>t, <2>1, <2>3, <2>4 DEF HandleInv
  <2>7. \A g \in Handles : handles'[g].generation = generation' => g = b
    BY <1>t, <2>1, <2>3, <2>5
  <2> QED
    BY <2>2, <2>4, <2>6, <2>7 DEF HandleInv, OneBoundHandle
<1>6. ASSUME NEW h \in Handles, NEW owner \in Owners, Renew(h, owner) PROVE HandleInv'
  <2>1. lease'.owner = lease.owner /\ lease.owner = owner
    BY <1>t, <1>6 DEF Renew, Worker, Holds, LeaseType
  <2>2. lease' # NoLease
    BY <2>1 DEF NoLease
  <2> QED
    BY <1>k, <1>6, <2>1, <2>2 DEF Renew
<1>7. ASSUME NEW h \in Handles, NEW owner \in Owners, Release(h, owner) PROVE HandleInv'
  <2>1. generation' = Advanced /\ handles' = handles
    BY <1>7 DEF Release
  <2>2. CASE generation = 0
    BY <1>n, <2>1, <2>2 DEF Advanced
  <2>3. CASE generation # 0
    <3>1. generation' = generation + 1
      BY <1>t, <2>1, <2>3 DEF Advanced
    <3>2. \A g \in Handles : handles'[g].generation < generation'
      BY <1>t, <2>1, <3>1 DEF HandleInv
    <3>3. \A g \in Handles : /\ handles'[g].generation <= generation'
                             /\ handles'[g].generation # generation'
      BY <1>t, <2>1, <3>1, <3>2
    <3> QED
      BY <3>3 DEF HandleInv, OneBoundHandle
  <2> QED
    BY <2>2, <2>3
<1>8. ASSUME UNCHANGED <<lease, generation, handles>> PROVE HandleInv'
  BY <1>8 DEF HandleInv, OneBoundHandle
<1> QED
  BY <1>1, <1>2, <1>3, <1>4, <1>5, <1>6, <1>7, <1>8
  DEF Next, ClientStep, WorkerStep, Start, AppendEvent, Fail, Tick, vars, dbVars

\* The fence and the handoff_safe column: in an adopted store one handle at most
\* is current and the lease is its own, and a store that acquireQuiet hands out
\* holds completed and cancelled jobs only, none with an uncertain effect, the
\* erased ones included.
THEOREM HandoffAlwaysSafe == Spec => []HandoffIsSafe
<1>1. Init => HandleInv
  BY DEF Init, HandleInv, OneBoundHandle, Closed
<1>2. StoryInv /\ HandleInv => HandoffIsSafe
  <2> SUFFICES ASSUME StoryInv, HandleInv, Quiet, NEW i \in Ids
               PROVE  /\ jobs[i].state \in {"completed", "cancelled"}
                      /\ ~IsUncertain(jobs[i])
    BY DEF HandleInv, HandoffIsSafe, QuietIsClean
  <2>1. Kept(jobs[i])
    BY DEF StoryInv, Sound, Ids
  <2> QED
    BY <2>1 DEF Quiet, Kept
<1>3. TypeOK /\ HandleInv /\ [Next]_vars => HandleInv'
  BY HandleStep
<1> QED
  BY <1>1, <1>2, <1>3, StoryHolds, TypeCorrect, PTL DEF Spec

-----------------------------------------------------------------------------
(* JobStore implements JobQueue: every transaction, with the maintenance it
   begins with, is one step of the abstract queue or changes nothing there. *)

\* The phases of a table's slots.
Phases(rows) ==
    [j \in 1..MaxJobs |-> IF j \in DOMAIN rows THEN rows[j].state ELSE "free"]

Interruption(phases) ==
    [j \in 1..MaxJobs |-> IF phases[j] = "running" THEN "interrupted" ELSE phases[j]]

\* The abstract queue's steps, in terms of the tables before and after.
LEMMA ClientMaps ==
    ASSUME NEW before,
           \/ lease'.owner = lease.owner /\ before = Phases(jobs)
           \/ lease'.owner = NoOwner /\ before = Interruption(Phases(jobs)),
           \/ Phases(jobs') = before
           \/ \E j \in 1..MaxJobs :
                 \/ before[j] = "free"
                    /\ Phases(jobs') = [before EXCEPT ![j] = "queued"]
                 \/ before[j] = "queued"
                    /\ Phases(jobs') = [before EXCEPT ![j] = "cancelled"]
    PROVE  Queue!Client
<1>1. Phases(jobs) = [i \in 1..MaxJobs |-> IF i \in Ids THEN jobs[i].state ELSE "free"]
  BY DEF Phases, Ids
<1>2. Phases(jobs') = [i \in 1..MaxJobs |-> IF i \in Ids THEN jobs[i].state ELSE "free"]'
  BY DEF Phases, Ids
<1>3. Interruption(Phases(jobs)) = Queue!Interrupted
  BY <1>1 DEF Interruption, Queue!Interrupted
<1> QED
  BY <1>1, <1>2, <1>3 DEF Queue!Client, Queue!Under, Queue!Move

LEMMA OperateMaps ==
    ASSUME lease.owner # NoOwner, lease'.owner = lease.owner,
           NEW j \in 1..MaxJobs,
           \/ Phases(jobs)[j] = "queued" /\ \E o \in {"running", "failed"} :
                 Phases(jobs') = [Phases(jobs) EXCEPT ![j] = o]
           \/ Phases(jobs)[j] = "running" /\ \E o \in Terminal :
                 Phases(jobs') = [Phases(jobs) EXCEPT ![j] = o]
    PROVE  Queue!Operate
<1>1. Phases(jobs) = [i \in 1..MaxJobs |-> IF i \in Ids THEN jobs[i].state ELSE "free"]
  BY DEF Phases, Ids
<1>2. Phases(jobs') = [i \in 1..MaxJobs |-> IF i \in Ids THEN jobs[i].state ELSE "free"]'
  BY DEF Phases, Ids
<1> QED
  BY <1>1, <1>2 DEF Queue!Operate, Queue!Work, Queue!Outcomes, Terminal

LEMMA OwnerMaps ==
    ASSUME Phases(jobs') = Interruption(Phases(jobs))
    PROVE  /\ lease'.owner \in Owners => Queue!Take
           /\ lease.owner # NoOwner /\ lease'.owner = NoOwner => Queue!Leave
<1>1. Phases(jobs) = [i \in 1..MaxJobs |-> IF i \in Ids THEN jobs[i].state ELSE "free"]
  BY DEF Phases, Ids
<1>2. Phases(jobs') = [i \in 1..MaxJobs |-> IF i \in Ids THEN jobs[i].state ELSE "free"]'
  BY DEF Phases, Ids
<1>3. Interruption(Phases(jobs)) = Queue!Interrupted
  BY <1>1 DEF Interruption, Queue!Interrupted
<1> QED
  BY <1>1, <1>2, <1>3 DEF Queue!Take, Queue!Leave

LEMMA StutterMaps ==
    ASSUME Phases(jobs') = Phases(jobs), lease'.owner = lease.owner
    PROVE  UNCHANGED Queue!queueVars
<1>1. Phases(jobs) = [i \in 1..MaxJobs |-> IF i \in Ids THEN jobs[i].state ELSE "free"]
  BY DEF Phases, Ids
<1>2. Phases(jobs') = [i \in 1..MaxJobs |-> IF i \in Ids THEN jobs[i].state ELSE "free"]'
  BY DEF Phases, Ids
<1> QED
  BY <1>1, <1>2 DEF Queue!queueVars

-----------------------------------------------------------------------------
(* What the parts of a transaction do to the phases *)

\* Interrupting the rows interrupts the phases.
LEMMA InterruptedPhases ==
    ASSUME TypeOK, NEW rows \in Seq(Row)
    PROVE  Phases(InterruptRunning(rows)) = Interruption(Phases(rows))
<1>1. ASSUME NEW j \in DOMAIN rows
      PROVE  InterruptRunning(rows)[j].state =
                IF rows[j].state = "running" THEN "interrupted" ELSE rows[j].state
  <2>1. rows[j] \in Row
    OBVIOUS
  <2>2. CASE rows[j].state = "running"
    BY <2>1, <2>2, EndedRow DEF InterruptRunning
  <2>3. CASE rows[j].state # "running"
    BY <2>3 DEF InterruptRunning
  <2> QED
    BY <2>2, <2>3
<1>2. DOMAIN InterruptRunning(rows) = DOMAIN rows
  BY DEF InterruptRunning
<1> QED
  BY <1>1, <1>2 DEF Phases, Interruption

\* A table without running rows is its own interruption.
LEMMA NothingToInterrupt ==
    ASSUME NEW rows, \A i \in DOMAIN rows : rows[i].state # "running"
    PROVE  Interruption(Phases(rows)) = Phases(rows)
BY DEF Interruption, Phases

\* Maintenance is invisible, or it is the interruption of a lapsed worker.
LEMMA MaintainedPhases ==
    ASSUME TypeOK
    PROVE  /\ Phases(Maintained) = IF Lapsed THEN Interruption(Phases(jobs)) ELSE Phases(jobs)
           /\ MaintainedLease.owner = IF Lapsed THEN NoOwner ELSE lease.owner
<1> DEFINE rows == IF Lapsed THEN InterruptRunning(jobs) ELSE jobs
<1>1. jobs \in Seq(Row)
  BY DEF TypeOK
<1>2. rows \in Seq(Row)
  BY <1>1, InterruptRunningRows
<1>3. Phases(rows) = IF Lapsed THEN Interruption(Phases(jobs)) ELSE Phases(jobs)
  BY <1>1, InterruptedPhases
<1>4. Maintained = EraseExpired(rows)
  BY DEF Maintained
<1> HIDE DEF rows
<1>5. Phases(EraseExpired(rows)) = Phases(rows)
  BY <1>2, EraseExpiredRows DEF Phases
<1>6. MaintainedLease.owner = IF Lapsed THEN NoOwner ELSE lease.owner
  BY DEF MaintainedLease, NoLease
<1> QED
  BY <1>3, <1>4, <1>5, <1>6

\* Writing one row changes one phase, if the row has a slot.
LEMMA WrittenPhases ==
    ASSUME NEW rows, NEW after, NEW i \in DOMAIN rows, DOMAIN after = DOMAIN rows,
           \A j \in DOMAIN rows : j # i => after[j] = rows[j]
    PROVE  /\ i \in 1..MaxJobs => /\ Phases(rows)[i] = rows[i].state
                                  /\ Phases(after) = [Phases(rows) EXCEPT ![i] = after[i].state]
           /\ i \notin 1..MaxJobs => Phases(after) = Phases(rows)
           /\ after[i].state = rows[i].state => Phases(after) = Phases(rows)
<1>1. ASSUME NEW j \in 1..MaxJobs, j # i PROVE Phases(after)[j] = Phases(rows)[j]
  BY <1>1 DEF Phases
<1>2. i \in 1..MaxJobs => /\ Phases(after)[i] = after[i].state
                          /\ Phases(rows)[i] = rows[i].state
  BY DEF Phases
<1>3. /\ DOMAIN Phases(after) = 1..MaxJobs /\ DOMAIN Phases(rows) = 1..MaxJobs
      /\ Phases(after) = [j \in 1..MaxJobs |-> Phases(after)[j]]
      /\ Phases(rows) = [j \in 1..MaxJobs |-> Phases(rows)[j]]
  BY DEF Phases
<1> QED
  BY <1>1, <1>2, <1>3

-----------------------------------------------------------------------------
(* Every transaction is a step of the queue *)

LEMMA QueueStep ==
    TypeOK /\ RunningIsOwned /\ [Next]_vars => [Queue!Next]_(Queue!queueVars)
<1> SUFFICES ASSUME TypeOK, RunningIsOwned, [Next]_vars
             PROVE  Queue!Next \/ UNCHANGED Queue!queueVars
  OBVIOUS
<1>m. /\ Maintained \in Seq(Row) /\ DOMAIN Maintained = Ids
      /\ \A i \in Ids : Maintained[i] \in Row
      /\ Lapsed => \A i \in Ids : Maintained[i].state # "running"
  BY MaintainedRows
<1>p. /\ Phases(Maintained) = IF Lapsed THEN Interruption(Phases(jobs)) ELSE Phases(jobs)
      /\ MaintainedLease.owner = IF Lapsed THEN NoOwner ELSE lease.owner
  BY MaintainedPhases
<1>w. ASSUME NEW i \in Ids, NEW row \in Row, jobs' = [Maintained EXCEPT ![i] = row]
      PROVE  /\ i \in 1..MaxJobs =>
                   /\ Phases(Maintained)[i] = Maintained[i].state
                   /\ Phases(jobs') = [Phases(Maintained) EXCEPT ![i] = row.state]
             /\ i \notin 1..MaxJobs => Phases(jobs') = Phases(Maintained)
             /\ row.state = Maintained[i].state => Phases(jobs') = Phases(Maintained)
  <2>1. /\ DOMAIN jobs' = DOMAIN Maintained /\ jobs'[i] = row
        /\ \A j \in DOMAIN Maintained : j # i => jobs'[j] = Maintained[j]
    BY <1>m, <1>w, UpdatedTable
  <2> DEFINE after == jobs'
  <2>2. /\ i \in DOMAIN Maintained /\ DOMAIN after = DOMAIN Maintained
        /\ after[i] = row
        /\ \A j \in DOMAIN Maintained : j # i => after[j] = Maintained[j]
    BY <1>m, <2>1
  <2> HIDE DEF after
  <2>3. /\ i \in 1..MaxJobs =>
              /\ Phases(Maintained)[i] = Maintained[i].state
              /\ Phases(after) = [Phases(Maintained) EXCEPT ![i] = after[i].state]
        /\ i \notin 1..MaxJobs => Phases(after) = Phases(Maintained)
        /\ after[i].state = Maintained[i].state => Phases(after) = Phases(Maintained)
    BY <2>2, WrittenPhases
  <2>4. /\ i \in 1..MaxJobs =>
              /\ Phases(Maintained)[i] = Maintained[i].state
              /\ Phases(after) = [Phases(Maintained) EXCEPT ![i] = row.state]
        /\ i \notin 1..MaxJobs => Phases(after) = Phases(Maintained)
        /\ row.state = Maintained[i].state => Phases(after) = Phases(Maintained)
    BY <2>2, <2>3
  <2> QED
    BY <2>4 DEF after
\* A step of a client, or of a worker that changes only its lease: its
\* maintenance, and at most one move that needs no worker.
<1>c. ASSUME lease' = MaintainedLease \/ (~Lapsed /\ lease'.owner = lease.owner),
             \/ Phases(jobs') = Phases(Maintained)
             \/ \E j \in 1..MaxJobs :
                   \/ Phases(Maintained)[j] = "free"
                      /\ Phases(jobs') = [Phases(Maintained) EXCEPT ![j] = "queued"]
                   \/ Phases(Maintained)[j] = "queued"
                      /\ Phases(jobs') = [Phases(Maintained) EXCEPT ![j] = "cancelled"]
      PROVE  Queue!Next
  <2>1. \/ lease'.owner = lease.owner /\ Phases(Maintained) = Phases(jobs)
        \/ lease'.owner = NoOwner /\ Phases(Maintained) = Interruption(Phases(jobs))
    BY <1>c, <1>p
  <2>2. Queue!Client
    BY <1>c, <2>1, ClientMaps
  <2> QED
    BY <2>2 DEF Queue!Next
<1>1. ASSUME NEW h \in Handles, Open(h) \/ Close(h) PROVE UNCHANGED Queue!queueVars
  BY <1>1, StutterMaps DEF Open, Close, dbVars
<1>2. ASSUME NEW h \in Handles, Access(h) PROVE Queue!Next
  BY <1>2, <1>c DEF Access
<1>3. ASSUME NEW h \in Handles, NEW s \in Subjects, NEW k \in Keys, NEW p \in Prints,
             Submit(h, s, k, p)
      PROVE  Queue!Next
  <2> DEFINE n == Len(Maintained) + 1
  <2>1. NewRow(s, k, p) \in Row /\ NewRow(s, k, p).state = "queued"
    BY DEF NewRow, Row, States
  <2>2. jobs' = Append(Maintained, NewRow(s, k, p)) /\ lease' = MaintainedLease
    BY <1>3 DEF Submit
  <2>3. n \in 1..MaxJobs
    <3>1. Len(jobs) < MaxJobs /\ jobs \in Seq(Row)
      BY <1>3 DEF Submit, TypeOK
    <3>2. Len(Maintained) \in Nat /\ Len(jobs) \in Nat /\ 1..Len(Maintained) = 1..Len(jobs)
      BY <1>m, <3>1 DEF Ids
    <3>3. Len(Maintained) = Len(jobs)
      BY ONLY <3>2
    <3> QED
      BY <3>1, <3>2, <3>3, JobStoreAssumption
  <2>4. /\ DOMAIN jobs' = DOMAIN Maintained \cup {n} /\ n \notin DOMAIN Maintained
        /\ jobs'[n] = NewRow(s, k, p)
        /\ \A j \in DOMAIN Maintained : jobs'[j] = Maintained[j]
    BY <1>m, <2>1, <2>2
  <2>5. Phases(Maintained)[n] = "free"
    BY <2>3, <2>4 DEF Phases
  <2>6. Phases(jobs') = [Phases(Maintained) EXCEPT ![n] = "queued"]
    <3> HIDE DEF n
    <3> QED
      BY <2>1, <2>3, <2>4 DEF Phases
  <2> HIDE DEF n
  <2> QED
    BY <1>c, <2>2, <2>3, <2>5, <2>6
<1>4. ASSUME NEW h \in Handles, NEW s \in Subjects, NEW i \in Ids, Cancel(h, s, i)
      PROVE  Queue!Next
  <2> DEFINE asked == [Maintained[i] EXCEPT !.cancelRequested = TRUE]
             row == IF asked.state = "queued" THEN Ended(asked, "cancelled", FALSE)
                                              ELSE Classified(asked)
  <2>1. asked \in Row /\ asked.state = Maintained[i].state
    BY <1>m, WrittenRows DEF Row
  <2>2. /\ row \in Row
        /\ \/ row.state = Maintained[i].state
           \/ Maintained[i].state = "queued" /\ row.state = "cancelled"
    <3>1. CASE asked.state = "queued"
      <4>1. row = Ended(asked, "cancelled", FALSE)
        BY <3>1
      <4> HIDE DEF asked, row
      <4> QED
        BY <2>1, <3>1, <4>1, EndedRow
    <3>2. CASE asked.state # "queued"
      BY <2>1, <3>2, ClassifiedRow
    <3> QED
      BY <3>1, <3>2
  <2>3. jobs' = [Maintained EXCEPT ![i] = row] /\ lease' = MaintainedLease
    BY <1>4 DEF Cancel
  <2> HIDE DEF asked, row
  <2>4. /\ i \in 1..MaxJobs =>
              /\ Phases(Maintained)[i] = Maintained[i].state
              /\ Phases(jobs') = [Phases(Maintained) EXCEPT ![i] = row.state]
        /\ i \notin 1..MaxJobs => Phases(jobs') = Phases(Maintained)
        /\ row.state = Maintained[i].state => Phases(jobs') = Phases(Maintained)
    BY <1>w, <2>2, <2>3
  <2>5. CASE Phases(jobs') = Phases(Maintained)
    BY <1>c, <2>3, <2>5
  <2>6. CASE Phases(jobs') # Phases(Maintained)
    <3>1. i \in 1..MaxJobs /\ Maintained[i].state = "queued" /\ row.state = "cancelled"
      BY <2>2, <2>4, <2>6
    <3>2. /\ Phases(Maintained)[i] = "queued"
          /\ Phases(jobs') = [Phases(Maintained) EXCEPT ![i] = "cancelled"]
      BY <2>4, <3>1
    <3> QED
      BY <1>c, <2>3, <3>1, <3>2
  <2> QED
    BY <2>5, <2>6
<1>5. ASSUME NEW h \in Handles, NEW owner \in Owners, Acquire(h, owner) PROVE Queue!Next
  <2>1. /\ jobs' = Maintained /\ lease'.owner = owner /\ MaintainedLease = NoLease
    BY <1>5 DEF Acquire
  <2>2. Phases(jobs') = Interruption(Phases(jobs))
    <3>1. CASE Lapsed
      BY <1>p, <2>1, <3>1
    <3>2. CASE ~Lapsed
      <4>1. \A i \in DOMAIN jobs : jobs[i].state # "running"
        BY <2>1, <3>2 DEF MaintainedLease, RunningIsOwned, Ids
      <4> QED
        BY <1>p, <2>1, <3>2, <4>1, NothingToInterrupt
    <3> QED
      BY <3>1, <3>2
  <2> QED
    BY <2>1, <2>2, OwnerMaps DEF Queue!Next
<1>6. ASSUME NEW h \in Handles, NEW b \in Handles, NEW owner \in Owners,
             AcquireQuiet(h, b, owner)
      PROVE  Queue!Next
  <2>1. \A i \in DOMAIN jobs : jobs[i] \in Row /\ jobs[i].state # "running"
    <3>1. \A i \in Ids : jobs[i].state \in {"completed", "cancelled"}
      BY <1>6 DEF AcquireQuiet, Quiet
    <3>2. \A i \in DOMAIN jobs : jobs[i] \in Row
      BY DEF TypeOK
    <3> QED
      BY ONLY <3>1, <3>2 DEF Ids
  <2>2. /\ DOMAIN jobs' = DOMAIN jobs
        /\ \A i \in DOMAIN jobs : jobs'[i].state = jobs[i].state
    <3>1. CASE generation = 0
      <4>1. jobs' = [i \in Ids |-> [jobs[i] EXCEPT !.safe = TRUE]]
        BY <1>6, <3>1 DEF AcquireQuiet
      <4> QED
        BY <2>1, <4>1 DEF Row, Ids
    <3>2. CASE generation # 0
      BY <1>6, <3>2 DEF AcquireQuiet
    <3> QED
      BY <3>1, <3>2
  <2>3. Phases(jobs') = Phases(jobs)
    BY <2>2 DEF Phases
  <2>4. Phases(jobs') = Interruption(Phases(jobs))
    BY <2>1, <2>3, NothingToInterrupt
  <2>5. lease'.owner = owner
    BY <1>6 DEF AcquireQuiet
  <2> QED
    BY <2>4, <2>5, OwnerMaps DEF Queue!Next
<1>7. ASSUME NEW h \in Handles, NEW owner \in Owners, Renew(h, owner) PROVE Queue!Next
  <2>1. jobs' = Maintained /\ lease'.owner = lease.owner
    BY <1>7 DEF Renew, TypeOK
  <2>2. ~Lapsed
    BY <1>7, WorkerLease DEF Renew
  <2> QED
    BY <1>c, <2>1, <2>2
<1>8. ASSUME NEW h \in Handles, NEW owner \in Owners, Release(h, owner) PROVE Queue!Next
  <2>1. /\ jobs' = InterruptRunning(Maintained) /\ lease'.owner = NoOwner
    BY <1>8 DEF Release, NoLease
  <2>2. ~Lapsed /\ lease.owner # NoOwner
    BY <1>8, WorkerLease, JobStoreAssumption DEF Release, Worker, Holds
  <2>3. Phases(jobs') = Interruption(Phases(jobs))
    BY <1>m, <1>p, <2>1, <2>2, InterruptedPhases
  <2> QED
    BY <2>1, <2>2, <2>3, OwnerMaps DEF Queue!Next
\* A step of the worker on the row i: its lease is live, so nothing was lapsed.
<1>o. ASSUME NEW h \in Handles, NEW owner \in Owners, Worker(h, owner), lease' = lease,
             NEW i \in Ids, NEW row \in Row, jobs' = [Maintained EXCEPT ![i] = row],
             \/ row.state = Maintained[i].state
             \/ Maintained[i].state = "queued" /\ row.state \in {"running", "failed"}
             \/ Maintained[i].state = "running" /\ row.state \in Terminal
      PROVE  Queue!Next \/ UNCHANGED Queue!queueVars
  <2>1. Phases(Maintained) = Phases(jobs) /\ lease.owner # NoOwner
    <3>1. ~Lapsed /\ lease.owner # NoOwner
      BY <1>o, WorkerLease, JobStoreAssumption DEF Worker, Holds
    <3> QED
      BY <3>1, <1>p
  <2>2. CASE Phases(jobs') = Phases(Maintained)
    BY <1>o, <2>1, <2>2, StutterMaps
  <2>3. CASE i \in 1..MaxJobs /\ row.state # Maintained[i].state
    <3>1. /\ Phases(jobs)[i] = Maintained[i].state
          /\ Phases(jobs') = [Phases(jobs) EXCEPT ![i] = row.state]
      BY <1>o, <1>w, <2>1, <2>3
    <3>2. Queue!Operate
      BY <1>o, <2>1, <2>3, <3>1, OperateMaps
    <3> QED
      BY <3>2 DEF Queue!Next
  <2> QED
    BY <1>o, <1>w, <2>2, <2>3
<1>9. ASSUME NEW h \in Handles, NEW owner \in Owners, NEW i \in Ids, Start(h, owner, i)
      PROVE  Queue!Next \/ UNCHANGED Queue!queueVars
  <2> DEFINE row == Classified([Maintained[i] EXCEPT !.state = "running"])
  <2>1. [Maintained[i] EXCEPT !.state = "running"] \in Row
        /\ [Maintained[i] EXCEPT !.state = "running"].state = "running"
    BY <1>m DEF Row, States
  <2>2. row \in Row /\ row.state = "running"
    BY <2>1, ClassifiedRow
  <2>3. /\ Worker(h, owner) /\ lease' = lease /\ Maintained[i].state = "queued"
        /\ jobs' = [Maintained EXCEPT ![i] = row]
    BY <1>9 DEF Start
  <2> HIDE DEF row
  <2> QED
    BY <1>o, <2>2, <2>3
<1>10. ASSUME NEW h \in Handles, NEW owner \in Owners, NEW i \in Ids,
              NEW e \in DriverEvents, NEW n \in 1..(Len(jobs[i].log) + 1),
              AppendEvent(h, owner, i, n, e)
       PROVE  Queue!Next \/ UNCHANGED Queue!queueVars
  <2> DEFINE body == [Maintained[i] EXCEPT
                         !.log = Append(@, e),
                         !.state = ClosedState(e.type),
                         !.expires = IF e.type \in Closing THEN now + RetentionMs ELSE @]
             row == Classified(body)
  <2>1. row \in Row
    BY <1>m, WrittenRows
  <2>2. row.state = ClosedState(e.type)
    <3>1. row.state = body.state
      BY DEF Classified
    <3>2. body.state = ClosedState(e.type)
      BY <1>m DEF Row
    <3> QED
      BY <3>1, <3>2
  <2>3. row.state = "running" \/ row.state \in Terminal
    BY <2>2 DEF ClosedState, Terminal
  <2>4. /\ Worker(h, owner) /\ lease' = lease /\ Maintained[i].state = "running"
        /\ jobs' = [Maintained EXCEPT ![i] = row]
    BY <1>10 DEF AppendEvent, Appended
  <2> HIDE DEF row
  <2> QED
    BY <1>o, <2>1, <2>3, <2>4
<1>11. ASSUME NEW h \in Handles, NEW owner \in Owners, NEW i \in Ids, Fail(h, owner, i)
       PROVE  Queue!Next \/ UNCHANGED Queue!queueVars
  <2> DEFINE row == IF Maintained[i].state = "running"
                    THEN Ended(Maintained[i], "interrupted", TRUE)
                    ELSE Ended(Maintained[i], "failed", FALSE)
  <2>1. /\ Worker(h, owner) /\ lease' = lease
        /\ jobs' = [Maintained EXCEPT ![i] = row]
        /\ Maintained[i].state \in {"queued", "running"}
    BY <1>m, <1>11 DEF Fail, Row, States
  <2>2. /\ row \in Row
        /\ Maintained[i].state = "running" => row.state \in Terminal
        /\ Maintained[i].state = "queued" => row.state = "failed"
    BY <1>m, <2>1, EndedRow DEF Terminal
  <2> HIDE DEF row
  <2> QED
    BY <1>o, <2>1, <2>2
<1>12. ASSUME Tick \/ UNCHANGED vars PROVE UNCHANGED Queue!queueVars
  BY <1>12, StutterMaps DEF Tick, vars, dbVars
<1> QED
  BY <1>1, <1>2, <1>3, <1>4, <1>5, <1>6, <1>7, <1>8, <1>9, <1>10, <1>11, <1>12
     DEF Next, ClientStep, WorkerStep

\* The store keeps the promise of its interface (job-store.ts): one worker, one
\* start per job, no requeueing, final outcomes.
THEOREM StoreImplementsQueue == Spec => ImplementsJobQueue
<1>1. Init => Queue!Init
  BY DEF Init, Queue!Init, Ids, NoLease
<1> QED
  BY <1>1, QueueStep, TypeCorrect, RunningAlwaysOwned, PTL
     DEF Spec, ImplementsJobQueue, Queue!Spec

-----------------------------------------------------------------------------
(* The inductive invariant *)

Streams(w, i) == exec[w][i].at \in Streaming

Called(i) == Logged(i, "tool.called")
Completed(i) == Logged(i, "tool.completed")

\* OneExecutor, of one job.
Executor(i) ==
    \A v, w \in Services :
        Streams(w, i) =>
            /\ i \in Ids /\ jobs[i].state # "queued"
            /\ Streams(v, i) => v = w

\* Every effect has its call in the log, and a generator that stands before its
\* tool has one call more.
Counted(i) ==
    /\ effects[i] <= Called(i)
    /\ \A w \in Services : exec[w][i].at = "called" => effects[i] < Called(i)

\* What a generator at p will still say of e effects, d of them with a result in
\* the log: nothing is missing, the last result is on its way, or it closes the
\* run with an uncertain outcome.
Accounted(p, e, d) ==
    \/ e <= d
    \/ /\ e <= d + 1
       /\ \/ p.at = "acting"
          \/ p.at = "yielded" /\ p.event = "tool.completed"
    \/ p.at = "yielded" /\ p.uncertain /\ p.event \in Closing

Confirmed(i) ==
    i \in Ids /\ jobs[i].state = "running" =>
        \A w \in Services : Streams(w, i) => Accounted(exec[w][i], effects[i], Completed(i))

\* A job that ended over a generator that still streams it was interrupted, and
\* may have effects to come.
Doubted(i) ==
    i \in Ids /\ jobs[i].state \in Terminal =>
        \/ effects[i] <= Completed(i) /\ \A w \in Services : ~Streams(w, i)
        \/ IsUncertain(jobs[i])

JobInv(i) == Executor(i) /\ Counted(i) /\ Confirmed(i) /\ Doubted(i)

\* What the memory of a service knows of the store.
MemoryInv(w) ==
    /\ pumping[w].snapshot \subseteq Ids
    /\ \A i \in Slots :
          /\ exec[w][i].at # "none" => i \in Ids
          /\ exec[w][i].uncertain => exec[w][i].event \in {"run.failed", "run.cancelled"}
    /\ svc[w] \in {"draining", "closed"} => ~pumping[w].on /\ lease.owner # w
    /\ svc[w] = "closed" => ActiveJobs(w) = {}

ServiceInv ==
    /\ ServiceTypeOK /\ StoryInv
    /\ generation = 0 /\ Len(jobs) <= MaxJobs
    /\ \A w \in Services : MemoryInv(w)
    /\ \A i \in Slots : JobInv(i)

-----------------------------------------------------------------------------
(* The order in which the pump looks at queued jobs *)

\* A finite set with a strict total order can be lined up: everyone stands behind
\* as many as come before it.
LEMMA LineExists ==
    ASSUME NEW S, IsFiniteSet(S), NEW R,
           \A x \in S : <<x, x>> \notin R,
           \A x, y \in S : x # y => <<x, y>> \in R \/ <<y, x>> \in R,
           \A x, y, z \in S : <<x, y>> \in R /\ <<y, z>> \in R => <<x, z>> \in R
    PROVE  \E line \in [1..Cardinality(S) -> S] :
              \A m, n \in 1..Cardinality(S) : m < n => <<line[m], line[n]>> \in R
<1> DEFINE N == Cardinality(S)
           ahead(x) == {y \in S : <<y, x>> \in R}
           place == [x \in S |-> Cardinality(ahead(x)) + 1]
<1>1. N \in Nat
  BY FS_CardinalityType
<1>2. ASSUME NEW x \in S
      PROVE  /\ IsFiniteSet(ahead(x)) /\ Cardinality(ahead(x)) \in Nat
             /\ Cardinality(ahead(x)) < N
  <2>1. ahead(x) \in SUBSET S /\ ahead(x) # S
    OBVIOUS
  <2> HIDE DEF ahead
  <2>2. /\ IsFiniteSet(ahead(x)) /\ Cardinality(ahead(x)) <= N
        /\ N = Cardinality(ahead(x)) => S = ahead(x)
    BY <2>1, FS_Subset
  <2>3. Cardinality(ahead(x)) \in Nat
    BY <2>2, FS_CardinalityType
  <2> HIDE DEF N
  <2> QED
    BY <1>1, <2>1, <2>2, <2>3
<1>3. ASSUME NEW x \in S, NEW y \in S, <<x, y>> \in R
      PROVE  Cardinality(ahead(x)) < Cardinality(ahead(y))
  <2>1. ahead(x) \in SUBSET ahead(y) /\ x \in ahead(y) /\ x \notin ahead(x)
    BY <1>3
  <2>2. IsFiniteSet(ahead(y)) /\ Cardinality(ahead(x)) \in Nat /\ Cardinality(ahead(y)) \in Nat
    BY <1>2
  <2> HIDE DEF ahead
  <2>3. /\ Cardinality(ahead(x)) <= Cardinality(ahead(y))
        /\ Cardinality(ahead(y)) = Cardinality(ahead(x)) => ahead(y) = ahead(x)
    BY <2>1, <2>2, FS_Subset
  <2> QED
    BY <2>1, <2>2, <2>3
<1>4. /\ place \in [S -> 1..N]
      /\ \A x, y \in S : <<x, y>> \in R => place[x] < place[y]
  <2>1. \A x \in S : Cardinality(ahead(x)) + 1 \in 1..N
    <3> HIDE DEF ahead, N
    <3> QED
      BY <1>1, <1>2
  <2>2. \A x, y \in S : <<x, y>> \in R => Cardinality(ahead(x)) + 1 < Cardinality(ahead(y)) + 1
    <3> HIDE DEF ahead
    <3> QED
      BY <1>2, <1>3
  <2> QED
    BY <2>1, <2>2
<1>5. \A x \in S : place[x] \in Nat
  BY <1>1, <1>4
<1> HIDE DEF place
<1>6. place \in Injection(S, 1..N)
  <2>1. ASSUME NEW x \in S, NEW y \in S, place[x] = place[y], x # y PROVE FALSE
    <3>1. <<x, y>> \in R \/ <<y, x>> \in R
      BY <2>1
    <3>2. place[x] < place[y] \/ place[y] < place[x]
      BY <1>4, <3>1
    <3> QED
      BY <1>5, <2>1, <3>2
  <2> QED
    BY <1>4, <2>1 DEF Injection, IsInjective
<1>7. IsFiniteSet(1..N) /\ Cardinality(1..N) = N
  <2> HIDE DEF N
  <2> QED
    BY <1>1, IntervalSize
<1>8. place \in Surjection(S, 1..N)
  BY <1>6, <1>7, FS_Injection
<1>9. \A n \in 1..N : \E x \in S : place[x] = n
  BY <1>8 DEF Surjection
<1> DEFINE line == [n \in 1..N |-> CHOOSE x \in S : place[x] = n]
<1>10. /\ line \in [1..N -> S]
       /\ \A n \in 1..N : place[line[n]] = n
  BY <1>9
<1> HIDE DEF line
<1>11. ASSUME NEW m \in 1..N, NEW n \in 1..N, m < n PROVE <<line[m], line[n]>> \in R
  <2>1. line[m] \in S /\ line[n] \in S /\ place[line[m]] = m /\ place[line[n]] = n
    BY <1>10
  <2>2. line[m] # line[n] /\ ~(<<line[n], line[m]>> \in R)
    BY <1>4, <1>1, <1>11, <2>1
  <2> QED
    BY <2>1, <2>2
<1> QED
  BY <1>10, <1>11

\* The candidates are the idle jobs of the snapshot.
LEMMA CandidatesAreIdle ==
    ASSUME NEW w \in Services, pumping[w].snapshot \subseteq Slots
    PROVE  LET idle == pumping[w].snapshot \ ActiveJobs(w) IN
           Cardinality(idle) \in Nat /\ Candidates(w) \in [1..Cardinality(idle) -> idle]
<1> DEFINE idle == pumping[w].snapshot \ ActiveJobs(w)
           of(i) == {j \in idle : jobs[j].subject = jobs[i].subject}
           turn(i) == Cardinality({j \in of(i) : j < i})
           before(i, j) == \/ turn(i) < turn(j)
                           \/ turn(i) = turn(j) /\ Min(of(i)) < Min(of(j))
           R == {p \in idle \X idle : before(p[1], p[2])}
<1>1. MaxJobs \in Nat /\ idle \subseteq 1..MaxJobs
  BY JobStoreAssumption DEF Slots
<1>2. IsFiniteSet(idle) /\ Cardinality(idle) \in Nat
  <2> HIDE DEF idle
  <2>1. IsFiniteSet(1..MaxJobs)
    BY <1>1, FS_Interval
  <2> QED
    BY <1>1, <2>1, FS_Subset, FS_CardinalityType
<1>3. ASSUME NEW i \in idle
      PROVE  turn(i) \in Nat /\ Min(of(i)) \in of(i) /\ \A j \in of(i) : Min(of(i)) <= j
  <2>1. i \in of(i) /\ of(i) \in SUBSET (0..MaxJobs)
    BY <1>1
  <2>2. {j \in of(i) : j < i} \in SUBSET idle
    OBVIOUS
  <2>3. turn(i) \in Nat
    <3> HIDE DEF idle, of
    <3> QED
      BY <1>2, <2>2, FS_Subset, FS_CardinalityType
  <2>4. \E x \in of(i) : \A y \in of(i) : x <= y
    <3> HIDE DEF of
    <3> QED
      BY <1>1, <2>1, LeastNumber
  <2> HIDE DEF of, turn
  <2> QED
    BY <2>3, <2>4 DEF Min
<1>4. \A i \in idle : Min(of(i)) \in Nat
  <2>1. \A i \in idle : of(i) \subseteq idle /\ Min(of(i)) \in of(i)
    BY <1>3
  <2>2. idle \subseteq Nat
    BY <1>1
  <2> HIDE DEF of, idle
  <2> QED
    BY <2>1, <2>2
<1>5. ASSUME NEW i \in idle, NEW j \in idle, i # j, Min(of(i)) = Min(of(j))
      PROVE  turn(i) # turn(j)
  <2>1. of(i) = of(j) /\ i \in of(i) /\ j \in of(i)
    <3>1. jobs[Min(of(i))].subject = jobs[i].subject /\ jobs[Min(of(j))].subject = jobs[j].subject
      BY <1>3
    <3>2. jobs[i].subject = jobs[j].subject
      BY <1>5, <3>1
    <3> QED
      BY <3>2
  <2>2. ASSUME NEW a \in of(i), NEW b \in of(i), a < b
        PROVE  Cardinality({k \in of(i) : k < a}) # Cardinality({k \in of(i) : k < b})
    <3> DEFINE A == {k \in of(i) : k < a}
               B == {k \in of(i) : k < b}
    <3>1. of(i) \subseteq 1..MaxJobs /\ of(i) \in SUBSET idle
      BY <1>1
    <3> HIDE DEF of
    <3>2. A \in SUBSET B /\ a \in B /\ a \notin A /\ B \in SUBSET idle
      BY <1>1, <2>2, <3>1
    <3> HIDE DEF A, B, idle
    <3>3. IsFiniteSet(B)
      BY <1>2, <3>2, FS_Subset
    <3>4. Cardinality(B) = Cardinality(A) => B = A
      BY <3>2, <3>3, FS_Subset
    <3> QED
      BY <3>2, <3>4 DEF A, B
  <2>3. i < j \/ j < i
    BY <1>1, <1>5
  <2> QED
    BY <2>1, <2>2, <2>3
<1>6. /\ \A x \in idle : <<x, x>> \notin R
      /\ \A x, y \in idle : <<x, y>> \in R <=> before(x, y)
  <2>1. \A x, y \in idle : <<x, y>> \in R <=> before(x, y)
    <3> HIDE DEF before, idle
    <3> QED
      OBVIOUS
  <2>2. \A x \in idle : ~before(x, x)
    <3> HIDE DEF of, turn, idle
    <3> QED
      BY <1>3, <1>4
  <2> HIDE DEF R, before, idle
  <2> QED
    BY <2>1, <2>2
<1>7. \A x, y \in idle : x # y => before(x, y) \/ before(y, x)
  <2> HIDE DEF of, turn, idle
  <2> QED
    BY <1>3, <1>4, <1>5
<1>8. \A x, y, z \in idle : before(x, y) /\ before(y, z) => before(x, z)
  <2> SUFFICES ASSUME NEW x \in idle, NEW y \in idle, NEW z \in idle,
                      before(x, y), before(y, z)
               PROVE  before(x, z)
    BY ZenonT(30)
  <2> HIDE DEF of, turn, idle
  <2>1. /\ turn(x) \in Nat /\ turn(y) \in Nat /\ turn(z) \in Nat
        /\ Min(of(x)) \in Nat /\ Min(of(y)) \in Nat /\ Min(of(z)) \in Nat
    BY <1>3, <1>4
  <2> QED
    BY <2>1
<1> HIDE DEF R
<1>9. \E line \in [1..Cardinality(idle) -> idle] :
         \A m, n \in 1..Cardinality(idle) : m < n => before(line[m], line[n])
  <2> HIDE DEF before, idle
  <2>1. PICK line \in [1..Cardinality(idle) -> idle] :
           \A m, n \in 1..Cardinality(idle) : m < n => <<line[m], line[n]>> \in R
    BY <1>2, <1>6, <1>7, <1>8, LineExists
  <2>2. \A m, n \in 1..Cardinality(idle) : m < n => before(line[m], line[n])
    BY <1>6, <2>1
  <2> QED
    BY <2>2
<1>10. Candidates(w) = CHOOSE line \in [1..Cardinality(idle) -> idle] :
          \A m, n \in 1..Cardinality(idle) : m < n => before(line[m], line[n])
  BY DEF Candidates
<1> HIDE DEF idle, before
<1>11. Candidates(w) \in [1..Cardinality(idle) -> idle]
  BY <1>9, <1>10
<1> QED
  BY <1>2, <1>11 DEF idle

LEMMA RotatedLine ==
    ASSUME NEW S, NEW s \in Seq(S), NEW last
    PROVE  Rotation(s, last) \in Seq(S)
<1> DEFINE offset == IF last \in ToSet(s) THEN CHOOSE n \in DOMAIN s : s[n] = last ELSE 0
<1>1. offset \in 0..Len(s)
  BY DEF ToSet
<1> HIDE DEF offset
<1>2. SubSeq(s, offset + 1, Len(s)) \in Seq(S) /\ SubSeq(s, 1, offset) \in Seq(S)
  BY <1>1
<1>3. Rotation(s, last) = SubSeq(s, offset + 1, Len(s)) \o SubSeq(s, 1, offset)
  BY DEF Rotation, offset
<1> QED
  BY SMTT(20), <1>2, <1>3

LEMMA FrontOfLine ==
    ASSUME NEW S, NEW s \in Seq(S), NEW n \in 0..Len(s)
    PROVE  /\ ToSet(SubSeq(s, 1, n)) \subseteq S
           /\ SubSeq(s, 1, n) # <<>> => Last(SubSeq(s, 1, n)) \in S
<1> DEFINE t == SubSeq(s, 1, n)
<1>1. t \in Seq(S)
  OBVIOUS
<1> HIDE DEF t
<1>2. ToSet(t) \subseteq S
  BY <1>1 DEF ToSet
<1>3. t # <<>> => Last(t) \in S
  BY <1>1 DEF Last
<1> QED
  BY <1>2, <1>3 DEF t

LEMMA MinOfTwo ==
    ASSUME NEW a \in Nat, NEW b \in Nat
    PROVE  Min({a, b}) \in {a, b} /\ Min({a, b}) <= a /\ Min({a, b}) <= b
<1>1. \E x \in {a, b} : \A y \in {a, b} : x <= y
  OBVIOUS
<1> QED
  BY <1>1 DEF Min

\* The pump executes only idle jobs of its snapshot.
LEMMA ChosenAreIdle ==
    ASSUME NEW w \in Services, pumping[w].snapshot \subseteq Slots
    PROVE  LET line   == Rotation(Candidates(w), pumping[w].last)
               chosen == SubSeq(line, 1, Min({Room(w), Len(line)}))
               idle   == pumping[w].snapshot \ ActiveJobs(w)
           IN  /\ ToSet(chosen) \subseteq idle
               /\ chosen # <<>> => Last(chosen) \in idle
<1> DEFINE idle == pumping[w].snapshot \ ActiveJobs(w)
           line == Rotation(Candidates(w), pumping[w].last)
<1>1. Cardinality(idle) \in Nat /\ Candidates(w) \in [1..Cardinality(idle) -> idle]
  BY CandidatesAreIdle
<1> HIDE DEF idle
<1>2. Candidates(w) \in Seq(idle)
  BY <1>1
<1>3. line \in Seq(idle) /\ Len(line) \in Nat
  BY <1>2, RotatedLine
<1>4. Room(w) \in Nat
  <2>1. MaxJobs \in Nat /\ MaxWorkers \in Nat
    BY JobStoreAssumption, JobServiceAssumption
  <2>2. IsFiniteSet(1..MaxJobs)
    BY <2>1, IntervalSize
  <2>3. ActiveJobs(w) \in SUBSET (1..MaxJobs)
    BY DEF ActiveJobs, Slots
  <2>4. Cardinality(ActiveJobs(w)) \in Nat
    BY <2>2, <2>3, FS_Subset, FS_CardinalityType
  <2> QED
    BY <2>1, <2>4 DEF Room
<1> HIDE DEF line
<1>5. Min({Room(w), Len(line)}) \in 0..Len(line)
  BY SMTT(20), <1>3, <1>4, MinOfTwo
<1>6. /\ ToSet(SubSeq(line, 1, Min({Room(w), Len(line)}))) \subseteq idle
      /\ SubSeq(line, 1, Min({Room(w), Len(line)})) # <<>> =>
            Last(SubSeq(line, 1, Min({Room(w), Len(line)}))) \in idle
  BY <1>3, <1>5, FrontOfLine
<1> QED
  BY <1>6 DEF idle, line

-----------------------------------------------------------------------------
(* What a transaction does to the rows it is not about *)

\* A row keeps its log and state, or is interrupted, or ends before it started;
\* or it is a new row.
Aside(i) ==
    IF i \in Ids
    THEN /\ i \in DOMAIN jobs'
         /\ \/ jobs'[i].log = jobs[i].log /\ jobs'[i].state = jobs[i].state
            \/ jobs'[i].state = "interrupted"
            \/ jobs[i].state = "queued" /\ jobs'[i].state \in Terminal
    ELSE i \in DOMAIN jobs' => jobs'[i].state = "queued"

LEMMA MaintainedAside ==
    ASSUME StoryInv, NEW i, DOMAIN jobs' = Ids,
           i \in Ids => \/ jobs'[i] = jobs[i]
                        \/ jobs'[i] = Maintained[i]
                        \/ jobs'[i] = InterruptRunning(Maintained)[i]
    PROVE  Aside(i)
<1>1. CASE i \notin Ids
  BY <1>1 DEF Aside
<1>2. CASE i \in Ids
  <2>1. /\ Maintained \in Seq(Row) /\ DOMAIN Maintained = Ids /\ Maintained[i] \in Row
        /\ jobs[i] \in Row /\ TypeOK
    BY <1>2, MaintainedRow, MaintainedRows, RowsOfTable DEF StoryInv, TypeOK, Ids
  <2>2. \/ Maintained[i].log = jobs[i].log /\ Maintained[i].state = jobs[i].state
        \/ Maintained[i].state = "interrupted"
    BY <1>2, <2>1, MaintainedStories
  <2>3. \/ InterruptRunning(Maintained)[i] = Maintained[i]
        \/ InterruptRunning(Maintained)[i].state = "interrupted"
    BY <1>2, <2>1, EndedRow DEF InterruptRunning
  <2> QED
    BY <1>2, <2>2, <2>3 DEF Aside
<1> QED
  BY <1>1, <1>2

\* Transactions of maintenance alone, and steps that do not touch the tables.
LEMMA AccessAside ==
    ASSUME StoryInv, NEW i,
           \/ jobs' = jobs
           \/ jobs' = Maintained
           \/ jobs' = InterruptRunning(Maintained)
    PROVE  Aside(i)
<1>1. DOMAIN Maintained = Ids /\ Maintained \in Seq(Row) /\ TypeOK
  BY MaintainedRows DEF StoryInv
<1>2. DOMAIN jobs' = Ids
  BY <1>1, InterruptRunningRows DEF Ids
<1> QED
  BY <1>2, MaintainedAside

LEMMA OthersAside ==
    ASSUME StoryInv, NEW k \in Ids, NEW row, jobs' = [Maintained EXCEPT ![k] = row],
           NEW i, i # k
    PROVE  Aside(i)
<1>1. DOMAIN Maintained = Ids
  BY MaintainedRows DEF StoryInv
<1>2. DOMAIN jobs' = Ids /\ (i \in Ids => jobs'[i] = Maintained[i])
  BY <1>1
<1> QED
  BY <1>2, MaintainedAside

LEMMA SubmitAside ==
    ASSUME StoryInv, NEW h, NEW s \in Subjects, NEW k \in Keys, NEW p \in Prints,
           Submit(h, s, k, p), NEW i
    PROVE  Aside(i)
<1>1. /\ Maintained \in Seq(Row) /\ DOMAIN Maintained = Ids
      /\ jobs' = Append(Maintained, NewRow(s, k, p))
  BY MaintainedRows DEF StoryInv, Submit
<1>2. /\ \A j \in Ids : j \in DOMAIN jobs' /\ jobs'[j] = Maintained[j]
      /\ \A j \in DOMAIN jobs' : j \notin Ids => jobs'[j] = NewRow(s, k, p)
  BY <1>1
<1>3. CASE i \notin Ids
  BY <1>2, <1>3 DEF Aside, NewRow
<1>4. CASE i \in Ids
  <2>1. \/ Maintained[i].log = jobs[i].log /\ Maintained[i].state = jobs[i].state
        \/ Maintained[i].state = "interrupted"
    BY <1>4, MaintainedStories DEF StoryInv
  <2> QED
    BY <1>2, <1>4, <2>1 DEF Aside
<1> QED
  BY <1>3, <1>4

\* fail and cancel end a job that has not started, and fail interrupts one that has.
LEMMA FailAside ==
    ASSUME StoryInv, NEW h, NEW owner, NEW k \in Ids, Fail(h, owner, k), NEW i
    PROVE  Aside(i)
<1> DEFINE row == Maintained[k]
           new == IF row.state = "running" THEN Ended(row, "interrupted", TRUE)
                                           ELSE Ended(row, "failed", FALSE)
<1>1. /\ row \in Row /\ row.state \notin Terminal /\ TypeOK
      /\ DOMAIN Maintained = Ids /\ jobs' = [Maintained EXCEPT ![k] = new]
  BY MaintainedRow, MaintainedRows DEF Fail, StoryInv
<1>2. /\ row.state = "running" => new.state = "interrupted"
      /\ row.state # "running" => new.state = "failed"
  <2> HIDE DEF row
  <2> QED
    BY <1>1, EndedRow
<1> HIDE DEF new
<1>3. CASE i # k
  BY <1>1, <1>3, OthersAside
<1>4. CASE i = k
  <2>1. jobs'[k] = new /\ k \in DOMAIN jobs'
    BY <1>1
  <2>2. row.state = jobs[k].state
    BY <1>1, MaintainedStories DEF Terminal
  <2>3. row.state \in {"queued", "running"}
    BY <1>1 DEF Row, States
  <2> QED
    BY <1>2, <1>4, <2>1, <2>2, <2>3 DEF Aside, Terminal
<1> QED
  BY <1>3, <1>4

LEMMA CancelAside ==
    ASSUME StoryInv, NEW h, NEW s, NEW k \in Ids, Cancel(h, s, k), NEW i
    PROVE  Aside(i)
<1> DEFINE row == Maintained[k]
           asked == [row EXCEPT !.cancelRequested = TRUE]
           new == IF asked.state = "queued" THEN Ended(asked, "cancelled", FALSE)
                                            ELSE Classified(asked)
<1>1. /\ row \in Row /\ row.state \notin Terminal /\ TypeOK
      /\ DOMAIN Maintained = Ids /\ jobs' = [Maintained EXCEPT ![k] = new]
  BY MaintainedRow, MaintainedRows DEF Cancel, StoryInv
<1>2. asked \in Row /\ asked.state = row.state /\ asked.log = row.log
  BY <1>1 DEF Row
<1>3. /\ row.state = "queued" => new.state = "cancelled"
      /\ row.state # "queued" => new.state = row.state /\ new.log = row.log
  <2> HIDE DEF row, asked
  <2>1. Ended(asked, "cancelled", FALSE).state = "cancelled"
    BY <1>1, <1>2, EndedRow
  <2>2. Classified(asked).state = asked.state /\ Classified(asked).log = asked.log
    BY <1>2, ClassifiedFields
  <2> QED
    BY <1>2, <2>1, <2>2
<1> HIDE DEF new
<1>4. CASE i # k
  BY <1>1, <1>4, OthersAside
<1>5. CASE i = k
  <2>1. jobs'[k] = new /\ k \in DOMAIN jobs'
    BY <1>1
  <2>2. row.state = jobs[k].state /\ row.log = jobs[k].log
    BY <1>1, MaintainedStories DEF Terminal
  <2> QED
    BY <1>3, <1>5, <2>1, <2>2 DEF Aside, Terminal
<1> QED
  BY <1>4, <1>5

-----------------------------------------------------------------------------
(* What a worker's transaction does to the row it is about *)

LEMMA StartedRow ==
    ASSUME StoryInv, NEW h, NEW owner, NEW k \in Ids, Start(h, owner, k)
    PROVE  /\ jobs[k].state = "queued" /\ jobs[k].log = <<>>
           /\ k \in DOMAIN jobs' /\ jobs'[k].state = "running" /\ jobs'[k].log = <<>>
           /\ \A i : i # k => Aside(i)
<1> DEFINE row == Maintained[k]
           started == [row EXCEPT !.state = "running"]
           new == Classified(started)
<1>1. /\ row \in Row /\ row.state = "queued" /\ Told(row)
      /\ DOMAIN Maintained = Ids /\ jobs' = [Maintained EXCEPT ![k] = new] /\ TypeOK
  BY MaintainedRow, MaintainedRows DEF Start, StoryInv
<1>2. started \in Row /\ started.state = "running" /\ started.log = row.log
  BY <1>1 DEF Row, States
<1>3. row.log = <<>> /\ row.log = jobs[k].log /\ row.state = jobs[k].state
  BY <1>1, MaintainedStories DEF Told
<1> HIDE DEF row, started
<1>4. new.state = "running" /\ new.log = row.log
  BY <1>2, ClassifiedFields
<1> HIDE DEF new
<1>5. jobs'[k] = new /\ k \in DOMAIN jobs'
  BY <1>1
<1>6. \A i : i # k => Aside(i)
  BY <1>1, OthersAside
<1> QED
  BY <1>1, <1>3, <1>4, <1>5, <1>6

LEMMA AppendedTo ==
    ASSUME StoryInv, NEW h, NEW owner, NEW k \in Ids, NEW n, NEW e \in DriverEvents,
           AppendEvent(h, owner, k, n, e)
    PROVE  /\ jobs[k].state = "running"
           /\ k \in DOMAIN jobs' /\ jobs'[k].state = ClosedState(e.type)
           /\ jobs'[k].log = Append(jobs[k].log, e)
           /\ \A i : i # k => Aside(i)
<1> DEFINE row == Maintained[k]
           log == Append(row.log, e)
           expires == IF e.type \in Closing THEN now + RetentionMs ELSE row.expires
           body == [row EXCEPT !.log = Append(@, e), !.state = ClosedState(e.type),
                               !.expires = IF e.type \in Closing THEN now + RetentionMs ELSE @]
           new == Classified(body)
<1>1. /\ row \in Row /\ row.state = "running" /\ TypeOK
      /\ DOMAIN Maintained = Ids /\ jobs' = [Maintained EXCEPT ![k] = new]
  BY MaintainedRow, MaintainedRows DEF AppendEvent, Appended, StoryInv
<1>2. body = [row EXCEPT !.log = log, !.state = ClosedState(e.type), !.expires = expires]
  OBVIOUS
<1>3. log \in Seq(Event) /\ ClosedState(e.type) \in States /\ expires \in Nat
  <2>1. row.log \in Seq(Event) /\ e \in Event /\ row.expires \in Nat /\ now \in Nat
    BY <1>1 DEF Row, DriverEvents, TypeOK
  <2>2. ClosedState(e.type) \in {"completed", "cancelled", "failed", "running"}
    BY DEF ClosedState
  <2> QED
    BY <2>1, <2>2, JobStoreAssumption DEF States, Terminal
<1>4. row.log = jobs[k].log /\ row.state = jobs[k].state
  BY <1>1, MaintainedStories
<1> HIDE DEF row, log, expires, body
<1>5. body \in Row /\ body.log = log /\ body.state = ClosedState(e.type)
  BY <1>1, <1>2, <1>3 DEF Row
<1>6. new.state = ClosedState(e.type) /\ new.log = log
  BY <1>5, ClassifiedFields
<1> HIDE DEF new
<1>7. jobs'[k] = new /\ k \in DOMAIN jobs'
  BY <1>1
<1>8. \A i : i # k => Aside(i)
  BY <1>1, OthersAside
<1> QED
  BY <1>1, <1>4, <1>6, <1>7, <1>8 DEF log

-----------------------------------------------------------------------------
(* Counting events *)

Count(log, type) == Cardinality({n \in DOMAIN log : log[n].type = type})

LEMMA LoggedIsCount ==
    ASSUME NEW i, NEW type
    PROVE  Logged(i, type) = IF i \in Ids THEN Count(jobs[i].log, type) ELSE 0
BY DEF Logged, Count

LEMMA CountType ==
    ASSUME NEW log \in Seq(Event), NEW type
    PROVE  /\ IsFiniteSet({n \in DOMAIN log : log[n].type = type})
           /\ Count(log, type) \in Nat
<1> DEFINE N == {n \in DOMAIN log : log[n].type = type}
<1>1. N \in SUBSET (1..Len(log)) /\ Len(log) \in Nat
  OBVIOUS
<1> HIDE DEF N
<1>2. IsFiniteSet(1..Len(log))
  BY <1>1, FS_Interval
<1>3. IsFiniteSet(N) /\ Cardinality(N) \in Nat
  BY <1>1, <1>2, FS_Subset, FS_CardinalityType
<1> QED
  BY <1>3 DEF N, Count

\* A longer log counts no less.
LEMMA CountGrows ==
    ASSUME NEW old \in Seq(Event), NEW new \in Seq(Event), NEW type,
           Len(old) <= Len(new), \A n \in 1..Len(old) : new[n] = old[n]
    PROVE  Count(old, type) <= Count(new, type)
<1> DEFINE O == {n \in DOMAIN old : old[n].type = type}
           N == {n \in DOMAIN new : new[n].type = type}
<1>1. O \in SUBSET N
  OBVIOUS
<1>2. IsFiniteSet(N)
  BY CountType
<1> HIDE DEF O, N
<1>3. Cardinality(O) <= Cardinality(N)
  BY <1>1, <1>2, FS_Subset
<1> QED
  BY <1>3 DEF Count, O, N

LEMMA CountAppended ==
    ASSUME NEW log \in Seq(Event), NEW e \in Event, NEW type
    PROVE  Count(Append(log, e), type) =
               IF e.type = type THEN Count(log, type) + 1 ELSE Count(log, type)
<1> DEFINE O == {n \in DOMAIN log : log[n].type = type}
           more == Append(log, e)
           N == {n \in DOMAIN more : more[n].type = type}
           last == Len(log) + 1
<1>1. /\ Len(log) \in Nat /\ DOMAIN log = 1..Len(log)
      /\ DOMAIN more = 1..last /\ more[last] = e
      /\ \A n \in 1..Len(log) : more[n] = log[n]
  OBVIOUS
<1>2. IsFiniteSet(O) /\ last \notin O
  <2>1. IsFiniteSet(O)
    BY CountType
  <2>2. last \notin 1..Len(log)
    BY <1>1
  <2> QED
    BY <1>1, <2>1, <2>2
<1> HIDE DEF more
<1>3. CASE e.type = type
  <2>1. N = O \cup {last}
    BY <1>1, <1>3
  <2> HIDE DEF O, N, last
  <2> QED
    BY <1>2, <1>3, <2>1, FS_AddElement DEF Count, O, N, more
<1>4. CASE e.type # type
  <2>1. N = O
    BY <1>1, <1>4
  <2> QED
    BY <1>4, <2>1 DEF Count, more
<1> QED
  BY <1>3, <1>4

LEMMA CountNothing == ASSUME NEW type PROVE Count(<<>>, type) = 0
<1>1. {n \in DOMAIN <<>> : <<>>[n].type = type} = {}
  OBVIOUS
<1> QED
  BY <1>1, FS_EmptySet DEF Count

\* Over a step of the store no count of any job goes back.
LEMMA LoggedGrows ==
    ASSUME StoryInv, TypeOK', Continues, NEW i, NEW type
    PROVE  /\ Logged(i, type) \in Nat /\ Logged(i, type)' \in Nat
           /\ Logged(i, type) <= Logged(i, type)'
<1>1. /\ i \in Ids => jobs[i].log \in Seq(Event)
      /\ i \in DOMAIN jobs' => jobs'[i].log \in Seq(Event)
  BY RowsOfTable DEF StoryInv, TypeOK, Ids, Row
<1>2. /\ Logged(i, type) = IF i \in Ids THEN Count(jobs[i].log, type) ELSE 0
      /\ Logged(i, type)' = IF i \in DOMAIN jobs' THEN Count(jobs'[i].log, type) ELSE 0
  BY DEF Logged, Count, Ids
<1>3. i \in Ids => /\ i \in DOMAIN jobs'
                   /\ Len(jobs[i].log) <= Len(jobs'[i].log)
                   /\ \A n \in 1..Len(jobs[i].log) : jobs'[i].log[n] = jobs[i].log[n]
  BY DEF Continues, Follows
<1>4. i \in Ids => Count(jobs[i].log, type) <= Count(jobs'[i].log, type)
  BY <1>1, <1>3, CountGrows
<1>5. /\ i \in Ids => Count(jobs[i].log, type) \in Nat
      /\ i \in DOMAIN jobs' => Count(jobs'[i].log, type) \in Nat
  BY <1>1, CountType
<1> QED
  BY <1>2, <1>3, <1>4, <1>5

-----------------------------------------------------------------------------
(* The invariant of one job *)

\* The execution stands where it stood, or streams no longer.
Calm(w, i) ==
    \/ /\ exec'[w][i].at = exec[w][i].at
       /\ exec'[w][i].event = exec[w][i].event
       /\ exec'[w][i].uncertain = exec[w][i].uncertain
    \/ exec'[w][i].at \notin Streaming

\* What every step gives the proofs about a job.
Moves(i) ==
    /\ StoryInv /\ StoryInv' /\ Continues
    /\ i \in Slots /\ effects[i] \in Nat /\ JobInv(i)

LEMMA CountsMove ==
    ASSUME NEW i, Moves(i)
    PROVE  /\ Called(i) \in Nat /\ Called(i)' \in Nat /\ Called(i) <= Called(i)'
           /\ Completed(i) \in Nat /\ Completed(i)' \in Nat /\ Completed(i) <= Completed(i)'
BY LoggedGrows DEF Moves, StoryInv, Called, Completed

\* A job whose executions stay calm, while others use the store.
LEMMA CalmJob ==
    ASSUME NEW i, Moves(i), Aside(i), effects'[i] = effects[i],
           \A w \in Services : Calm(w, i)
    PROVE  JobInv(i)'
<1> DEFINE e == effects[i]
           c == Called(i)
           d == Completed(i)
           cc == Called(i)'
           dd == Completed(i)'
<1>1. e \in Nat /\ c \in Nat /\ cc \in Nat /\ c <= cc /\ d \in Nat /\ dd \in Nat /\ d <= dd
  BY CountsMove DEF Moves
<1>2. Executor(i) /\ Counted(i) /\ Confirmed(i) /\ Doubted(i)
  BY DEF Moves, JobInv
<1>3. \A w \in Services : Streams(w, i)' =>
         /\ Streams(w, i) /\ exec'[w][i].at = exec[w][i].at
         /\ exec'[w][i].event = exec[w][i].event
         /\ exec'[w][i].uncertain = exec[w][i].uncertain
  BY DEF Calm, Streams
<1>4. i \in Ids => i \in DOMAIN jobs' /\ (jobs[i].state # "queued" => jobs'[i].state # "queued")
  BY DEF Moves, Continues, Follows
<1>5. Executor(i)'
  BY <1>2, <1>3, <1>4 DEF Executor, Ids
<1>6. Counted(i)'
  <2>1. e <= c /\ \A w \in Services : exec[w][i].at = "called" => e < c
    BY <1>2 DEF Counted
  <2>2. \A w \in Services : exec'[w][i].at = "called" => exec[w][i].at = "called"
    BY <1>3 DEF Streams, Streaming
  <2>3. e <= cc /\ \A w \in Services : exec'[w][i].at = "called" => e < cc
    <3> HIDE DEF e, c, cc
    <3> QED
      BY <1>1, <2>1, <2>2
  <2> QED
    BY <2>3 DEF Counted
<1>7. Confirmed(i)'
  <2> SUFFICES ASSUME i \in DOMAIN jobs', jobs'[i].state = "running",
                      NEW w \in Services, Streams(w, i)'
               PROVE  Accounted(exec'[w][i], e, dd)
    BY DEF Confirmed, Ids
  <2>1. i \in Ids /\ jobs[i].state = "running"
    BY <1>2, <1>3 DEF Executor, Aside, Terminal
  <2>2. Accounted(exec[w][i], e, d)
    BY <1>2, <1>3, <2>1 DEF Confirmed
  <2> HIDE DEF e, d, dd
  <2> QED
    BY <1>1, <1>3, <2>2 DEF Accounted
<1>8. Doubted(i)'
  <2> SUFFICES ASSUME i \in DOMAIN jobs', jobs'[i].state \in Terminal
               PROVE  \/ e <= dd /\ \A w \in Services : ~Streams(w, i)'
                      \/ IsUncertain(jobs'[i])
    BY DEF Doubted, Ids
  <2>1. i \in Ids
    BY DEF Aside, Terminal
  <2>2. CASE jobs'[i].log = jobs[i].log /\ jobs'[i].state = jobs[i].state
    <3>1. \/ e <= d /\ \A w \in Services : ~Streams(w, i)
          \/ IsUncertain(jobs[i])
      BY <1>2, <2>1, <2>2 DEF Doubted
    <3>2. IsUncertain(jobs[i]) => IsUncertain(jobs'[i])
      BY <2>2 DEF IsUncertain
    <3> HIDE DEF e, d, dd
    <3> QED
      BY <1>1, <1>3, <3>1, <3>2
  <2>3. CASE jobs'[i].state = "interrupted"
    <3>1. jobs'[i].log \in Seq(Event) /\ Told(jobs'[i])
      BY RowsOfTable DEF Moves, StoryInv, TypeOK, Sound, Row
    <3>2. /\ jobs'[i].log # <<>>
          /\ jobs'[i].log[Len(jobs'[i].log)].uncertain
      BY <2>3, <3>1 DEF Told, Terminal
    <3> QED
      BY <3>1, <3>2 DEF IsUncertain
  <2>4. CASE jobs[i].state = "queued"
    <3>1. \A w \in Services : ~Streams(w, i)'
      BY <1>2, <1>3, <2>4 DEF Executor
    <3>2. jobs[i].log = <<>>
      BY <2>1, <2>4 DEF Moves, StoryInv, Sound, Told, Ids
    <3>3. c = 0
      BY <2>1, <3>2, LoggedIsCount, CountNothing DEF Called
    <3>4. e <= c
      BY <1>2 DEF Counted
    <3> HIDE DEF e, c, dd
    <3> QED
      BY <1>1, <3>1, <3>3, <3>4
  <2> QED
    BY <2>1, <2>2, <2>3, <2>4 DEF Aside
<1> QED
  BY <1>5, <1>6, <1>7, <1>8 DEF JobInv

\* store.start: nothing was logged yet, so nothing ran.
LEMMA StartedJob ==
    ASSUME NEW i, Moves(i), NEW w \in Services,
           i \in Ids, jobs[i].state = "queued", jobs[i].log = <<>>,
           i \in DOMAIN jobs', jobs'[i].state = "running", jobs'[i].log = <<>>,
           effects'[i] = effects[i],
           exec'[w][i].at = "yielded",
           \A v \in Services : v # w => exec'[v][i] = exec[v][i]
    PROVE  JobInv(i)'
<1>1. Executor(i) /\ Counted(i)
  BY DEF Moves, JobInv
<1>2. /\ \A v \in Services : v # w => ~Streams(v, i)'
      /\ \A v \in Services : v # w => exec'[v][i].at # "called"
  BY <1>1 DEF Executor, Streams, Streaming
<1>3. Called(i) = 0 /\ Called(i)' = 0 /\ Completed(i)' = 0
  BY CountNothing DEF Called, Completed, Logged, Count, Ids
<1>4. effects[i] = 0 /\ effects'[i] = 0
  BY <1>1, <1>3 DEF Counted, Moves
<1>5. Executor(i)'
  BY <1>2 DEF Executor, Ids
<1>6. Counted(i)'
  BY <1>2, <1>3, <1>4 DEF Counted
<1>7. Confirmed(i)'
  BY <1>3, <1>4 DEF Confirmed, Accounted
<1>8. Doubted(i)'
  BY DEF Doubted, Terminal
<1> QED
  BY <1>5, <1>6, <1>7, <1>8 DEF JobInv

\* The generator yields: from acting it hands over the tool's result, or closes
\* the run as uncertain.
LEMMA GeneratedJob ==
    ASSUME NEW i, Moves(i), NEW w \in Services, jobs' = jobs, effects' = effects,
           exec[w][i].at \in {"open", "called", "acting"},
           exec'[w][i].at = "yielded",
           exec[w][i].at = "acting" =>
              \/ exec'[w][i].event = "tool.completed"
              \/ exec'[w][i].event \in Closing /\ exec'[w][i].uncertain,
           \A v \in Services : v # w => exec'[v][i] = exec[v][i]
    PROVE  JobInv(i)'
<1>1. Executor(i) /\ Counted(i) /\ Confirmed(i) /\ Doubted(i)
  BY DEF Moves, JobInv
<1>2. /\ Called(i)' = Called(i) /\ Completed(i)' = Completed(i) /\ Ids' = Ids
      /\ effects'[i] = effects[i]
  BY DEF Called, Completed, Logged, Ids
<1>3. Streams(w, i) /\ \A v \in Services : Streams(v, i)' <=> Streams(v, i)
  BY DEF Streams, Streaming
<1>4. Executor(i)'
  BY <1>1, <1>2, <1>3 DEF Executor
<1>5. Counted(i)'
  <2>1. \A v \in Services : exec'[v][i].at = "called" => exec[v][i].at = "called"
    OBVIOUS
  <2> QED
    BY <1>1, <1>2, <2>1 DEF Counted
<1>6. Confirmed(i)'
  <2> SUFFICES ASSUME i \in Ids, jobs[i].state = "running", NEW v \in Services, Streams(v, i)'
               PROVE  Accounted(exec'[v][i], effects[i], Completed(i))
    BY <1>2 DEF Confirmed
  <2>1. v = w
    BY <1>1, <1>3 DEF Executor
  <2>2. Accounted(exec[w][i], effects[i], Completed(i))
    BY <1>1, <1>3 DEF Confirmed
  <2> QED
    BY <2>1, <2>2 DEF Accounted
<1>7. Doubted(i)'
  BY <1>1, <1>2, <1>3 DEF Doubted
<1> QED
  BY <1>4, <1>5, <1>6, <1>7 DEF JobInv

\* The tool runs, and its call is in the log.
LEMMA ActedJob ==
    ASSUME NEW i, Moves(i), NEW w \in Services, jobs' = jobs,
           effects'[i] = effects[i] + 1,
           exec[w][i].at = "called", exec'[w][i].at = "acting",
           \A v \in Services : v # w => exec'[v][i] = exec[v][i]
    PROVE  JobInv(i)'
<1> DEFINE e == effects[i]
           c == Called(i)
           d == Completed(i)
<1>1. Executor(i) /\ Counted(i) /\ Confirmed(i) /\ Doubted(i)
  BY DEF Moves, JobInv
<1>2. Called(i)' = c /\ Completed(i)' = d /\ Ids' = Ids
  BY DEF Called, Completed, Logged, Ids
<1>3. Streams(w, i) /\ \A v \in Services : Streams(v, i)' <=> Streams(v, i)
  BY DEF Streams, Streaming
<1>4. \A v \in Services : v # w => ~Streams(v, i) /\ exec'[v][i].at # "called"
  BY <1>1, <1>3 DEF Executor, Streams, Streaming
<1>5. e \in Nat /\ c \in Nat /\ d \in Nat
  BY CountsMove DEF Moves
<1>6. Executor(i)'
  BY <1>1, <1>2, <1>3 DEF Executor
<1>7. Counted(i)'
  <2>1. e < c
    BY <1>1 DEF Counted
  <2>2. e + 1 <= c
    <3> HIDE DEF e, c
    <3> QED
      BY <1>5, <2>1
  <2>3. \A v \in Services : exec'[v][i].at # "called"
    BY <1>4
  <2> QED
    BY <1>2, <2>2, <2>3 DEF Counted
<1>8. Confirmed(i)'
  <2> SUFFICES ASSUME i \in Ids, jobs[i].state = "running", NEW v \in Services, Streams(v, i)'
               PROVE  Accounted(exec'[v][i], e + 1, d)
    BY <1>2 DEF Confirmed
  <2>1. v = w
    BY <1>3, <1>4
  <2>2. Accounted(exec[w][i], e, d)
    BY <1>1, <1>3 DEF Confirmed
  <2> HIDE DEF e, d
  <2>3. e <= d
    BY <2>2 DEF Accounted
  <2>4. e + 1 <= d + 1
    BY <1>5, <2>3
  <2> QED
    BY <2>1, <2>4 DEF Accounted
<1>9. Doubted(i)'
  BY <1>1, <1>2, <1>3 DEF Doubted
<1> QED
  BY <1>6, <1>7, <1>8, <1>9 DEF JobInv

\* store.append of what the generator yielded.
LEMMA CommittedJob ==
    ASSUME NEW i, Moves(i), NEW w \in Services, NEW e \in Event,
           i \in Ids, jobs[i].state = "running",
           i \in DOMAIN jobs', jobs'[i].state = ClosedState(e.type),
           jobs'[i].log = Append(jobs[i].log, e),
           effects'[i] = effects[i],
           exec[w][i].at = "yielded", e.type = exec[w][i].event,
           e.uncertain = exec[w][i].uncertain,
           exec'[w][i] = Resumed(exec[w][i]), exec[w][i] \in Positions,
           \A v \in Services : v # w => exec'[v][i] = exec[v][i]
    PROVE  JobInv(i)'
<1> DEFINE p == exec[w][i]
           f == effects[i]
           c == Called(i)
           d == Completed(i)
           cc == Called(i)'
           dd == Completed(i)'
<1>1. Executor(i) /\ Counted(i) /\ Confirmed(i)
  BY DEF Moves, JobInv
<1>2. /\ cc = IF e.type = "tool.called" THEN c + 1 ELSE c
      /\ dd = IF e.type = "tool.completed" THEN d + 1 ELSE d
  <2>1. jobs[i].log \in Seq(Event)
    BY RowsOfTable DEF Moves, StoryInv, TypeOK, Ids, Row
  <2>2. /\ c = Count(jobs[i].log, "tool.called") /\ d = Count(jobs[i].log, "tool.completed")
        /\ cc = Count(jobs'[i].log, "tool.called") /\ dd = Count(jobs'[i].log, "tool.completed")
    BY DEF Called, Completed, Logged, Count, Ids
  <2> HIDE DEF c, d, cc, dd
  <2> QED
    BY <2>1, <2>2, CountAppended
<1>3. f \in Nat /\ c \in Nat /\ d \in Nat
  BY CountsMove DEF Moves
<1>4. /\ Streams(w, i)
      /\ \A v \in Services : v # w => ~Streams(v, i) /\ ~Streams(v, i)' /\ exec'[v][i].at # "called"
  BY <1>1 DEF Executor, Streams, Streaming
<1>5. f <= c /\ Accounted(p, f, d)
  BY <1>1, <1>4 DEF Counted, Confirmed
<1>6. /\ p.event \in Closing => exec'[w][i].at = "none"
      /\ p.event \notin Closing =>
            exec'[w][i].at = IF p.event = "tool.called" THEN "called" ELSE "open"
  BY DEF Resumed, Absent, At, Positions
<1>7. e.type \in Closing <=> jobs'[i].state \in Terminal
  BY DEF ClosedState, Closing, Terminal
<1>8. jobs'[i].state # "queued"
  BY DEF ClosedState
<1>9. Executor(i)'
  BY <1>4, <1>8 DEF Executor, Ids
<1>10. Counted(i)'
  <2>1. exec'[w][i].at = "called" => e.type = "tool.called"
    BY <1>6
  <2>2. f <= cc /\ (e.type = "tool.called" => f < cc)
    <3> HIDE DEF f, c, cc, d, dd, p
    <3> QED
      BY <1>2, <1>3, <1>5
  <2> QED
    BY <1>4, <2>1, <2>2 DEF Counted
<1>11. p.event \notin Closing => f <= dd
  <2> HIDE DEF f, c, cc, d, dd
  <2> QED
    BY <1>2, <1>3, <1>5 DEF Accounted, p
<1>12. Confirmed(i)'
  BY <1>4, <1>7, <1>11 DEF Confirmed, Accounted, Ids, Terminal
<1>13. Doubted(i)'
  <2> SUFFICES ASSUME jobs'[i].state \in Terminal
               PROVE  \/ f <= dd /\ \A v \in Services : ~Streams(v, i)'
                      \/ IsUncertain(jobs'[i])
    BY DEF Doubted, Ids
  <2>1. p.event \in Closing /\ \A v \in Services : ~Streams(v, i)'
    BY <1>4, <1>6, <1>7 DEF Streams, Streaming
  <2>2. CASE p.uncertain
    <3>1. jobs[i].log \in Seq(Event)
      BY RowsOfTable DEF Moves, StoryInv, TypeOK, Ids, Row
    <3>2. LET log == jobs'[i].log IN log[Len(log)] = e /\ Len(log) \in DOMAIN log
      BY <3>1, AppendedLog
    <3> QED
      BY <2>2, <3>2 DEF IsUncertain
  <2>3. CASE ~p.uncertain
    <3>1. e.type # "tool.completed" /\ p.event # "tool.completed"
      BY <2>1, JobStoreAssumption, JobServiceAssumption DEF Closing
    <3>2. f <= d /\ dd = d
      BY <1>2, <1>5, <2>3, <3>1 DEF Accounted
    <3> QED
      BY <2>1, <3>2
  <2> QED
    BY <2>2, <2>3
<1> QED
  BY <1>9, <1>10, <1>12, <1>13 DEF JobInv

-----------------------------------------------------------------------------
(* Positions of an execution *)

LEMMA PositionKinds ==
    ASSUME NEW p \in Positions
    PROVE  /\ p.aborted \in BOOLEAN /\ p.uncertain \in BOOLEAN
           /\ p.at = "yielded" => p.event \in EventTypes
           /\ p.at # "yielded" => ~p.uncertain
           /\ p.at = "none" \/ p.at = "yielded" \/ p.at \in Places
           /\ p.at = "none" => p = Absent
<1>1. CASE p = Absent
  BY <1>1 DEF Absent
<1>2. CASE p \in [at : Places, event : {"none"}, uncertain : {FALSE}, aborted : BOOLEAN]
  BY <1>2 DEF Places
<1>3. CASE p \in [at : {"yielded"}, event : EventTypes, uncertain : BOOLEAN, aborted : BOOLEAN]
  BY <1>3
<1> QED
  BY <1>1, <1>2, <1>3 DEF Positions

\* The shape all positions share.
LEMMA PositionShape ==
    ASSUME NEW p \in Positions
    PROVE  p \in [at : {"none", "yielded"} \cup Places, event : EventTypes \cup {"none"},
                  uncertain : BOOLEAN, aborted : BOOLEAN]
<1>1. CASE p = Absent
  BY <1>1 DEF Absent
<1>2. CASE p \in [at : Places, event : {"none"}, uncertain : {FALSE}, aborted : BOOLEAN]
  BY <1>2
<1>3. CASE p \in [at : {"yielded"}, event : EventTypes, uncertain : BOOLEAN, aborted : BOOLEAN]
  BY <1>3
<1> QED
  BY <1>1, <1>2, <1>3 DEF Positions

LEMMA PlacedPosition ==
    ASSUME NEW p \in Positions, NEW place \in Places
    PROVE  At(p, place) \in Positions /\ At(p, place).at = place /\ ~At(p, place).uncertain
BY PositionShape DEF At, Positions

LEMMA YieldedPosition ==
    ASSUME NEW p \in Positions, NEW type \in EventTypes, NEW u \in BOOLEAN
    PROVE  /\ Yielding(p, type, u) \in Positions
           /\ Yielding(p, type, u).at = "yielded" /\ Yielding(p, type, u).event = type
           /\ Yielding(p, type, u).uncertain = u
BY PositionShape DEF Yielding, Positions

LEMMA AbortedPosition ==
    ASSUME NEW p \in Positions
    PROVE  /\ p.at # "none" => [p EXCEPT !.aborted = TRUE] \in Positions
           /\ [p EXCEPT !.aborted = TRUE].at = p.at
           /\ [p EXCEPT !.aborted = TRUE].event = p.event
           /\ [p EXCEPT !.aborted = TRUE].uncertain = p.uncertain
<1> DEFINE early == [at : Places, event : {"none"}, uncertain : {FALSE}, aborted : BOOLEAN]
           late == [at : {"yielded"}, event : EventTypes, uncertain : BOOLEAN, aborted : BOOLEAN]
<1>1. p.at # "none" => [p EXCEPT !.aborted = TRUE] \in Positions
  <2>1. p = Absent => p.at = "none"
    BY DEF Absent
  <2>2. p \in early => [p EXCEPT !.aborted = TRUE] \in early
    OBVIOUS
  <2>3. p \in late => [p EXCEPT !.aborted = TRUE] \in late
    OBVIOUS
  <2> QED
    BY <2>1, <2>2, <2>3 DEF Positions
<1>2. /\ [p EXCEPT !.aborted = TRUE].at = p.at
      /\ [p EXCEPT !.aborted = TRUE].event = p.event
      /\ [p EXCEPT !.aborted = TRUE].uncertain = p.uncertain
  BY PositionShape
<1> QED
  BY <1>1, <1>2

\* Aborting controllers moves no execution.
LEMMA AbortingMovesNothing ==
    ASSUME NEW f \in [Slots -> Positions], NEW S
    PROVE  /\ Aborting(f, S) \in [Slots -> Positions]
           /\ \A i \in Slots : /\ Aborting(f, S)[i].at = f[i].at
                               /\ Aborting(f, S)[i].event = f[i].event
                               /\ Aborting(f, S)[i].uncertain = f[i].uncertain
BY AbortedPosition DEF Aborting

-----------------------------------------------------------------------------
(* A service is a client of the store *)

\* The store's part of each step is a step of the store.
LEMMA StoreStep == ASSUME ServiceInv, [ServiceNext]_allVars PROVE [Next]_vars
<1>1. Handles = Services /\ Owners = Services
  BY JobServiceAssumption
<1>2. ASSUME NEW w \in Services,
             \/ Open(w) \/ Close(w) \/ Access(w)
             \/ \E s \in Subjects, k \in Keys, p \in Prints : Submit(w, s, k, p)
             \/ \E s \in Subjects : \E i \in Ids : Cancel(w, s, i)
      PROVE  Next
  <2>1. ClientStep(w)
    BY <1>2 DEF ClientStep
  <2> QED
    BY <1>1, <2>1 DEF Next
<1>3. ASSUME NEW w \in Services,
             \/ Acquire(w, w) \/ Renew(w, w) \/ Release(w, w)
             \/ \E i \in Ids : Start(w, w, i) \/ Fail(w, w, i)
      PROVE  Next
  <2>1. WorkerStep(w, w)
    BY <1>3 DEF WorkerStep
  <2> QED
    BY <1>1, <2>1 DEF Next
<1>4. ASSUME NEW w \in Services, NEW i \in Slots, Commit(w, i) PROVE Next
  <2> DEFINE e == [type |-> exec[w][i].event, uncertain |-> exec[w][i].uncertain]
  <2>1. CASE Access(w)
    BY <1>2, <2>1
  <2>2. CASE AppendEvent(w, w, i, Len(jobs[i].log) + 1, e)
    <3>1. exec[w][i] \in Positions /\ exec[w][i].at = "yielded"
      BY <1>4 DEF ServiceInv, ServiceTypeOK, Commit
    <3>2. e \in Event
      BY <3>1, PositionKinds DEF Event
    <3>3. i \in Ids /\ e \in DriverEvents
      BY <3>1, <3>2 DEF ServiceInv, MemoryInv, DriverEvents
    <3>4. Len(jobs[i].log) + 1 \in 1..(Len(jobs[i].log) + 1)
      <4>1. jobs[i].log \in Seq(Event)
        BY <3>3, RowsOfTable DEF ServiceInv, StoryInv, TypeOK, Ids, Row
      <4> QED
        BY <4>1
    <3>5. WorkerStep(w, w)
      BY <2>2, <3>3, <3>4 DEF WorkerStep
    <3> QED
      BY <1>1, <3>5 DEF Next
  <2> QED
    BY <1>4, <2>1, <2>2 DEF Commit
<1>5. ASSUME NEW w \in Services, NEW i \in Slots, Execute(w, i) PROVE [Next]_vars
  <2>1. exec[w][i].at # "none" => i \in Ids
    BY DEF ServiceInv, MemoryInv
  <2>2. CASE StartJob(w, i)
    BY <1>2, <1>3, <2>1, <2>2 DEF StartJob
  <2>3. CASE FailJob(w, i)
    BY <1>2, <1>3, <2>1, <2>3 DEF FailJob
  <2>4. CASE Authorize(w, i) \/ Generate(w, i) \/ Act(w, i)
    BY <2>4 DEF Authorize, Generate, Act
  <2> QED
    BY <1>4, <1>5, <2>2, <2>3, <2>4 DEF Execute
<1>6. ASSUME NEW w \in Services, Pump(w) PROVE [Next]_vars
  BY <1>2, <1>6 DEF Pump, PumpRead, PumpCheck, PumpSpawn
<1>7. ASSUME NEW w \in Services, ServiceStep(w) PROVE [Next]_vars
  BY <1>2, <1>3, <1>5, <1>6, <1>7
  DEF ServiceStep, OpenStore, OpenService, Crash, Heartbeat, BeginClose, FenceClose,
      EndClose, SubmitJob, CancelJob
<1>8. CASE Revoke \/ Pass \/ UNCHANGED allVars
  BY <1>8 DEF Revoke, Pass, allVars, Next
<1> QED
  BY <1>7, <1>8 DEF ServiceNext

\* In the original layout the generation stays 0, and the table within its size.
LEMMA SmallStep ==
    ASSUME TypeOK, generation = 0, Len(jobs) <= MaxJobs, [Next]_vars
    PROVE  generation' = 0 /\ Len(jobs') <= MaxJobs
<1>1. /\ Maintained \in Seq(Row) /\ DOMAIN Maintained = Ids /\ jobs \in Seq(Row)
      /\ MaxGeneration = 0
  BY MaintainedRows, JobServiceAssumption DEF TypeOK
<1>2. Len(Maintained) = Len(jobs) /\ Len(jobs) \in Nat
  BY <1>1 DEF Ids
<1>3. /\ InterruptRunning(Maintained) \in Seq(Row)
      /\ DOMAIN InterruptRunning(Maintained) = Ids
  BY <1>1, InterruptRunningRows
<1>4. Len(InterruptRunning(Maintained)) = Len(jobs)
  BY <1>1, <1>3 DEF Ids
<1>5. \A i \in Ids : \A row : Len([Maintained EXCEPT ![i] = row]) = Len(jobs)
  BY <1>1, <1>2
<1>6. ASSUME NEW h \in Handles, ClientStep(h) PROVE generation' = 0 /\ Len(jobs') <= MaxJobs
  <2>1. CASE Open(h) \/ Close(h) \/ Access(h)
    BY <1>2, <2>1 DEF Open, Close, Access, dbVars
  <2>2. CASE \E s \in Subjects, k \in Keys, p \in Prints : Submit(h, s, k, p)
    <3>1. PICK s, k, p : Submit(h, s, k, p)
      BY <2>2
    <3>2. /\ jobs' = Append(Maintained, NewRow(s, k, p)) /\ Len(jobs) < MaxJobs
          /\ generation' = generation
      BY <3>1 DEF Submit
    <3>3. Len(jobs') = Len(jobs) + 1
      BY <1>1, <1>2, <3>2
    <3> QED
      BY <1>2, <3>2, <3>3, JobStoreAssumption
  <2>3. CASE \E s \in Subjects : \E i \in Ids : Cancel(h, s, i)
    BY <1>5, <2>3 DEF Cancel
  <2> QED
    BY <1>6, <2>1, <2>2, <2>3 DEF ClientStep
<1>7. ASSUME NEW h \in Handles, NEW owner \in Owners, WorkerStep(h, owner)
      PROVE  generation' = 0 /\ Len(jobs') <= MaxJobs
  <2>1. CASE Acquire(h, owner) \/ Renew(h, owner)
    BY <1>2, <2>1 DEF Acquire, Renew, Advanced
  <2>2. CASE Release(h, owner)
    BY <1>4, <2>2 DEF Release, Advanced
  <2>3. ASSUME NEW b, AcquireQuiet(h, b, owner) PROVE FALSE
    BY <1>1, <2>3 DEF AcquireQuiet
  <2>4. ASSUME NEW i \in Ids, Start(h, owner, i) \/ Fail(h, owner, i)
        PROVE  generation' = 0 /\ Len(jobs') <= MaxJobs
    <3>1. /\ generation' = generation
          /\ \E row : jobs' = [Maintained EXCEPT ![i] = row]
      BY <2>4 DEF Start, Fail
    <3> QED
      BY <1>5, <3>1
  <2>5. CASE \E i \in Ids : \E e \in DriverEvents : \E n \in 1..(Len(jobs[i].log) + 1) :
                AppendEvent(h, owner, i, n, e)
    BY <1>5, <2>5 DEF AppendEvent, Appended
  <2> QED
    BY <1>7, <2>1, <2>2, <2>3, <2>4, <2>5 DEF WorkerStep
<1>8. CASE Tick \/ UNCHANGED vars
  BY <1>8 DEF Tick, vars, dbVars
<1> QED
  BY <1>6, <1>7, <1>8 DEF Next

\* Transactions that leave every job aside, and take the lease from nobody but its
\* owner and give it to nobody.
Plainly == /\ \A i \in Slots : Aside(i)
           /\ lease'.owner \in {lease.owner, NoOwner}

LEMMA PlainStore ==
    ASSUME StoryInv, NEW h, NEW owner,
           \/ Open(h) \/ Close(h) \/ Access(h) \/ Renew(h, owner) \/ Release(h, owner)
           \/ \E s \in Subjects, k \in Keys, p \in Prints : Submit(h, s, k, p)
           \/ \E s \in Subjects : \E k \in Ids : Cancel(h, s, k)
           \/ \E k \in Ids : Fail(h, owner, k)
           \/ Tick \/ UNCHANGED vars
    PROVE  Plainly
<1>1. /\ MaintainedLease.owner \in {lease.owner, NoOwner} /\ NoLease.owner = NoOwner
      /\ [lease EXCEPT !.expires = now + LeaseMs].owner = lease.owner
  BY DEF MaintainedLease, NoLease, StoryInv, TypeOK
<1>2. CASE Open(h) \/ Close(h) \/ Tick \/ UNCHANGED vars
  BY <1>2, AccessAside DEF Plainly, Open, Close, Tick, vars, dbVars
<1>3. CASE Access(h) \/ Renew(h, owner) \/ Release(h, owner)
  BY <1>1, <1>3, AccessAside DEF Plainly, Access, Renew, Release
<1>4. CASE \E s \in Subjects, k \in Keys, p \in Prints : Submit(h, s, k, p)
  <2>1. lease' = MaintainedLease
    BY <1>4 DEF Submit
  <2> QED
    BY <1>1, <1>4, <2>1, SubmitAside DEF Plainly
<1>5. CASE \E s \in Subjects : \E k \in Ids : Cancel(h, s, k)
  <2>1. lease' = MaintainedLease
    BY <1>5 DEF Cancel
  <2> QED
    BY <1>1, <1>5, <2>1, CancelAside DEF Plainly
<1>6. CASE \E k \in Ids : Fail(h, owner, k)
  <2>1. lease' = lease
    BY <1>6 DEF Fail
  <2> QED
    BY <1>6, <2>1, FailAside DEF Plainly
<1> QED
  BY <1>2, <1>3, <1>4, <1>5, <1>6

-----------------------------------------------------------------------------
(* Every step keeps the invariant *)

ServiceTypes ==
    /\ svc \in [Services -> {"new", "open", "fatal", "closing", "draining",
                             "closed", "crashed"}]
    /\ pumping \in [Services -> [on : BOOLEAN, snapshot : SUBSET Slots,
                                 unchecked : SUBSET Slots, last : 0..MaxJobs]]
    /\ exec \in [Services -> [Slots -> Positions]]
    /\ granted \in BOOLEAN
    /\ effects \in [Slots -> Nat]

LEMMA TypesOfService == ServiceTypeOK <=> TypeOK /\ ServiceTypes
BY DEF ServiceTypeOK, ServiceTypes

\* A step that takes no service into draining or closed, and executes only jobs
\* of the table.
Remembers(v) ==
    /\ svc'[v] \in {"draining", "closed"} => svc'[v] = svc[v]
    /\ pumping'[v].snapshot \subseteq Ids
    /\ pumping'[v].on => pumping[v].on \/ svc'[v] \notin {"draining", "closed"}
    /\ \A i \in Slots :
          /\ exec'[v][i].at # "none" => \/ exec[v][i].at # "none"
                                        \/ i \in Ids /\ svc'[v] # "closed"
          /\ exec'[v][i].uncertain => exec'[v][i].event \in {"run.failed", "run.cancelled"}
    /\ lease'.owner = v => lease.owner = v \/ svc'[v] \notin {"draining", "closed"}

LEMMA MemoryHolds ==
    ASSUME ServiceInv, Continues, NEW v \in Services, Remembers(v)
    PROVE  MemoryInv(v)'
<1>1. MemoryInv(v)
  BY DEF ServiceInv
<1>2. Ids \subseteq DOMAIN jobs' /\ Ids' = DOMAIN jobs'
  BY DEF Continues, Ids
<1>3. \A i \in Slots : exec'[v][i].at # "none" => i \in Ids
  BY <1>1 DEF Remembers, MemoryInv
<1>4. svc'[v] = "closed" => \A i \in Slots : exec'[v][i].at = "none"
  BY <1>1 DEF Remembers, MemoryInv, ActiveJobs
<1>5. svc'[v] \in {"draining", "closed"} => ~pumping'[v].on /\ lease'.owner # v
  BY <1>1 DEF Remembers, MemoryInv
<1> QED
  BY <1>2, <1>3, <1>4, <1>5 DEF MemoryInv, ActiveJobs, Remembers

LEMMA StoreMoves ==
    ASSUME ServiceInv, [ServiceNext]_allVars
    PROVE  /\ StoryInv' /\ Continues /\ generation' = 0 /\ Len(jobs') <= MaxJobs
           /\ \A i \in Slots : Moves(i)
<1>1. [Next]_vars
  BY StoreStep
<1>2. StoryInv /\ TypeOK /\ generation = 0 /\ Len(jobs) <= MaxJobs
  BY DEF ServiceInv, StoryInv
<1>3. TypeOK'
  BY <1>1, <1>2, TypeStep
<1>4. Continues
  BY <1>1, <1>2, StoryStep
<1>5. StoryInv'
  BY <1>3, <1>4 DEF StoryInv, Continues
<1>6. generation' = 0 /\ Len(jobs') <= MaxJobs
  BY <1>1, <1>2, SmallStep
<1>7. \A i \in Slots : effects[i] \in Nat /\ JobInv(i)
  BY DEF ServiceInv, ServiceTypeOK
<1> QED
  BY <1>2, <1>4, <1>5, <1>6, <1>7 DEF Moves

LEMMA Together ==
    ASSUME ServiceInv, [ServiceNext]_allVars, ServiceTypes',
           \A v \in Services : MemoryInv(v)',
           \A i \in Slots : JobInv(i)'
    PROVE  ServiceInv'
<1>1. StoryInv' /\ generation' = 0 /\ Len(jobs') <= MaxJobs
  BY StoreMoves
<1>2. ServiceTypeOK'
  BY <1>1 DEF ServiceTypeOK, ServiceTypes, StoryInv
<1> QED
  BY <1>1, <1>2 DEF ServiceInv

LEMMA PlainStep ==
    ASSUME ServiceInv, [ServiceNext]_allVars, ServiceTypes', Plainly, effects' = effects,
           \A v \in Services : Remembers(v) /\ \A i \in Slots : Calm(v, i)
    PROVE  ServiceInv'
<1>1. \A v \in Services : MemoryInv(v)'
  BY MemoryHolds, StoreMoves
<1>2. \A i \in Slots : JobInv(i)'
  BY CalmJob, StoreMoves DEF Plainly
<1> QED
  BY <1>1, <1>2, Together

\* A step of one execution.
LEMMA MoveStep ==
    ASSUME ServiceInv, [ServiceNext]_allVars, NEW w \in Services, NEW i \in Slots,
           exec[w][i].at # "none", NEW q \in Positions, Move(w, i, q),
           q.uncertain => q.event \in {"run.failed", "run.cancelled"},
           UNCHANGED <<svc, pumping, granted>>, effects' \in [Slots -> Nat],
           lease'.owner \in {lease.owner, NoOwner},
           \A j \in Slots : j # i => Aside(j) /\ effects'[j] = effects[j],
           Moves(i) => JobInv(i)'
    PROVE  ServiceInv'
<1>1. ServiceTypes /\ \A v \in Services : MemoryInv(v)
  BY TypesOfService DEF ServiceInv
<1>2. /\ exec' \in [Services -> [Slots -> Positions]] /\ exec'[w][i] = q
      /\ \A v \in Services : \A j \in Slots :
            v # w \/ j # i => exec'[v][j] = exec[v][j]
  BY <1>1 DEF ServiceTypes, Move
<1>3. ServiceTypes'
  BY <1>1, <1>2 DEF ServiceTypes
<1>4. ASSUME NEW v \in Services PROVE MemoryInv(v)'
  <2>1. v # NoOwner
    BY JobStoreAssumption, JobServiceAssumption
  <2>2. Remembers(v)
    BY <1>1, <1>2, <2>1 DEF Remembers, MemoryInv
  <2> QED
    BY <2>2, MemoryHolds, StoreMoves
<1>5. ASSUME NEW j \in Slots, j # i PROVE JobInv(j)'
  <2>1. \A v \in Services : Calm(v, j)
    BY <1>2, <1>5 DEF Calm
  <2> QED
    BY <1>5, <2>1, CalmJob, StoreMoves
<1>6. JobInv(i)'
  BY StoreMoves
<1> QED
  BY <1>3, <1>4, <1>5, <1>6, Together

\* What the invariant says of the memory of each service, and of one execution.
LEMMA MemoryFacts ==
    ASSUME ServiceInv
    PROVE  /\ ServiceTypes /\ StoryInv /\ MaxJobs \in Nat
           /\ Ids \subseteq Slots
           /\ \A v \in Services : MemoryInv(v) /\ pumping[v].snapshot \subseteq Ids
           /\ \A v \in Services : \A i \in Slots :
                 exec[v][i] \in Positions /\ (exec[v][i].at # "none" => i \in Ids)
<1>1. ServiceTypes /\ StoryInv /\ MaxJobs \in Nat
  BY TypesOfService, JobStoreAssumption DEF ServiceInv
<1>2. jobs \in Seq(Row) /\ Len(jobs) <= MaxJobs
  BY DEF ServiceInv, StoryInv, TypeOK
<1>3. Ids \subseteq Slots
  BY <1>1, <1>2 DEF Ids, Slots
<1>4. \A v \in Services : \A i \in Slots : exec[v][i] \in Positions
  BY <1>1 DEF ServiceTypes
<1> QED
  BY <1>1, <1>3, <1>4 DEF ServiceInv, MemoryInv

\* Opening, crashing and closing.
LEMMA LifeSteps ==
    ASSUME ServiceInv, [ServiceNext]_allVars, NEW w \in Services,
           OpenStore(w) \/ Crash(w) \/ BeginClose(w)
    PROVE  ServiceInv'
<1>1. /\ ServiceTypes /\ StoryInv /\ \A v \in Services : MemoryInv(v)
      /\ effects' = effects
  BY MemoryFacts DEF OpenStore, Crash, BeginClose, serviceVars
<1>2. Open(w) \/ Close(w) \/ UNCHANGED vars
  BY DEF OpenStore, Crash, BeginClose
<1>3. Plainly
  BY <1>1, <1>2, PlainStore
<1>4. Absent \in Positions /\ Absent.at = "none" /\ ~Absent.uncertain
  BY DEF Positions, Absent
<1>5. Idle(0) \in [on : BOOLEAN, snapshot : SUBSET Slots, unchecked : SUBSET Slots,
                   last : 0..MaxJobs] /\ ~Idle(0).on /\ Idle(0).snapshot = {}
  BY MemoryFacts DEF Idle
<1>6. ServiceTypes'
  <2>1. CASE OpenStore(w)
    BY <1>1, <2>1 DEF ServiceTypes, OpenStore, serviceVars
  <2>2. CASE BeginClose(w)
    BY <1>1, <2>2 DEF ServiceTypes, BeginClose
  <2>3. CASE Crash(w)
    <3>1. [i \in Slots |-> Absent] \in [Slots -> Positions]
      BY <1>4
    <3>2. /\ exec' = [exec EXCEPT ![w] = [i \in Slots |-> Absent]]
          /\ pumping' = [pumping EXCEPT ![w] = Idle(0)]
          /\ svc' = [svc EXCEPT ![w] = "crashed"] /\ granted' = granted
      BY <2>3 DEF Crash
    <3> QED
      BY <1>1, <1>5, <3>1, <3>2 DEF ServiceTypes
  <2> QED
    BY <2>1, <2>2, <2>3
<1>7. ASSUME NEW v \in Services PROVE Remembers(v) /\ \A i \in Slots : Calm(v, i)
  <2>1. \/ exec'[v] = exec[v] /\ pumping'[v] = pumping[v]
        \/ exec'[v] = [i \in Slots |-> Absent] /\ pumping'[v] = Idle(0)
    BY <1>1 DEF ServiceTypes, OpenStore, Crash, BeginClose, serviceVars
  <2>2. svc'[v] = svc[v] \/ svc'[v] \in {"crashed", "closing"}
    BY <1>1 DEF ServiceTypes, OpenStore, Crash, BeginClose, serviceVars
  <2>3. v # NoOwner
    BY JobStoreAssumption, JobServiceAssumption
  <2>4. \A i \in Slots : Calm(v, i)
    BY <1>4, <2>1 DEF Calm, Streaming
  <2>5. /\ pumping'[v].snapshot \subseteq Ids
        /\ pumping'[v].on => pumping[v].on
    BY <1>1, <1>5, <2>1 DEF MemoryInv
  <2>6. \A i \in Slots :
           /\ exec'[v][i].at # "none" => exec[v][i].at # "none"
           /\ exec'[v][i].uncertain => exec'[v][i].event \in {"run.failed", "run.cancelled"}
    BY <1>1, <1>4, <2>1 DEF MemoryInv
  <2>7. lease'.owner = v => lease.owner = v
    BY <1>3, <2>3 DEF Plainly
  <2> QED
    BY <2>2, <2>4, <2>5, <2>6, <2>7 DEF Remembers
<1> QED
  BY <1>1, <1>3, <1>6, <1>7, PlainStep

LEMMA OpenServiceStep ==
    ASSUME ServiceInv, [ServiceNext]_allVars, NEW w \in Services, OpenService(w)
    PROVE  ServiceInv'
<1>1. /\ ServiceTypes /\ StoryInv /\ (\A v \in Services : MemoryInv(v)) /\ svc[w] = "new"
      /\ UNCHANGED <<pumping, exec, granted, effects>> /\ svc' = [svc EXCEPT ![w] = "open"]
  BY MemoryFacts DEF OpenService
<1>2. jobs' = Maintained /\ lease' = [owner |-> w, expires |-> now + LeaseMs]
  BY DEF OpenService, Acquire
<1>3. \A i \in Slots : Aside(i)
  BY <1>1, <1>2, AccessAside
<1>4. \A v \in Services : Remembers(v)
  BY <1>1, <1>2 DEF Remembers, MemoryInv, ServiceTypes
<1>5. \A v \in Services : MemoryInv(v)'
  BY <1>4, MemoryHolds, StoreMoves
<1>6. \A i \in Slots : JobInv(i)'
  BY <1>1, <1>3, CalmJob, StoreMoves DEF Calm
<1>7. ServiceTypes'
  BY <1>1 DEF ServiceTypes
<1> QED
  BY <1>5, <1>6, <1>7, Together

\* renew, and what stops a service.
LEMMA HeartbeatStep ==
    ASSUME ServiceInv, [ServiceNext]_allVars, NEW w \in Services, Heartbeat(w)
    PROVE  ServiceInv'
<1>1. /\ ServiceTypes /\ StoryInv /\ (\A v \in Services : MemoryInv(v))
      /\ UNCHANGED <<pumping, granted, effects>>
      /\ (Renew(w, w) /\ UNCHANGED <<svc, exec>>) \/ (Access(w) /\ Fatal(w))
  BY MemoryFacts DEF Heartbeat
<1>2. Plainly
  BY <1>1, PlainStore
<1>3. /\ Aborting(exec[w], Slots) \in [Slots -> Positions]
      /\ \A i \in Slots : /\ Aborting(exec[w], Slots)[i].at = exec[w][i].at
                          /\ Aborting(exec[w], Slots)[i].event = exec[w][i].event
                          /\ Aborting(exec[w], Slots)[i].uncertain = exec[w][i].uncertain
  BY <1>1, AbortingMovesNothing DEF ServiceTypes
<1>4. /\ ServiceTypes'
      /\ \A v \in Services : svc'[v] = svc[v] \/ svc'[v] = "fatal"
      /\ \A v \in Services : \/ exec'[v] = exec[v]
                            \/ (v = w /\ exec'[v] = Aborting(exec[w], Slots))
  <2>1. CASE UNCHANGED <<svc, exec>>
    BY <1>1, <2>1 DEF ServiceTypes
  <2>2. CASE Fatal(w)
    <3>1. /\ exec' = [exec EXCEPT ![w] = Aborting(exec[w], Slots)]
          /\ svc' \in {svc, [svc EXCEPT ![w] = "fatal"]}
      BY <1>1, <2>2 DEF ServiceTypes, Fatal, Broken
    <3> QED
      BY <1>1, <1>3, <3>1 DEF ServiceTypes
  <2> QED
    BY <1>1, <2>1, <2>2
<1>5. ASSUME NEW v \in Services PROVE Remembers(v) /\ \A i \in Slots : Calm(v, i)
  <2>1. \A i \in Slots : /\ exec'[v][i].at = exec[v][i].at
                         /\ exec'[v][i].event = exec[v][i].event
                         /\ exec'[v][i].uncertain = exec[v][i].uncertain
    BY <1>3, <1>4
  <2>2. v # NoOwner
    BY JobStoreAssumption, JobServiceAssumption
  <2> QED
    BY <1>1, <1>2, <1>4, <2>1, <2>2 DEF Remembers, Calm, MemoryInv, Plainly
<1> QED
  BY <1>1, <1>2, <1>4, <1>5, PlainStep

LEMMA AbortedExecutions ==
    ASSUME ServiceInv, NEW w \in Services, NEW S,
           exec' = [exec EXCEPT ![w] = Aborting(@, S)]
    PROVE  /\ exec' \in [Services -> [Slots -> Positions]]
           /\ \A v \in Services : \A i \in Slots :
                 /\ exec'[v][i].at = exec[v][i].at
                 /\ exec'[v][i].event = exec[v][i].event
                 /\ exec'[v][i].uncertain = exec[v][i].uncertain
                 /\ Calm(v, i)
<1>1. exec \in [Services -> [Slots -> Positions]]
  BY MemoryFacts DEF ServiceTypes
<1>2. /\ Aborting(exec[w], S) \in [Slots -> Positions]
      /\ \A i \in Slots : /\ Aborting(exec[w], S)[i].at = exec[w][i].at
                          /\ Aborting(exec[w], S)[i].event = exec[w][i].event
                          /\ Aborting(exec[w], S)[i].uncertain = exec[w][i].uncertain
  BY <1>1, AbortingMovesNothing
<1>3. exec' \in [Services -> [Slots -> Positions]]
  BY <1>1, <1>2
<1>4. \A v \in Services : \A i \in Slots :
         /\ exec'[v][i].at = exec[v][i].at
         /\ exec'[v][i].event = exec[v][i].event
         /\ exec'[v][i].uncertain = exec[v][i].uncertain
  BY <1>1, <1>2
<1> QED
  BY <1>3, <1>4 DEF Calm

\* A step in which executions only abort.
LEMMA AbortStep ==
    ASSUME ServiceInv, [ServiceNext]_allVars, NEW w \in Services, NEW S,
           exec' = [exec EXCEPT ![w] = Aborting(@, S)],
           svc' = svc \/ svc' = Broken(w),
           pumping' \in [Services -> [on : BOOLEAN, snapshot : SUBSET Slots,
                                      unchecked : SUBSET Slots, last : 0..MaxJobs]],
           \A v \in Services : /\ pumping'[v].snapshot \subseteq Ids
                               /\ pumping'[v].on => pumping[v].on \/ svc[v] = "open",
           granted' = granted, effects' = effects, Plainly
    PROVE  ServiceInv'
<1>1. /\ exec' \in [Services -> [Slots -> Positions]]
      /\ \A v \in Services : \A i \in Slots :
            /\ exec'[v][i].at = exec[v][i].at
            /\ exec'[v][i].event = exec[v][i].event
            /\ exec'[v][i].uncertain = exec[v][i].uncertain
            /\ Calm(v, i)
  BY AbortedExecutions
<1>2. ServiceTypes /\ \A v \in Services : MemoryInv(v)
  BY MemoryFacts
<1>3. /\ svc' \in [Services -> {"new", "open", "fatal", "closing", "draining",
                               "closed", "crashed"}]
      /\ \A v \in Services : svc'[v] = svc[v] \/ (svc[v] = "open" /\ svc'[v] = "fatal")
  BY <1>2 DEF ServiceTypes, Broken
<1>4. ServiceTypes'
  BY <1>1, <1>2, <1>3 DEF ServiceTypes
<1>5. ASSUME NEW v \in Services PROVE Remembers(v)
  <2>1. v # NoOwner
    BY JobStoreAssumption, JobServiceAssumption
  <2> QED
    BY <1>1, <1>2, <1>3, <2>1 DEF Remembers, MemoryInv, Plainly
<1> QED
  BY <1>1, <1>4, <1>5, PlainStep

\* close() gives the lease back, or has lost it.
LEMMA FenceCloseStep ==
    ASSUME ServiceInv, [ServiceNext]_allVars, NEW w \in Services, FenceClose(w)
    PROVE  ServiceInv'
<1>1. /\ ServiceTypes /\ StoryInv /\ (\A v \in Services : MemoryInv(v))
      /\ UNCHANGED <<pumping, granted, effects>>
      /\ svc' = [svc EXCEPT ![w] = "draining"] /\ ~pumping[w].on
      /\ Release(w, w) \/ (~Worker(w, w) /\ Access(w))
      /\ exec' = [exec EXCEPT ![w] = Aborting(@, Slots)]
      /\ svc[w] = "closing"
  BY MemoryFacts DEF FenceClose
<1>2. /\ exec' \in [Services -> [Slots -> Positions]]
      /\ \A v \in Services : \A i \in Slots :
            /\ exec'[v][i].at = exec[v][i].at
            /\ exec'[v][i].event = exec[v][i].event
            /\ exec'[v][i].uncertain = exec[v][i].uncertain
            /\ Calm(v, i)
  BY <1>1, AbortedExecutions
<1>3. Plainly
  BY <1>1, PlainStore
<1>4. \A v \in Services : v # NoOwner
  BY JobStoreAssumption, JobServiceAssumption
<1>5. lease'.owner # w
  <2>1. CASE Release(w, w)
    BY <1>4, <2>1 DEF Release, NoLease
  <2>2. CASE ~Worker(w, w) /\ Access(w)
    <3>1. generation = 0 /\ Fenced(w, "ordinary") /\ lease' = MaintainedLease
      BY <2>2 DEF Access, ServiceInv
    <3>2. ~(Live /\ lease.owner = w)
      BY <2>2, <3>1 DEF Worker, Holds
    <3>3. lease.expires \in Nat /\ now \in Nat
      BY <1>1 DEF StoryInv, TypeOK
    <3>4. lease.owner = w => Lapsed
      BY <1>4, <3>2, <3>3 DEF Live, Lapsed, NoLease
    <3> QED
      BY <1>4, <3>1, <3>4 DEF MaintainedLease, NoLease
  <2> QED
    BY <1>1, <2>1, <2>2
<1>6. /\ svc'[w] = "draining" /\ ServiceTypes'
      /\ \A v \in Services : v # w => svc'[v] = svc[v]
  BY <1>1, <1>2 DEF ServiceTypes
<1>7. ASSUME NEW v \in Services, v # w PROVE MemoryInv(v)'
  <2>1. Remembers(v)
    BY <1>1, <1>2, <1>3, <1>4, <1>6, <1>7 DEF Remembers, MemoryInv, Plainly
  <2> QED
    BY <2>1, MemoryHolds, StoreMoves
<1>8. MemoryInv(w)'
  <2>1. Ids \subseteq DOMAIN jobs' /\ Ids' = DOMAIN jobs'
    BY StoreMoves DEF Continues, Ids
  <2> QED
    BY <1>1, <1>2, <1>5, <1>6, <2>1 DEF MemoryInv
<1>9. \A i \in Slots : JobInv(i)'
  BY <1>1, <1>2, <1>3, CalmJob, StoreMoves DEF Plainly
<1> QED
  BY <1>6, <1>7, <1>8, <1>9, Together

\* close() returns once every execution has settled.
LEMMA EndCloseStep ==
    ASSUME ServiceInv, [ServiceNext]_allVars, NEW w \in Services, EndClose(w)
    PROVE  ServiceInv'
<1>1. /\ ServiceTypes /\ StoryInv /\ \A v \in Services : MemoryInv(v)
      /\ UNCHANGED <<vars, pumping, exec, granted, effects>>
      /\ svc' = [svc EXCEPT ![w] = "closed"]
      /\ svc[w] = "draining" /\ ActiveJobs(w) = {}
  BY MemoryFacts DEF EndClose
<1>2. jobs' = jobs /\ lease' = lease /\ Ids' = Ids
  BY <1>1 DEF vars, Ids
<1>3. \A i \in Slots : Aside(i)
  BY <1>1, <1>2, AccessAside
<1>4. \A v \in Services : MemoryInv(v)'
  BY <1>1, <1>2 DEF MemoryInv, ActiveJobs, ServiceTypes
<1>5. \A i \in Slots : JobInv(i)'
  BY <1>1, <1>3, CalmJob, StoreMoves DEF Calm
<1>6. ServiceTypes'
  BY <1>1 DEF ServiceTypes
<1> QED
  BY <1>4, <1>5, <1>6, Together

\* The pump reads the queue and looks at the active jobs.
LEMMA PumpReadStep ==
    ASSUME ServiceInv, [ServiceNext]_allVars, NEW w \in Services, PumpRead(w)
    PROVE  ServiceInv'
<1>1. /\ ServiceTypes /\ StoryInv /\ (\A v \in Services : MemoryInv(v))
      /\ UNCHANGED <<granted, effects>> /\ Access(w) /\ svc[w] = "open"
      /\ Ids \subseteq Slots
  BY MemoryFacts DEF PumpRead, Stopped
<1>2. Plainly
  BY <1>1, PlainStore
<1>3. CASE Fatal(w) /\ UNCHANGED pumping
  <2>1. \A v \in Services : pumping'[v].snapshot \subseteq Ids
    BY <1>1, <1>3 DEF MemoryInv
  <2> QED
    BY <1>1, <1>2, <1>3, <2>1, AbortStep DEF Fatal, ServiceTypes
<1>4. CASE ~(Fatal(w) /\ UNCHANGED pumping)
  <2> DEFINE queue == {i \in Ids : jobs'[i].state = "queued"}
             active == ActiveJobs(w)
  <2>1. /\ pumping' = [pumping EXCEPT ![w].on = TRUE, ![w].snapshot = queue,
                                     ![w].unchecked = active]
        /\ UNCHANGED <<svc, exec>>
    BY <1>4 DEF PumpRead
  <2>2. queue \subseteq Ids /\ queue \in SUBSET Slots /\ active \in SUBSET Slots
    BY <1>1 DEF ActiveJobs
  <2> HIDE DEF queue, active
  <2>3. /\ pumping' \in [Services -> [on : BOOLEAN, snapshot : SUBSET Slots,
                                      unchecked : SUBSET Slots, last : 0..MaxJobs]]
        /\ \A v \in Services : /\ pumping'[v].snapshot \in {pumping[v].snapshot, queue}
                               /\ pumping'[v].on => pumping[v].on \/ svc[v] = "open"
    <3>1. \A q \in [on : BOOLEAN, snapshot : SUBSET Slots, unchecked : SUBSET Slots,
                    last : 0..MaxJobs] :
             LET new == [q EXCEPT !.on = TRUE, !.snapshot = queue, !.unchecked = active] IN
             /\ new \in [on : BOOLEAN, snapshot : SUBSET Slots, unchecked : SUBSET Slots,
                         last : 0..MaxJobs]
             /\ new.snapshot = queue
      BY <2>2
    <3>2. pumping' = [pumping EXCEPT ![w] = [pumping[w] EXCEPT
                          !.on = TRUE, !.snapshot = queue, !.unchecked = active]]
      BY <1>1, <2>1 DEF ServiceTypes
    <3> QED
      BY <1>1, <3>1, <3>2 DEF ServiceTypes
  <2>4. ServiceTypes'
    BY <1>1, <2>1, <2>3 DEF ServiceTypes
  <2>5. ASSUME NEW v \in Services PROVE Remembers(v) /\ \A i \in Slots : Calm(v, i)
    <3>1. v # NoOwner
      BY JobStoreAssumption, JobServiceAssumption
    <3> QED
      BY <1>1, <1>2, <2>1, <2>2, <2>3, <3>1 DEF Remembers, MemoryInv, Calm, Plainly
  <2> QED
    BY <1>1, <1>2, <2>4, <2>5, PlainStep
<1> QED
  BY <1>3, <1>4

LEMMA PumpCheckStep ==
    ASSUME ServiceInv, [ServiceNext]_allVars, NEW w \in Services, NEW i, PumpCheck(w, i)
    PROVE  ServiceInv'
<1>1. /\ ServiceTypes /\ StoryInv /\ (\A v \in Services : MemoryInv(v))
      /\ UNCHANGED <<svc, granted, effects>> /\ Access(w)
      /\ pumping' = [pumping EXCEPT ![w].unchecked = @ \ {i}]
  BY MemoryFacts DEF PumpCheck
<1>2. PICK S : exec' = [exec EXCEPT ![w] = Aborting(@, S)]
  BY DEF PumpCheck
<1>3. Plainly
  BY <1>1, PlainStore
<1>4. /\ pumping' \in [Services -> [on : BOOLEAN, snapshot : SUBSET Slots,
                                    unchecked : SUBSET Slots, last : 0..MaxJobs]]
      /\ \A v \in Services : /\ pumping'[v].snapshot = pumping[v].snapshot
                             /\ pumping'[v].on = pumping[v].on
  BY ZenonT(30), <1>1 DEF ServiceTypes
<1>5. \A v \in Services : /\ pumping'[v].snapshot \subseteq Ids
                          /\ pumping'[v].on => pumping[v].on \/ svc[v] = "open"
  BY <1>1, <1>4 DEF MemoryInv
<1> QED
  BY <1>1, <1>2, <1>3, <1>4, <1>5, AbortStep

\* The pump executes idle jobs of its snapshot.
LEMMA PumpSpawnStep ==
    ASSUME ServiceInv, [ServiceNext]_allVars, NEW w \in Services, PumpSpawn(w)
    PROVE  ServiceInv'
<1> DEFINE line   == Rotation(Candidates(w), pumping[w].last)
           chosen == SubSeq(line, 1, Min({Room(w), Len(line)}))
           idle   == pumping[w].snapshot \ ActiveJobs(w)
           S      == ToSet(chosen)
           last   == IF chosen = <<>> THEN pumping[w].last ELSE Last(chosen)
           begun  == At(Absent, "authorizing")
<1>1. /\ ServiceTypes /\ StoryInv /\ (\A v \in Services : MemoryInv(v))
      /\ UNCHANGED <<vars, svc, granted, effects>> /\ pumping[w].on
      /\ Ids \subseteq Slots /\ pumping[w].snapshot \subseteq Ids /\ MaxJobs \in Nat
  BY MemoryFacts DEF PumpSpawn
<1>2. /\ exec' = [exec EXCEPT ![w] = [i \in Slots |-> IF i \in S THEN begun ELSE @[i]]]
      /\ pumping' = [pumping EXCEPT ![w] = Idle(last)]
  BY DEF PumpSpawn
<1>3. S \subseteq idle /\ (chosen # <<>> => Last(chosen) \in idle)
  <2>1. pumping[w].snapshot \subseteq Slots
    BY <1>1
  <2> QED
    BY <2>1, ChosenAreIdle
<1>4. last \in 0..MaxJobs
  <2>1. pumping[w].last \in 0..MaxJobs
    BY <1>1 DEF ServiceTypes
  <2>2. chosen # <<>> => Last(chosen) \in 1..MaxJobs
    BY <1>1, <1>3 DEF Slots
  <2> HIDE DEF chosen
  <2> QED
    BY <1>1, <2>1, <2>2
<1>5. begun \in Positions /\ begun.at = "authorizing" /\ ~begun.uncertain
  <2>1. Absent \in Positions /\ "authorizing" \in Places
    BY DEF Positions, Places
  <2> QED
    BY <2>1, PlacedPosition
<1>6. S \subseteq Ids /\ \A i \in Slots : i \in S => exec[w][i].at = "none"
  BY <1>1, <1>3 DEF ActiveJobs
<1> HIDE DEF chosen, line, last, begun, S, idle
<1>7. /\ Idle(last) \in [on : BOOLEAN, snapshot : SUBSET Slots, unchecked : SUBSET Slots,
                         last : 0..MaxJobs]
      /\ ~Idle(last).on /\ Idle(last).snapshot = {}
  BY <1>4 DEF Idle
<1>8. [i \in Slots |-> IF i \in S THEN begun ELSE exec[w][i]] \in [Slots -> Positions]
  BY <1>1, <1>5 DEF ServiceTypes
<1>9. ServiceTypes'
  BY <1>1, <1>2, <1>7, <1>8 DEF ServiceTypes
<1>10. \A v \in Services : \A i \in Slots :
          \/ exec'[v][i] = exec[v][i]
          \/ (v = w /\ i \in S /\ exec'[v][i] = begun)
  BY <1>1, <1>2, <1>8 DEF ServiceTypes
<1>11. \A v \in Services : pumping'[v] = pumping[v] \/ pumping'[v] = Idle(last)
  BY <1>1, <1>2 DEF ServiceTypes
<1>12. Plainly
  BY <1>1, PlainStore
<1>13. svc[w] # "closed"
  BY <1>1 DEF MemoryInv
<1>14. ASSUME NEW v \in Services PROVE Remembers(v) /\ \A i \in Slots : Calm(v, i)
  <2>1. lease' = lease /\ svc' = svc
    BY <1>1 DEF vars
  <2>2. \A i \in Slots : Calm(v, i)
    BY <1>5, <1>10 DEF Calm, Streaming
  <2>3. \A i \in Slots :
          /\ exec'[v][i].at # "none" => \/ exec[v][i].at # "none"
                                        \/ i \in Ids /\ svc'[v] # "closed"
          /\ exec'[v][i].uncertain => exec'[v][i].event \in {"run.failed", "run.cancelled"}
    BY <1>1, <1>5, <1>6, <1>10, <1>13, <2>1 DEF MemoryInv
  <2> QED
    BY <1>1, <1>7, <1>11, <2>1, <2>2, <2>3 DEF Remembers, MemoryInv
<1> QED
  BY <1>1, <1>9, <1>12, <1>14, PlainStep

-----------------------------------------------------------------------------
(* The steps of one execution *)

LEMMA QuietPositions ==
    ASSUME NEW w, NEW p \in Positions,
           NEW q \in {Absent, Thrown(w, p), At(p, "waiting"), At(p, "failing")}
    PROVE  q \in Positions /\ q.at \notin Streaming /\ ~q.uncertain
<1>1. Absent \in Positions /\ Absent.at = "none" /\ ~Absent.uncertain
  BY DEF Absent, Positions
<1>2. \A place \in {"waiting", "failing"} :
         At(p, place) \in Positions /\ At(p, place).at = place /\ ~At(p, place).uncertain
  <2>1. "waiting" \in Places /\ "failing" \in Places
    BY DEF Places
  <2> QED
    BY <2>1, PlacedPosition
<1>3. q = Absent \/ q = At(p, "waiting") \/ q = At(p, "failing")
  BY DEF Thrown
<1> QED
  BY <1>1, <1>2, <1>3 DEF Streaming

\* An execution that goes where it streams nothing.
LEMMA QuietMove ==
    ASSUME ServiceInv, [ServiceNext]_allVars, NEW w \in Services, NEW i \in Slots,
           exec[w][i].at # "none",
           NEW q \in {Absent, Thrown(w, exec[w][i]), At(exec[w][i], "waiting"),
                      At(exec[w][i], "failing")},
           Move(w, i, q), UNCHANGED <<svc, pumping, granted, effects>>, Plainly
    PROVE  ServiceInv'
<1>1. ServiceTypes /\ exec[w][i] \in Positions
  BY MemoryFacts
<1>2. q \in Positions /\ q.at \notin Streaming /\ ~q.uncertain
  BY <1>1, QuietPositions
<1>3. \A v \in Services : Calm(v, i)
  BY <1>1, <1>2 DEF Calm, Move, ServiceTypes
<1>4. Moves(i) => JobInv(i)'
  BY <1>3, CalmJob DEF Plainly
<1> QED
  BY <1>1, <1>2, <1>4, MoveStep DEF Plainly, ServiceTypes

LEMMA AuthorizeStep ==
    ASSUME ServiceInv, [ServiceNext]_allVars, NEW w \in Services, NEW i \in Slots,
           Authorize(w, i)
    PROVE  ServiceInv'
<1>1. StoryInv
  BY MemoryFacts
<1>2. Plainly
  BY <1>1, PlainStore DEF Authorize
<1>3. exec[w][i].at # "none" /\ UNCHANGED <<svc, pumping, granted, effects>>
  BY DEF Authorize
<1>4. \/ Move(w, i, Thrown(w, exec[w][i]))
      \/ Move(w, i, At(exec[w][i], "waiting"))
      \/ Move(w, i, Absent)
  BY DEF Authorize
<1> QED
  BY <1>2, <1>3, <1>4, QuietMove

LEMMA StartJobStep ==
    ASSUME ServiceInv, [ServiceNext]_allVars, NEW w \in Services, NEW i \in Slots,
           StartJob(w, i)
    PROVE  ServiceInv'
<1> DEFINE p == exec[w][i]
           q == Yielding(p, "run.started", FALSE)
<1>1. /\ StoryInv /\ ServiceTypes /\ p \in Positions /\ p.at = "waiting" /\ i \in Ids
      /\ UNCHANGED <<svc, pumping, granted, effects>>
  BY MemoryFacts DEF StartJob
<1>2. CASE Start(w, w, i) /\ Move(w, i, q)
  <2>1. /\ jobs[i].state = "queued" /\ jobs[i].log = <<>>
        /\ i \in DOMAIN jobs' /\ jobs'[i].state = "running" /\ jobs'[i].log = <<>>
        /\ \A j : j # i => Aside(j)
    BY <1>1, <1>2, StartedRow
  <2>2. q \in Positions /\ q.at = "yielded" /\ ~q.uncertain
    <3>1. "run.started" \in EventTypes
      BY DEF EventTypes
    <3> HIDE DEF p
    <3> QED
      BY <1>1, <3>1, YieldedPosition
  <2>3. lease' = lease
    BY <1>2 DEF Start
  <2> HIDE DEF q
  <2>4. exec'[w][i] = q /\ \A v \in Services : v # w => exec'[v][i] = exec[v][i]
    BY <1>1, <1>2 DEF Move, ServiceTypes
  <2>5. Moves(i) => JobInv(i)'
    BY <1>1, <2>1, <2>2, <2>4, StartedJob
  <2> QED
    BY <1>1, <1>2, <2>1, <2>2, <2>3, <2>5, MoveStep DEF ServiceTypes
<1>3. CASE /\ UNCHANGED vars \/ Access(w)
           /\ Move(w, i, Thrown(w, p)) \/ Move(w, i, Absent)
  <2>1. Plainly
    BY <1>1, <1>3, PlainStore
  <2> QED
    BY <1>1, <1>3, <2>1, QuietMove
<1> QED
  BY <1>2, <1>3 DEF StartJob

LEMMA GenerateStep ==
    ASSUME ServiceInv, [ServiceNext]_allVars, NEW w \in Services, NEW i \in Slots,
           Generate(w, i)
    PROVE  ServiceInv'
<1> DEFINE p == exec[w][i]
<1>1. /\ StoryInv /\ ServiceTypes /\ p \in Positions /\ p.at \in {"open", "called", "acting"}
      /\ UNCHANGED <<vars, svc, pumping, granted, effects>>
  BY MemoryFacts DEF Generate
<1>2. PICK type \in EventTypes, u \in BOOLEAN :
         /\ Move(w, i, Yielding(p, type, u))
         /\ u => type \in {"run.failed", "run.cancelled"}
         /\ p.at = "acting" => \/ type = "tool.completed"
                               \/ type \in Closing /\ u
  <2>1. {"run.cancelled", "run.failed", "tool.called", "run.completed", "tool.completed"}
            \subseteq EventTypes
    BY JobServiceAssumption DEF EventTypes, Closing
  <2>2. ToolOutcomePending(p) \in BOOLEAN /\ (ToolOutcomePending(p) <=> p.at = "acting")
    BY DEF ToolOutcomePending
  <2>3. \/ \E type \in {"run.cancelled", "run.failed"} :
              Move(w, i, Yielding(p, type, ToolOutcomePending(p)))
        \/ p.at = "open" /\ \E type \in {"tool.called", "run.completed"} :
                                Move(w, i, Yielding(p, type, FALSE))
        \/ Move(w, i, Yielding(p, "tool.completed", FALSE))
    BY DEF Generate
  <2> HIDE DEF p
  <2>4. CASE \E type \in {"run.cancelled", "run.failed"} :
                 Move(w, i, Yielding(p, type, ToolOutcomePending(p)))
    BY <2>1, <2>2, <2>4 DEF Closing
  <2>5. CASE p.at = "open" /\ \E type \in {"tool.called", "run.completed"} :
                                  Move(w, i, Yielding(p, type, FALSE))
    BY <2>1, <2>5
  <2>6. CASE Move(w, i, Yielding(p, "tool.completed", FALSE))
    BY <2>1, <2>6
  <2> QED
    BY <2>3, <2>4, <2>5, <2>6
<1> DEFINE q == Yielding(p, type, u)
<1>3. q \in Positions /\ q.at = "yielded" /\ q.event = type /\ q.uncertain = u
  <2> HIDE DEF p
  <2> QED
    BY <1>1, YieldedPosition
<1>4. Move(w, i, q)
  BY <1>2
<1> HIDE DEF q
<1>5. exec'[w][i] = q /\ \A v \in Services : v # w => exec'[v][i] = exec[v][i]
  BY <1>1, <1>4 DEF Move, ServiceTypes
<1>6. jobs' = jobs /\ lease' = lease
  BY <1>1 DEF vars
<1>7. Moves(i) => JobInv(i)'
  BY <1>1, <1>2, <1>3, <1>5, <1>6, GeneratedJob
<1>8. \A j \in Slots : Aside(j)
  BY <1>1, <1>6, AccessAside
<1> QED
  BY <1>1, <1>2, <1>3, <1>4, <1>6, <1>7, <1>8, MoveStep DEF ServiceTypes

LEMMA ActStep ==
    ASSUME ServiceInv, [ServiceNext]_allVars, NEW w \in Services, NEW i \in Slots, Act(w, i)
    PROVE  ServiceInv'
<1> DEFINE p == exec[w][i]
           q == At(p, "acting")
<1>1. /\ StoryInv /\ ServiceTypes /\ p \in Positions /\ p.at = "called"
      /\ UNCHANGED <<vars, svc, pumping, granted>>
      /\ effects' = [effects EXCEPT ![i] = @ + 1] /\ Move(w, i, q)
  BY MemoryFacts DEF Act
<1>2. q \in Positions /\ q.at = "acting" /\ ~q.uncertain
  <2>1. "acting" \in Places
    BY DEF Places
  <2> HIDE DEF p
  <2> QED
    BY <1>1, <2>1, PlacedPosition
<1> HIDE DEF q
<1>3. exec'[w][i] = q /\ \A v \in Services : v # w => exec'[v][i] = exec[v][i]
  BY <1>1 DEF Move, ServiceTypes
<1>4. jobs' = jobs /\ lease' = lease
  BY <1>1 DEF vars
<1>5. /\ effects' \in [Slots -> Nat] /\ effects'[i] = effects[i] + 1
      /\ \A j \in Slots : j # i => effects'[j] = effects[j]
  BY <1>1 DEF ServiceTypes
<1>6. Moves(i) => JobInv(i)'
  BY <1>1, <1>2, <1>3, <1>4, <1>5, ActedJob
<1>7. \A j \in Slots : Aside(j)
  BY <1>1, <1>4, AccessAside
<1> QED
  BY <1>1, <1>2, <1>4, <1>5, <1>6, <1>7, MoveStep

LEMMA CommitStep ==
    ASSUME ServiceInv, [ServiceNext]_allVars, NEW w \in Services, NEW i \in Slots,
           Commit(w, i)
    PROVE  ServiceInv'
<1> DEFINE p == exec[w][i]
           e == [type |-> p.event, uncertain |-> p.uncertain]
           q == Resumed(p)
<1>1. /\ StoryInv /\ ServiceTypes /\ p \in Positions /\ p.at = "yielded" /\ i \in Ids
      /\ UNCHANGED <<svc, pumping, granted, effects>>
  BY MemoryFacts DEF Commit
<1>2. CASE AppendEvent(w, w, i, Len(jobs[i].log) + 1, e) /\ Move(w, i, q)
  <2>1. e \in Event /\ e.type = p.event /\ e.uncertain = p.uncertain
    BY <1>1, PositionKinds DEF Event
  <2>2. e \in DriverEvents
    BY <2>1 DEF ServiceInv, MemoryInv, DriverEvents
  <2>3. q \in Positions /\ ~q.uncertain
    <3>1. Absent \in Positions /\ ~Absent.uncertain
      BY DEF Absent, Positions
    <3>2. \A place \in {"called", "open"} : At(p, place) \in Positions /\ ~At(p, place).uncertain
      <4>1. "called" \in Places /\ "open" \in Places
        BY DEF Places
      <4> HIDE DEF p
      <4> QED
        BY <1>1, <4>1, PlacedPosition
    <3> QED
      BY <3>1, <3>2 DEF Resumed
  <2> HIDE DEF e, q
  <2>4. /\ jobs[i].state = "running"
        /\ i \in DOMAIN jobs' /\ jobs'[i].state = ClosedState(e.type)
        /\ jobs'[i].log = Append(jobs[i].log, e)
        /\ \A j : j # i => Aside(j)
    BY <1>1, <1>2, <2>2, AppendedTo
  <2>5. exec'[w][i] = q /\ \A v \in Services : v # w => exec'[v][i] = exec[v][i]
    BY <1>1, <1>2 DEF Move, ServiceTypes
  <2>6. Moves(i) => JobInv(i)'
    BY <1>1, <2>1, <2>4, <2>5, CommittedJob DEF q
  <2>7. lease' = lease
    BY <1>2 DEF AppendEvent
  <2> QED
    BY <1>1, <1>2, <2>3, <2>4, <2>6, <2>7, MoveStep DEF ServiceTypes
<1>3. CASE Access(w) /\ Move(w, i, Thrown(w, p))
  <2>1. Plainly
    BY <1>1, <1>3, PlainStore
  <2> QED
    BY <1>1, <1>3, <2>1, QuietMove
<1> QED
  BY <1>2, <1>3 DEF Commit


LEMMA FailJobStep ==
    ASSUME ServiceInv, [ServiceNext]_allVars, NEW w \in Services, NEW i \in Slots,
           FailJob(w, i)
    PROVE  ServiceInv'
<1> DEFINE gone == [exec EXCEPT ![w][i] = Absent]
<1>1. /\ ServiceTypes /\ StoryInv /\ (\A v \in Services : MemoryInv(v))
      /\ exec[w][i].at = "failing" /\ i \in Ids
      /\ UNCHANGED <<pumping, granted, effects>>
  BY MemoryFacts DEF FailJob
<1>2. CASE UNCHANGED svc /\ (Access(w) \/ Fail(w, w, i)) /\ Move(w, i, Absent)
  <2>1. Plainly
    BY <1>1, <1>2, PlainStore
  <2> QED
    BY <1>1, <1>2, <2>1, QuietMove
<1>3. CASE /\ Access(w) /\ svc' = Broken(w)
           /\ exec' = [gone EXCEPT ![w] = Aborting(@, Slots)]
  <2>1. Plainly
    BY <1>1, <1>3, PlainStore
  <2>2. Absent \in Positions /\ Absent.at = "none" /\ ~Absent.uncertain
    BY DEF Absent, Positions
  <2>3. /\ gone \in [Services -> [Slots -> Positions]] /\ gone[w][i] = Absent
        /\ \A v \in Services : \A j \in Slots : v # w \/ j # i => gone[v][j] = exec[v][j]
    BY <1>1, <2>2 DEF ServiceTypes
  <2> HIDE DEF gone
  <2>4. /\ exec' \in [Services -> [Slots -> Positions]]
        /\ \A v \in Services : \A j \in Slots :
              /\ exec'[v][j].at = gone[v][j].at
              /\ exec'[v][j].event = gone[v][j].event
              /\ exec'[v][j].uncertain = gone[v][j].uncertain
    BY <1>3, <2>3, AbortingMovesNothing
  <2>5. \A v \in Services : \A j \in Slots :
           \/ exec'[v][j].at = "none" /\ ~exec'[v][j].uncertain
           \/ /\ exec'[v][j].at = exec[v][j].at
              /\ exec'[v][j].event = exec[v][j].event
              /\ exec'[v][j].uncertain = exec[v][j].uncertain
    BY <2>2, <2>3, <2>4
  <2>6. \A v \in Services : \A j \in Slots : Calm(v, j)
    BY <2>5 DEF Calm, Streaming
  <2>7. /\ svc' \in [Services -> {"new", "open", "fatal", "closing", "draining",
                                 "closed", "crashed"}]
        /\ \A v \in Services : svc'[v] = svc[v] \/ (svc[v] = "open" /\ svc'[v] = "fatal")
    BY <1>1, <1>3 DEF ServiceTypes, Broken
  <2>8. ServiceTypes'
    BY <1>1, <2>4, <2>7 DEF ServiceTypes
  <2>9. ASSUME NEW v \in Services PROVE Remembers(v)
    <3>1. v # NoOwner
      BY JobStoreAssumption, JobServiceAssumption
    <3> QED
      BY <1>1, <2>1, <2>5, <2>7, <3>1 DEF Remembers, MemoryInv, Plainly
  <2> QED
    BY <1>1, <2>1, <2>6, <2>8, <2>9, PlainStep
<1> QED
  BY <1>2, <1>3 DEF FailJob, Move

-----------------------------------------------------------------------------
(* Clients and the environment *)

\* The services' memory stays as it is.
LEMMA StillStep ==
    ASSUME ServiceInv, [ServiceNext]_allVars, Plainly,
           UNCHANGED <<svc, pumping, exec, effects>>, granted' \in BOOLEAN
    PROVE  ServiceInv'
<1>1. ServiceTypes /\ (\A v \in Services : MemoryInv(v))
  BY MemoryFacts
<1>2. ServiceTypes'
  BY <1>1 DEF ServiceTypes
<1>3. ASSUME NEW v \in Services PROVE Remembers(v) /\ \A i \in Slots : Calm(v, i)
  <2>1. v # NoOwner
    BY JobStoreAssumption, JobServiceAssumption
  <2> QED
    BY <1>1, <2>1 DEF Remembers, MemoryInv, Calm, Plainly
<1> QED
  BY <1>2, <1>3, PlainStep

LEMMA CancelJobStep ==
    ASSUME ServiceInv, [ServiceNext]_allVars, NEW w \in Services, NEW s \in Subjects,
           NEW i \in Ids, CancelJob(w, s, i)
    PROVE  ServiceInv'
<1>1. /\ ServiceTypes /\ StoryInv /\ (\A v \in Services : MemoryInv(v))
      /\ UNCHANGED <<svc, pumping, granted, effects>> /\ (Access(w) \/ Cancel(w, s, i))
      /\ exec' = [exec EXCEPT ![w] = Aborting(@, {i})]
  BY MemoryFacts DEF CancelJob
<1>2. Plainly
  BY <1>1, PlainStore
<1>3. \A v \in Services : pumping'[v].snapshot \subseteq Ids
  BY <1>1 DEF MemoryInv
<1> QED
  BY <1>1, <1>2, <1>3, AbortStep DEF ServiceTypes

LEMMA EnvironmentStep ==
    ASSUME ServiceInv, [ServiceNext]_allVars,
           \/ \E w \in Services, s \in Subjects, k \in Keys, p \in Prints : SubmitJob(w, s, k, p)
           \/ Revoke \/ Pass \/ UNCHANGED allVars
    PROVE  ServiceInv'
<1>1. ServiceTypes /\ StoryInv
  BY MemoryFacts
<1>2. UNCHANGED <<svc, pumping, exec, effects>> /\ granted' \in BOOLEAN
  BY <1>1 DEF SubmitJob, Revoke, Pass, allVars, serviceVars, ServiceTypes
<1>3. \/ \E w \in Services, s \in Subjects, k \in Keys, p \in Prints : Submit(w, s, k, p)
      \/ Tick \/ UNCHANGED vars
  BY DEF SubmitJob, Revoke, Pass, allVars
<1>4. Plainly
  BY <1>1, <1>3, PlainStore
<1> QED
  BY <1>2, <1>4, StillStep

LEMMA ServiceKeeps == ASSUME ServiceInv, [ServiceNext]_allVars PROVE ServiceInv'
<1>1. ASSUME NEW w \in Services, NEW i \in Slots, Execute(w, i) PROVE ServiceInv'
  BY <1>1, AuthorizeStep, StartJobStep, GenerateStep, ActStep, CommitStep, FailJobStep
  DEF Execute
<1>2. ASSUME NEW w \in Services, Pump(w) PROVE ServiceInv'
  BY <1>2, PumpReadStep, PumpCheckStep, PumpSpawnStep DEF Pump
<1>3. ASSUME NEW w \in Services, OpenStore(w) \/ Crash(w) \/ BeginClose(w) PROVE ServiceInv'
  BY <1>3, LifeSteps
<1>4. ASSUME NEW w \in Services,
             OpenService(w) \/ Heartbeat(w) \/ FenceClose(w) \/ EndClose(w)
      PROVE  ServiceInv'
  BY <1>4, OpenServiceStep, HeartbeatStep, FenceCloseStep, EndCloseStep
<1>5. ASSUME NEW w \in Services, NEW s \in Subjects, NEW i \in Ids, CancelJob(w, s, i)
      PROVE  ServiceInv'
  BY <1>5, CancelJobStep
<1>6. CASE \/ \E w \in Services, s \in Subjects, k \in Keys, p \in Prints : SubmitJob(w, s, k, p)
           \/ Revoke \/ Pass \/ UNCHANGED allVars
  BY <1>6, EnvironmentStep
<1> QED
  BY <1>1, <1>2, <1>3, <1>4, <1>5, <1>6 DEF ServiceNext, ServiceStep

LEMMA ServiceBegins == ASSUME ServiceInit PROVE ServiceInv
<1>1. StoryInv /\ TypeOK
  BY StoryBegins DEF ServiceInit, StoryInv
<1>2. generation = 0 /\ jobs = <<>> /\ Len(jobs) = 0 /\ Ids = {}
  BY DEF ServiceInit, Init, Ids
<1>3. MaxJobs \in Nat
  BY JobStoreAssumption
<1>4. ServiceTypeOK
  BY <1>1, <1>3 DEF ServiceInit, ServiceTypeOK, Idle, Positions
<1>5. \A w \in Services : MemoryInv(w)
  BY <1>2 DEF ServiceInit, MemoryInv, Idle, Absent
<1>6. \A i \in Slots : JobInv(i)
  BY <1>2 DEF ServiceInit, JobInv, Executor, Counted, Confirmed, Doubted, Streams, Streaming,
              Absent, Called, Completed, Logged
<1> QED
  BY <1>1, <1>2, <1>3, <1>4, <1>5, <1>6 DEF ServiceInv

LEMMA ServiceHolds == ServiceSpec => []ServiceInv
<1>1. ServiceInit => ServiceInv
  BY ServiceBegins
<1>2. ServiceInv /\ [ServiceNext]_allVars => ServiceInv'
  BY ServiceKeeps
<1> QED
  BY <1>1, <1>2, PTL DEF ServiceSpec

-----------------------------------------------------------------------------
(* The theorems *)

\* The services are clients of the store: whatever they do together, the database
\* sees a behaviour of JobStore, so each theorem about the store holds of theirs.
THEOREM ServiceUsesStore == ServiceSpec => Spec
<1>1. ServiceInit => Init
  BY DEF ServiceInit
<1>2. ServiceInv /\ [ServiceNext]_allVars => [Next]_vars
  BY StoreStep
<1> QED
  BY <1>1, <1>2, ServiceHolds, PTL DEF ServiceSpec, Spec

\* At most one service streams a job, although a fenced one goes on until it
\* notices, and a service that closed executes nothing and owns nothing, however
\* close and the pump interleaved.
THEOREM ServiceSound == ServiceSpec => []ServiceIsSound
<1>1. ServiceInv => ServiceIsSound
  <2> SUFFICES ASSUME ServiceInv PROVE ServiceIsSound
    OBVIOUS
  <2>1. ServiceTypeOK
    BY DEF ServiceInv
  <2>2. OneExecutor
    BY DEF ServiceInv, JobInv, Executor, Streams, OneExecutor
  <2>3. ClosedIsQuiet
    BY DEF ServiceInv, MemoryInv, ClosedIsQuiet
  <2> QED
    BY <2>1, <2>2, <2>3 DEF ServiceIsSound
<1> QED
  BY <1>1, ServiceHolds, PTL

\* "Commit a tool.called event before requesting the next item": no tool runs
\* ahead of its call in the durable log, over crashes, takeovers and lapses.
THEOREM EffectsLogged == ServiceSpec => []EffectsAreLogged
<1>1. ServiceInv => EffectsAreLogged
  BY DEF ServiceInv, JobInv, Counted, Called, EffectsAreLogged
<1> QED
  BY <1>1, ServiceHolds, PTL

\* A job that ended with fewer results in its log than effects in the world has
\* an uncertain outcome, whether its generator, a cancellation, the end of a lease
\* or the recovery of another service ended it.
THEOREM UnconfirmedUncertain == ServiceSpec => []UnconfirmedIsUncertain
<1>1. ServiceInv => UnconfirmedIsUncertain
  <2> SUFFICES ASSUME ServiceInv, NEW i \in Ids, jobs[i].state \in Terminal,
                      effects[i] > Logged(i, "tool.completed")
               PROVE  IsUncertain(jobs[i])
    BY DEF UnconfirmedIsUncertain
  <2>1. i \in Slots
    BY MemoryFacts
  <2>2. Doubted(i) /\ effects[i] \in Nat
    BY <2>1 DEF ServiceInv, JobInv, ServiceTypeOK
  <2>3. Logged(i, "tool.completed") \in Nat
    <3>1. jobs[i].log \in Seq(Event)
      BY RowsOfTable DEF ServiceInv, StoryInv, TypeOK, Ids, Row
    <3> QED
      BY <3>1, CountType DEF Logged, Count
  <2> QED
    BY <2>2, <2>3 DEF Doubted, Completed
<1> QED
  BY <1>1, ServiceHolds, PTL

\* Maintenance interrupts only what a lapsed lease left running.
LEMMA MaintainedLive ==
    ASSUME TypeOK, ~Lapsed, NEW i \in Ids
    PROVE  Maintained[i].log = jobs[i].log /\ Maintained[i].state = jobs[i].state
<1>1. jobs \in Seq(Row) /\ Maintained = EraseExpired(jobs) /\ jobs[i] \in Row
  BY DEF TypeOK, Maintained, Ids
<1>2. Maintained[i] \in {jobs[i], [jobs[i] EXCEPT !.erased = TRUE]}
  BY <1>1, EraseExpiredRows DEF Ids
<1> QED
  BY <1>1, <1>2 DEF Row

\* What service w may do to the row of a job.
WritesAsOwner(w, i) ==
    \/ jobs'[i].log = jobs[i].log /\ jobs'[i].state = jobs[i].state
    \/ Live /\ lease.owner = w
    \/ Lapsed /\ jobs'[i].state = "interrupted"
    \/ jobs[i].state = "queued" /\ jobs'[i].state = "cancelled"

\* A client's cancellation ends a queued job, and flags any other.
LEMMA CancelWrites ==
    ASSUME TypeOK, NEW h \in Handles, NEW s \in Subjects, NEW j \in Ids, NEW i \in Ids,
           NEW w \in Services, Cancel(h, s, j)
    PROVE  WritesAsOwner(w, i)
<1> DEFINE asked == [Maintained[j] EXCEPT !.cancelRequested = TRUE]
           row == IF asked.state = "queued" THEN Ended(asked, "cancelled", FALSE)
                                            ELSE Classified(asked)
<1>1. /\ Maintained \in Seq(Row) /\ DOMAIN Maintained = Ids
      /\ Maintained[i] \in Row /\ Maintained[j] \in Row
  BY MaintainedRows
<1>2. \/ Maintained[i].log = jobs[i].log /\ Maintained[i].state = jobs[i].state
      \/ Lapsed /\ Maintained[i].state = "interrupted"
  BY MaintainedStories, MaintainedLive
<1>3. jobs' = [Maintained EXCEPT ![j] = row]
  BY DEF Cancel
<1>4. CASE i # j
  BY <1>1, <1>2, <1>3, <1>4 DEF WritesAsOwner
<1>5. CASE i = j
  <2>1. /\ asked \in Row /\ asked.state = Maintained[i].state
        /\ asked.log = Maintained[i].log
    BY <1>1, <1>5, WrittenRows DEF Row
  <2>2. jobs'[i] = row
    BY <1>1, <1>3, <1>5
  <2> HIDE DEF asked
  <2>3. CASE asked.state = "queued"
    <3>1. jobs'[i].state = "cancelled"
      BY <2>1, <2>2, <2>3, EndedRow
    <3>2. jobs[i].state = "queued"
      BY <1>2, <2>1, <2>3
    <3> QED
      BY <3>1, <3>2 DEF WritesAsOwner
  <2>4. CASE asked.state # "queued"
    <3>1. Classified(asked).log = asked.log /\ Classified(asked).state = asked.state
      BY <2>1 DEF Classified, Row
    <3> QED
      BY <1>2, <2>1, <2>2, <2>4, <3>1 DEF WritesAsOwner
  <2> QED
    BY <2>3, <2>4
<1> QED
  BY <1>4, <1>5

\* "The old owner cannot renew or append results once fenced": whatever service moves
\* an execution on, it changes what the job's row says only as the owner of a live
\* lease, apart from the recovery of a lapsed one and the cancellation of a queued
\* job: a service that wakes up under another's lease writes nothing.
THEOREM FencedWorkersWriteNothing == ServiceSpec => WorkersAreFenced
<1>1. ASSUME ServiceInv, [ServiceNext]_allVars, NEW w \in Services, NEW i \in Ids,
             exec'[w][i] # exec[w][i]
      PROVE  WritesAsOwner(w, i)
  <2>1. /\ TypeOK /\ ServiceTypes /\ i \in Slots /\ jobs[i] \in Row
    BY <1>1, MemoryFacts DEF StoryInv, TypeOK, Ids
  <2>2. \/ Maintained[i].log = jobs[i].log /\ Maintained[i].state = jobs[i].state
        \/ Lapsed /\ Maintained[i].state = "interrupted"
    BY <2>1, MaintainedStories, MaintainedLive
  <2>3. jobs' = Maintained \/ jobs' = jobs \/ (Live /\ lease.owner = w) => WritesAsOwner(w, i)
    BY <2>2 DEF WritesAsOwner
  <2>4. ASSUME NEW v \in Services, NEW q, exec' = [exec EXCEPT ![v] = q] PROVE v = w
    BY <1>1, <2>1, <2>4 DEF ServiceTypes
  <2>5. ASSUME NEW v \in Services, NEW j \in Slots, NEW q, Move(v, j, q) PROVE v = w
    BY <1>1, <2>1, <2>5 DEF ServiceTypes, Move
  <2>6. ASSUME NEW v \in Services, Worker(v, v) PROVE Live /\ lease.owner = v
    BY <2>6 DEF Worker, Holds
  <2>7. ASSUME NEW v \in Services, NEW j \in Slots, Execute(v, j)
        PROVE  WritesAsOwner(w, i)
    <3>1. CASE Authorize(v, j) \/ Generate(v, j) \/ Act(v, j)
      BY <2>3, <3>1 DEF Authorize, Generate, Act, vars, dbVars
    <3>2. CASE StartJob(v, j)
      <4>1. v = w
        BY <2>5, <3>2 DEF StartJob
      <4>2. UNCHANGED vars \/ Worker(w, w) \/ Access(w)
        BY <3>2, <4>1 DEF StartJob, Start
      <4> QED
        BY <2>3, <2>6, <4>2 DEF Access, vars, dbVars
    <3>3. CASE Commit(v, j)
      <4>1. v = w
        BY <2>5, <3>3 DEF Commit
      <4>2. Worker(w, w) \/ Access(w)
        BY <3>3, <4>1 DEF Commit, AppendEvent
      <4> QED
        BY <2>3, <2>6, <4>2 DEF Access
    <3>4. CASE FailJob(v, j)
      <4>1. Worker(v, v) \/ Access(v)
        BY <3>4 DEF FailJob, Fail
      <4>2. CASE Access(v)
        BY <2>3, <4>2 DEF Access
      <4>3. CASE Worker(v, v) /\ ~Access(v)
        <5>1. exec' = [exec EXCEPT ![v][j] = Absent]
          BY <3>4, <4>3 DEF FailJob
        <5>2. v = w
          BY <1>1, <2>1, <5>1 DEF ServiceTypes
        <5> QED
          BY <2>3, <2>6, <4>3, <5>2
      <4> QED
        BY <4>1, <4>2, <4>3
    <3> QED
      BY <2>7, <3>1, <3>2, <3>3, <3>4 DEF Execute
  <2>8. ASSUME NEW v \in Services, ServiceStep(v) PROVE WritesAsOwner(w, i)
    <3>1. CASE OpenStore(v) \/ Crash(v) \/ BeginClose(v) \/ EndClose(v)
      BY <2>3, <3>1 DEF OpenStore, Crash, BeginClose, EndClose, Open, Close, vars, dbVars
    <3>2. CASE OpenService(v)
      BY <2>3, <3>2 DEF OpenService, Acquire
    <3>3. CASE Heartbeat(v)
      BY <2>3, <3>3 DEF Heartbeat, Renew, Access
    <3>4. CASE FenceClose(v)
      <4>1. v = w
        BY <2>4, <3>4 DEF FenceClose
      <4>2. Worker(w, w) \/ Access(w)
        BY <3>4, <4>1 DEF FenceClose, Release
      <4> QED
        BY <2>3, <2>6, <4>2 DEF Access
    <3>5. CASE Pump(v)
      BY <2>3, <3>5 DEF Pump, PumpRead, PumpCheck, PumpSpawn, Access, vars, dbVars
    <3>6. ASSUME NEW j \in Slots, Execute(v, j) PROVE WritesAsOwner(w, i)
      BY <2>7, <3>6
    <3>7. ASSUME NEW s \in Subjects, NEW k \in Keys, NEW p \in Prints, SubmitJob(v, s, k, p)
          PROVE  WritesAsOwner(w, i)
      BY <1>1, <3>7 DEF SubmitJob, serviceVars
    <3>8. ASSUME NEW s \in Subjects, NEW j \in Ids, CancelJob(v, s, j)
          PROVE  WritesAsOwner(w, i)
      <4>1. v \in Handles
        BY JobServiceAssumption
      <4>2. CASE Cancel(v, s, j)
        BY <2>1, <3>8, <4>1, <4>2, CancelWrites
      <4>3. CASE Access(v)
        BY <2>3, <4>3 DEF Access
      <4> QED
        BY <3>8, <4>2, <4>3 DEF CancelJob
    <3> QED
      BY <2>8, <3>1, <3>2, <3>3, <3>4, <3>5, <3>6, <3>7, <3>8 DEF ServiceStep
  <2>9. CASE Revoke \/ Pass \/ UNCHANGED allVars
    BY <2>3, <2>9 DEF Revoke, Pass, Tick, serviceVars, allVars, vars, dbVars
  <2> QED
    BY <1>1, <2>8, <2>9 DEF ServiceNext
<1>2. ServiceInv /\ [ServiceNext]_allVars =>
         [\A w \in Services : \A i \in Ids :
             exec'[w][i] # exec[w][i] => WritesAsOwner(w, i)]_allVars
  BY <1>1
<1> QED
  BY <1>2, ServiceHolds, PTL DEF ServiceSpec, WorkersAreFenced, WritesAsOwner

=============================================================================
