----------------------------- MODULE JobService -----------------------------
(***************************************************************************)
(* JobService: the workers that execute the jobs of a SqliteJobStore.      *)
(*                                                                         *)
(* A service is one JobService object with its own worker UUID and store   *)
(* handle, both named by the service here: a restarted host is another     *)
(* service.  Between two awaits a service runs alone in its process, and a *)
(* store call is one synchronous transaction.  So an action is what        *)
(* happens from one await to the next; other services, clients and the     *)
(* clock move between any two.                                             *)
(*                                                                         *)
(* driver.stream is a generator: after yielding an event it does nothing   *)
(* until execute asks for the next one, and execute asks only once append  *)
(* has committed the event.                                                *)
(*                                                                         *)
(* The services open the store in its original layout, without handoff.    *)
(***************************************************************************)
EXTENDS JobStore, SequencesExt

CONSTANTS Services,
          MaxWorkers,
          Contended     \* the jobs whose account the shared scheduler may find busy

Slots == 1..MaxJobs

ASSUME JobServiceAssumption ==
    /\ Handles = Services /\ Owners = Services
    /\ MaxGeneration = 0
    /\ MaxWorkers \in Nat \ {0}
    /\ Progress = {"tool.called", "tool.completed"}
    /\ Contended \subseteq Slots

VARIABLES
    svc,       \* the life of each service
    pumping,   \* its pump: the snapshot, the entries unchecked, lastCandidate
    exec,      \* its active map: where each execute call is
    granted,   \* the submitting credential still grants the jobs' operations
    effects    \* history: how often each job's tool ran

serviceVars == <<svc, pumping, exec, granted, effects>>
allVars == <<vars, serviceVars>>

-----------------------------------------------------------------------------
(* Service state *)

Idle(last) == [on |-> FALSE, snapshot |-> {}, unchecked |-> {}, last |-> last]

\* No execute call; otherwise the await or generator position it is at, the
\* event it holds, and whether its own controller is aborted.
Absent == [at |-> "none", event |-> "none", uncertain |-> FALSE, aborted |-> FALSE]

Places == {"authorizing", "waiting", "open", "called", "acting", "failing"}

Positions ==
    {Absent}
    \cup [at : Places, event : {"none"}, uncertain : {FALSE}, aborted : BOOLEAN]
    \cup [at : {"yielded"}, event : EventTypes, uncertain : BOOLEAN, aborted : BOOLEAN]

At(p, place) == [p EXCEPT !.at = place, !.event = "none", !.uncertain = FALSE]

Yielding_Running(p, type, uncertain) ==
    IF type = "tool.called" THEN At(p, "called")
    ELSE [p EXCEPT !.at = "yielded", !.event = type, !.uncertain = uncertain]

Yielding(p, type, uncertain) ==
    [p EXCEPT !.at = "yielded", !.event = type, !.uncertain = uncertain]

\* From start until the end of the stream.
Streaming == {"yielded", "open", "called", "acting"}

ToolOutcomePending_Never(p) == FALSE

\* toolOutcomePending, in the driver: the tool was called and has not answered.
ToolOutcomePending(p) == p.at = "acting"

\* this.active
ActiveJobs(w) == {i \in Slots : exec[w][i].at # "none"}

\* The service's own controller is aborted.
Stopped(w) == svc[w] # "open"

Move(w, i, position) == exec' = [exec EXCEPT ![w][i] = position]

\* The controllers of the active ones among the jobs S are aborted.
Aborting(positions, S) ==
    [i \in Slots |-> IF i \in S /\ positions[i].at # "none"
                     THEN [positions[i] EXCEPT !.aborted = TRUE]
                     ELSE positions[i]]

\* fatal: the service's controller aborts and with it every active one.
Broken(w) == [svc EXCEPT ![w] = IF @ = "open" THEN "fatal" ELSE @]
Fatal(w) ==
    /\ svc' = Broken(w)
    /\ exec' = [exec EXCEPT ![w] = Aborting(@, Slots)]

-----------------------------------------------------------------------------
(* Starting and stopping *)

ServiceInit ==
    /\ Init
    /\ svc = [w \in Services |-> "new"]
    /\ pumping = [w \in Services |-> Idle(0)]
    /\ exec = [w \in Services |-> [i \in Slots |-> Absent]]
    /\ granted = TRUE
    /\ effects = [i \in Slots |-> 0]

\* SqliteJobStore.open for the service's store.
OpenStore(w) ==
    /\ svc[w] = "new"
    /\ Open(w)
    /\ UNCHANGED serviceVars

\* JobService.open acquires the store; with JOB_WORKER_BUSY it throws, and the
\* host may try again.
OpenService(w) ==
    /\ svc[w] = "new"
    /\ Acquire(w, w)
    /\ svc' = [svc EXCEPT ![w] = "open"]
    /\ UNCHANGED <<pumping, exec, granted, effects>>

\* The process dies: everything in memory is gone, the database stays.
Crash(w) ==
    /\ svc[w] \in {"open", "fatal", "closing", "draining"}
    /\ Close(w)
    /\ svc' = [svc EXCEPT ![w] = "crashed"]
    /\ exec' = [exec EXCEPT ![w] = [i \in Slots |-> Absent]]
    /\ pumping' = [pumping EXCEPT ![w] = Idle(0)]
    /\ UNCHANGED <<granted, effects>>

\* renew, on the heartbeat.
Heartbeat(w) ==
    /\ ~Stopped(w)
    /\ \/ Renew(w, w) /\ UNCHANGED <<svc, exec>>
       \/ ~Worker(w, w) /\ Access(w) /\ Fatal(w)
    /\ UNCHANGED <<pumping, granted, effects>>

\* close: abort the service's controller, then wait for pump and renew.
BeginClose(w) ==
    /\ svc[w] \in {"open", "fatal"}
    /\ svc' = [svc EXCEPT ![w] = "closing"]
    /\ UNCHANGED <<vars, pumping, exec, granted, effects>>

\* "Fence before waiting for arbitrary provider/tool teardown": release the
\* store, with a lost lease ignored, and abort what still runs.
FenceClose(w) ==
    /\ svc[w] = "closing"
    /\ ~pumping[w].on
    /\ \/ Release(w, w)
       \/ ~Worker(w, w) /\ Access(w)
    /\ svc' = [svc EXCEPT ![w] = "draining"]
    /\ exec' = [exec EXCEPT ![w] = Aborting(@, Slots)]
    /\ UNCHANGED <<pumping, granted, effects>>

EndClose_AtOnce(w) ==
    /\ svc[w] = "draining"
    /\ svc' = [svc EXCEPT ![w] = "closed"]
    /\ UNCHANGED <<vars, pumping, exec, granted, effects>>

\* Every pending execution has settled.
EndClose(w) ==
    /\ svc[w] = "draining"
    /\ ActiveJobs(w) = {}
    /\ svc' = [svc EXCEPT ![w] = "closed"]
    /\ UNCHANGED <<vars, pumping, exec, granted, effects>>

-----------------------------------------------------------------------------
(* The pump *)

\* kick, from the poll timer or a submission: take the snapshot of the queue.
PumpRead(w) ==
    /\ ~Stopped(w)
    /\ ~pumping[w].on
    /\ Access(w)
    /\ IF Worker(w, w)
       THEN /\ pumping' = [pumping EXCEPT ![w].on = TRUE,
                  ![w].snapshot = {i \in Ids : jobs'[i].state = "queued"},
                  ![w].unchecked = ActiveJobs(w)]
            /\ UNCHANGED <<svc, exec>>
       ELSE Fatal(w) /\ UNCHANGED pumping
    /\ UNCHANGED <<granted, effects>>

\* For one active entry: resolve the principal again, then read the record; a
\* record that expired is not looked at.
PumpCheck(w, i) ==
    /\ pumping[w].on
    /\ i \in pumping[w].unchecked \cap ActiveJobs(w)
    /\ Access(w)
    /\ pumping' = [pumping EXCEPT ![w].unchecked = @ \ {i}]
    /\ LET revoked == ~granted \/ Stopped(w)
           asked   == ~jobs'[i].erased /\ jobs'[i].cancelRequested
       IN  exec' = [exec EXCEPT ![w] =
                       Aborting(@, IF revoked \/ asked THEN {i} ELSE {})]
    /\ UNCHANGED <<svc, granted, effects>>

\* The subjects take turns: the first queued job of each, then the second.
Candidates(w) ==
    LET idle    == pumping[w].snapshot \ ActiveJobs(w)
        of(i)   == {j \in idle : jobs[j].subject = jobs[i].subject}
        turn(i) == Cardinality({j \in of(i) : j < i})
        before(i, j) == \/ turn(i) < turn(j)
                        \/ turn(i) = turn(j) /\ Min(of(i)) < Min(of(j))
    IN  CHOOSE line \in [1..Cardinality(idle) -> idle] :
            \A m, n \in 1..Cardinality(idle) : m < n => before(line[m], line[n])

Rotation_None(s, last) == s

\* "Rotate even when admission rejects a candidate": begin after lastCandidate.
Rotation(s, last) ==
    LET offset == IF last \in ToSet(s)
                  THEN CHOOSE n \in DOMAIN s : s[n] = last ELSE 0
    IN  SubSeq(s, offset + 1, Len(s)) \o SubSeq(s, 1, offset)

\* How many candidates maxWorkers leaves room for.
Room(w) ==
    LET busy == Cardinality(ActiveJobs(w))
    IN  IF Stopped(w) \/ busy > MaxWorkers THEN 0 ELSE MaxWorkers - busy

\* Execute the first candidates of the rotation, as far as there is room.
PumpSpawn(w) ==
    /\ pumping[w].on
    /\ pumping[w].unchecked \cap ActiveJobs(w) = {}
    /\ LET line   == Rotation(Candidates(w), pumping[w].last)
           chosen == SubSeq(line, 1, Min({Room(w), Len(line)}))
       IN  /\ exec' = [exec EXCEPT ![w] =
                 [i \in Slots |-> IF i \in ToSet(chosen)
                                  THEN At(Absent, "authorizing") ELSE @[i]]]
           /\ pumping' = [pumping EXCEPT ![w] =
                 Idle(IF chosen = <<>> THEN @.last ELSE Last(chosen))]
    /\ UNCHANGED <<vars, svc, granted, effects>>

-----------------------------------------------------------------------------
(* execute *)

\* Where execute goes when something before or in the stream throws: with the
\* service stopped it returns, otherwise it calls store.fail.
Thrown(w, p) == IF Stopped(w) THEN Absent ELSE At(p, "failing")

\* The first resolution of the principal, the policy checks and trySubmit, which
\* returns no ticket when the account or the host is busy.
Authorize(w, i) ==
    LET p == exec[w][i] IN
    /\ p.at = "authorizing"
    /\ IF Stopped(w) \/ ~granted \/ p.aborted
       THEN Move(w, i, Thrown(w, p))
       ELSE \/ Move(w, i, At(p, "waiting"))
            \/ i \in Contended /\ Move(w, i, Absent)
    /\ UNCHANGED <<vars, svc, pumping, granted, effects>>

\* ticket.wait(), the second resolution of the principal, throwIfAborted, and
\* at once store.start; on false no execution.  The generator begins with
\* run.started, even when it finds its signal aborted.
StartJob(w, i) ==
    LET p == exec[w][i] IN
    /\ p.at = "waiting"
    /\ IF Stopped(w) \/ ~granted \/ p.aborted
       THEN UNCHANGED vars /\ Move(w, i, Thrown(w, p))
       ELSE \/ Start(w, w, i) /\ Move(w, i, Yielding(p, "run.started", FALSE))
            \/ /\ Worker(w, w) /\ ~Maintained[i].erased
               /\ Maintained[i].state # "queued"
               /\ Access(w) /\ Move(w, i, Absent)
            \/ /\ ~Worker(w, w) \/ Maintained[i].erased
               /\ Access(w) /\ Move(w, i, Thrown(w, p))
    /\ UNCHANGED <<svc, pumping, granted, effects>>

\* The generator runs to its next yield.  An abort closes the run, and so can the
\* provider, a tool, or the host that does not approve a call; the outcome is
\* uncertain while a tool is pending.
Generate(w, i) ==
    LET p == exec[w][i] IN
    /\ \/ /\ p.at \in {"open", "called", "acting"}
          /\ Move(w, i, Yielding(p, IF p.aborted THEN "run.cancelled" ELSE "run.failed",
                                 ToolOutcomePending(p)))
       \/ /\ p.at = "open" /\ ~p.aborted
          /\ \E type \in {"tool.called", "run.completed"} :
                Move(w, i, Yielding(p, type, FALSE))
       \/ /\ p.at = "acting" /\ ~p.aborted
          /\ Move(w, i, Yielding(p, "tool.completed", FALSE))
    /\ UNCHANGED <<vars, svc, pumping, granted, effects>>

\* The tool runs.
Act(w, i) ==
    LET p == exec[w][i] IN
    /\ p.at = "called"
    /\ ~p.aborted
    /\ effects' = [effects EXCEPT ![i] = @ + 1]
    /\ Move(w, i, At(p, "acting"))
    /\ UNCHANGED <<vars, svc, pumping, granted>>

\* Where the generator stands once the event it yielded is consumed.
Resumed(p) ==
    IF p.event \in Closing THEN Absent
    ELSE At(p, IF p.event = "tool.called" THEN "called" ELSE "open")

\* store.append of the yielded event.  Its number is the generator's own count,
\* which is the length of the log as long as the job runs.
Commit(w, i) ==
    LET p == exec[w][i]
        e == [type |-> p.event, uncertain |-> p.uncertain]
        accepted == /\ Worker(w, w) /\ Maintained[i].state = "running"
                    /\ Fits(Appended(i, e), i)
    IN
    /\ p.at = "yielded"
    /\ \/ /\ AppendEvent(w, w, i, Len(jobs[i].log) + 1, e)
          /\ Move(w, i, Resumed(p))
       \/ ~accepted /\ Access(w) /\ Move(w, i, Thrown(w, p))
    /\ UNCHANGED <<svc, pumping, granted, effects>>

\* store.fail; when that throws too, the service breaks.
FailJob(w, i) ==
    LET gone == [exec EXCEPT ![w][i] = Absent] IN
    /\ exec[w][i].at = "failing"
    /\ \/ Fail(w, w, i) /\ UNCHANGED svc /\ exec' = gone
       \/ /\ Worker(w, w) /\ ~Maintained[i].erased
          /\ Maintained[i].state \in Terminal
          /\ Access(w) /\ UNCHANGED svc /\ exec' = gone
       \/ /\ ~Worker(w, w) \/ Maintained[i].erased
          /\ Access(w) /\ svc' = Broken(w)
          /\ exec' = [gone EXCEPT ![w] = Aborting(@, Slots)]
    /\ UNCHANGED <<pumping, granted, effects>>

-----------------------------------------------------------------------------
(* Clients and the environment *)

\* submit; the kick that follows is PumpRead.
SubmitJob(w, s, k, p) ==
    /\ ~Stopped(w)
    /\ granted
    /\ Submit(w, s, k, p)
    /\ UNCHANGED serviceVars

\* cancel: the store first, then this service's own execution, if any.
CancelJob(w, s, i) ==
    /\ ~Stopped(w)
    /\ granted
    /\ \/ Cancel(w, s, i)
       \/ /\ Maintained[i].subject = s /\ ~Maintained[i].erased
          /\ Maintained[i].state \in Terminal
          /\ Access(w)
    /\ exec' = [exec EXCEPT ![w] = Aborting(@, {i})]
    /\ UNCHANGED <<svc, pumping, granted, effects>>

Revoke ==
    /\ granted
    /\ granted' = FALSE
    /\ UNCHANGED <<vars, svc, pumping, exec, effects>>

Pass == Tick /\ UNCHANGED serviceVars

Execute(w, i) ==
    \/ Authorize(w, i) \/ StartJob(w, i) \/ Generate(w, i)
    \/ Act(w, i) \/ Commit(w, i) \/ FailJob(w, i)

Pump(w) == PumpRead(w) \/ PumpSpawn(w) \/ \E i \in Slots : PumpCheck(w, i)

ServiceStep(w) ==
    \/ OpenStore(w) \/ OpenService(w) \/ Crash(w) \/ Heartbeat(w)
    \/ BeginClose(w) \/ FenceClose(w) \/ EndClose(w)
    \/ Pump(w)
    \/ \E i \in Slots : Execute(w, i)
    \/ \E s \in Subjects, k \in Keys, p \in Prints : SubmitJob(w, s, k, p)
    \/ \E s \in Subjects : \E i \in Ids : CancelJob(w, s, i)

ServiceNext ==
    \/ \E w \in Services : ServiceStep(w)
    \/ Revoke
    \/ Pass

ServiceSpec == ServiceInit /\ [][ServiceNext]_allVars

\* The poll timer fires, promises settle, and a provider's or a tool's turn
\* ends (the driver's idle timeout sees to it).  Nothing makes the clock, the
\* heartbeat, a client or a crash happen.
ServiceFairSpec ==
    /\ ServiceSpec
    /\ \A w \in Services :
          /\ WF_allVars(PumpRead(w))
          /\ WF_allVars(PumpSpawn(w))
          /\ \A i \in Slots :
                WF_allVars(PumpCheck(w, i)) /\ WF_allVars(Execute(w, i))

-----------------------------------------------------------------------------
(* Properties *)

\* Every variable has its type.
ServiceTypeOK ==
    /\ TypeOK
    /\ svc \in [Services -> {"new", "open", "fatal", "closing", "draining",
                             "closed", "crashed"}]
    /\ pumping \in [Services -> [on : BOOLEAN, snapshot : SUBSET Slots,
                                 unchecked : SUBSET Slots, last : 0..MaxJobs]]
    /\ exec \in [Services -> [Slots -> Positions]]
    /\ granted \in BOOLEAN
    /\ effects \in [Slots -> Nat]

Logged(i, type) ==
    IF i \in Ids
    THEN Cardinality({n \in DOMAIN jobs[i].log : jobs[i].log[n].type = type})
    ELSE 0

\* "Commit a tool.called event before requesting the next item": over crashes,
\* takeovers and lapses no tool ever runs without its call in the durable log.
EffectsAreLogged ==
    \A i \in Slots : effects[i] <= Logged(i, "tool.called")

\* A tool whose result is not in the log leaves an uncertain outcome: a job
\* that ended with fewer results than effects says so, whoever ended it.
UnconfirmedIsUncertain ==
    \A i \in Ids :
        jobs[i].state \in Terminal /\ effects[i] > Logged(i, "tool.completed")
            => IsUncertain(jobs[i])

\* At most one service ever streams a job, and never one that is still queued,
\* although a fenced service goes on until it notices.
OneExecutor ==
    \A i \in Slots : \A v, w \in Services :
        exec[w][i].at \in Streaming =>
            /\ i \in Ids /\ jobs[i].state # "queued"
            /\ exec[v][i].at \in Streaming => v = w

\* close() waits for everything: a closed service executes nothing, its pump is
\* over, and the lease is not its own, whatever failed before.
ClosedIsQuiet ==
    \A w \in Services : svc[w] = "closed" =>
        /\ ActiveJobs(w) = {} /\ ~pumping[w].on
        /\ lease.owner # w

\* "The old owner cannot renew or append results once fenced": a service whose
\* execution goes on after its lease lapsed, also under the lease of the service
\* that took over, neither starts a job nor adds to its log nor ends it.  What its
\* access may still do is to recover a lapsed lease, and to cancel a queued job.
WorkersAreFenced ==
    [][\A w \in Services : \A i \in Ids :
          exec'[w][i] # exec[w][i] =>
             \/ jobs'[i].log = jobs[i].log /\ jobs'[i].state = jobs[i].state
             \/ Live /\ lease.owner = w
             \/ Lapsed /\ jobs'[i].state = "interrupted"
             \/ jobs[i].state = "queued" /\ jobs'[i].state = "cancelled"]_allVars

\* One service executes a job, and a closed one leaves nothing behind.
ServiceIsSound == ServiceTypeOK /\ OneExecutor /\ ClosedIsQuiet

Queued(i) == i \in Ids /\ jobs[i].state = "queued"

\* "A blocked account must not monopolize the dispatch window when maxWorkers is
\* smaller than the backlog": a queued job whose own account has room leaves the
\* queue, as long as its service is not stopped.
Dispatched ==
    \A w \in Services : \A i \in Slots \ Contended :
        svc[w] = "open" /\ Queued(i) ~> svc[w] # "open" \/ ~Queued(i)

\* src/jobs.ts:385, "The job worker lost storage ownership.": an execution that
\* breaks its service does so only when the service is no longer the owner.
BreaksOnlyWhenFenced ==
    [][\A w \in Services : svc[w] = "open" /\ svc'[w] = "fatal" => ~Worker(w, w)]_allVars

=============================================================================
