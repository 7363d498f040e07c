----------------------------- MODULE MCRequests -----------------------------
(***************************************************************************)
(* Small instances, side by side, of the parts a request passes through:   *)
(* the desktop application, the client, the HTTP host, the scheduler, the  *)
(* run loop, its session, a native turn, and its diagnostics.  They share  *)
(* no state, so in a behaviour only one of them moves, and only its        *)
(* actions are fair.                                                       *)
(***************************************************************************)
EXTENDS MCFairScheduler

CONSTANTS MaxSteps, MaxTokens, MaxEvents, MaxPieces, Tokens,
          Traced, MaxActive, MaxSpans, QueueSize, BatchSize, MaxRecords, MaxStages,
          r1, r2, Slots, MaxChanges,
          Targets, Limits, MaxLog, MaxWire, MaxFaults,
          Values, Vendors, MaxCalls, MaxLines,
          Hosts, MaxNames,
          Ids, Turns, None, MaxEntries, MaxTurns

\* Limits, bounds and prices are numbers; a run has a step and a batch a record; some
\* host is known, and finitely many runs are traced.
ASSUME RequestsAssumption ==
    /\ {MaxSteps, MaxTokens, MaxEvents, MaxPieces, MaxActive, MaxSpans, QueueSize, BatchSize,
        MaxRecords, MaxStages, Slots, MaxChanges, MaxLog, MaxWire, MaxFaults, MaxNames}
          \subseteq Nat
    /\ BatchSize > 0 /\ MaxSteps > 0
    /\ Tokens \subseteq Nat /\ Limits \subseteq Nat
    /\ IsFiniteSet(Traced)
    /\ Hosts # {}

VARIABLES part,
          provider, unknownUsage, run, modelCall, events, timer, runAborted, usage, text, record,
          tracing, traces, backlog, scheduled, exporting, exporter, closing, made, counters,
          host, jobs, storeOpen, grant, request,
          use, log, wire, faults, stream, seen, page, calls,
          vendor, turn, child, lines, bridge, turnAborted,
          desk, disk, names, server, op, check, tunnel,
          session, lease

Runs == INSTANCE DriverRun
    WITH call <- modelCall, queue <- events, aborted <- runAborted, MaxQueue <- MaxEvents
Traces == INSTANCE Diagnostics WITH active <- tracing
Http == INSTANCE HttpHost WITH Requests <- {r1, r2}
Clients == INSTANCE Client
Natives == INSTANCE NativeTurn WITH call <- turn, aborted <- turnAborted
Desk == INSTANCE Desktop
Conversations == INSTANCE Sessions WITH record <- session, turn <- lease

runVars == <<provider, unknownUsage, run, modelCall, events, timer, runAborted, usage, text, record>>
traceVars == <<tracing, traces, backlog, scheduled, exporting, exporter, closing, made, counters>>
hostVars == <<host, jobs, storeOpen, grant, request>>
clientVars == <<use, log, wire, faults, stream, seen, page, calls>>
nativeVars == <<vendor, turn, child, lines, bridge, turnAborted>>
deskVars == <<desk, disk, names, server, op, check, tunnel>>
sessionVars == <<session, lease>>

allVars == <<part, vars, runVars, traceVars, hostVars, clientVars, nativeVars, deskVars, sessionVars>>

\* A part that does not move rests in one initial state.
RequestsInit ==
    /\ part \in {"scheduler", "run", "diagnostics", "http", "client", "native", "desktop",
                "sessions"}
    /\ Init /\ Runs!Init /\ Traces!Init /\ Http!Init /\ Clients!Init /\ Natives!Init
    /\ Desk!Init /\ Conversations!Init
    /\ part # "run" => provider = a1 /\ unknownUsage = "allow"
    /\ part # "client" => use = "stream"
    /\ part # "native" => vendor = "codex"

RequestsNext ==
    /\ UNCHANGED part
    /\ \/ part = "scheduler" /\ Next
       \/ part # "scheduler" /\ UNCHANGED vars
    /\ \/ part = "run" /\ Runs!Next
       \/ part # "run" /\ UNCHANGED runVars
    /\ \/ part = "diagnostics" /\ Traces!Next
       \/ part # "diagnostics" /\ UNCHANGED traceVars
    /\ \/ part = "http" /\ Http!Next
       \/ part # "http" /\ UNCHANGED hostVars
    /\ \/ part = "client" /\ Clients!Next
       \/ part # "client" /\ UNCHANGED clientVars
    /\ \/ part = "native" /\ Natives!Next
       \/ part # "native" /\ UNCHANGED nativeVars
    /\ \/ part = "desktop" /\ Desk!Next
       \/ part # "desktop" /\ UNCHANGED deskVars
    /\ \/ part = "sessions" /\ Conversations!Next
       \/ part # "sessions" /\ UNCHANGED sessionVars

moving ==
    CASE part = "scheduler" -> vars
      [] part = "run" -> runVars
      [] part = "diagnostics" -> traceVars
      [] part = "http" -> hostVars
      [] part = "client" -> clientVars
      [] part = "native" -> nativeVars
      [] part = "desktop" -> deskVars
      [] part = "sessions" -> sessionVars

Handler(r) ==
    \/ Http!Progress(r)
    \/ ~request[r].connected /\ Http!Refuse(r)
    \/ request[r].aborted /\ Http!Produce(r)

Adapter ==
    \/ \E ok \in BOOLEAN : Natives!Check(ok)
    \/ Natives!Spawn \/ Natives!Handle \/ Natives!Settle \/ Natives!CloseBridge \/ Natives!Finish

\* The fairness each module assumes, or less, of the part that moves.  As only one
\* part moves, the n-th fair actions of all parts make one; where a module asks for
\* the fairness of several actions, that of their disjunction is enough here.
FairStep(n) ==
    /\ UNCHANGED part
    /\ \/ part = "scheduler" /\ n = 1 /\ Running
       \/ part = "run" /\ \/ n = 1 /\ Runs!Generator
                          \/ n = 2 /\ Runs!Leave
                          \/ n = 3 /\ Runs!Pull
       \/ part = "diagnostics" /\ \/ n = 1 /\ (Traces!Immediate \/ Traces!Flush)
                                  \/ n = 2 /\ Traces!ExportFailed(TRUE)
       \/ part = "http" /\ \/ n = 1 /\ (Http!JobsStopped \/ Http!Settle \/ Http!CloseStore)
                           \/ n = 2 /\ Handler(r1)
                           \/ n = 3 /\ Handler(r2)
       \/ part = "client" /\ \/ n = 1 /\ Clients!Closed
                             \/ n = 2 /\ \E limit \in Limits : Clients!AskPage(limit)
                             \/ n = 3 /\ Clients!AnswerPage
       \/ part = "native" /\ \/ n = 1 /\ Adapter
                             \/ n = 2 /\ Natives!Kill
                             \/ n = 3 /\ child.killed /\ Natives!Exit
       \/ part = "desktop" /\ \/ n = 1 /\ Desk!Ended
                              \/ n = 2 /\ Desk!Master
       \/ part = "sessions" /\ \/ n = 1 /\ \E id \in Ids : Conversations!Lapse(id)
                               \/ n = 2 /\ \E id \in Ids : Conversations!Expire(id)

RequestsFairness ==
    /\ \A n \in 1 .. 3 : WF_moving(FairStep(n))
    /\ \A t \in Tickets : []<>(entry[t] # "active")

RequestsSpec == RequestsInit /\ [][RequestsNext]_allVars /\ RequestsFairness

\* A run that completes delivered the text of its answer, and it is idle only while it
\* waits for nobody else.
RunsAreWhole == Runs!TypeOK /\ Runs!CompletedIsWhole /\ Runs!IdleIsOwn

\* No model call is made when the budget is spent, and a run is charged to the account
\* it was authorized for.
BudgetBinds == Runs!BudgetBinds /\ Runs!AccountIsKept

\* What the application reads is the run that the host produced, without a gap.
ClientsSeeTheRun ==
    Clients!TypeOK /\ Clients!StreamIsWhole /\ Clients!PagesAreTheLog /\ Clients!ReceiptsAreOwn

\* A record is exported or counted as dropped, and every trace is closed.
RecordsAccounted == Traces!TypeOK /\ Traces!RecordsAccounted /\ Traces!TracesClose

\* A request runs only while it is granted, and a close reaches every request.
RunsAreGranted == Http!TypeOK /\ Http!RunsAreGranted /\ Http!CloseReachesAll

\* The settings of the desktop application are usable after a crash, and what it shows
\* is of the host it is paired with.
SettingsAreUsable ==
    Desk!TypeOK /\ Desk!SettingsAreUsable /\ Desk!ChecksAreCurrent /\ Desk!TunnelsLeadToTheHost

\* Everything that was told to end does: a cancelled run and turn, a host, a client,
\* the diagnostics, a tunnel that lost its application, a session nobody takes; and a
\* follower reaches the end of the log.  It is the conjunction of AbortEnds, CloseEnds,
\* CancelEnds, TunnelsEnd, FollowerFinishes and IdleExpires of the modules, of the
\* part that moves.
MustEnd ==
    \/ part = "run" /\ runAborted
    \/ part = "diagnostics" /\ closing = "closing"
    \/ part = "http" /\ host = "closing"
    \/ part = "client" /\ (stream.at = "closing" \/ (use = "follow" /\ Clients!Ended))
    \/ part = "native" /\ turnAborted
    \/ part = "desktop" /\ desk.at = "down"
    \/ part = "sessions" /\ \E id \in Ids : Conversations!Held(id) /\ session[id].active = None

HasEnded ==
    /\ part = "run" => run.at = "ended"
    /\ part = "diagnostics" => closing = "closed"
    /\ part = "http" => host = "closed"
    /\ part = "client" => IF use = "follow" THEN page.at = "finished" ELSE stream.at = "closed"
    /\ part = "native" => Natives!Over \/ child.escaped
    /\ part = "desktop" => desk.at # "down" \/ tunnel.supervisor = "none"
    /\ part = "sessions" =>
          \A id \in Ids : session[id].state = "removed" \/ session[id].active # None

EverythingEnds == MustEnd ~> HasEnded

=============================================================================
