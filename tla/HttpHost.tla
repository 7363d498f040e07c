------------------------------ MODULE HttpHost ------------------------------
(***************************************************************************)
(* The HTTP host (serve): its handler, its start and its close.            *)
(*                                                                         *)
(* A request is authenticated, its body is read, it waits for a slot of    *)
(* the scheduler and is authorized again before it runs; the answer may be *)
(* a stream the client reads slowly.  A client may disconnect at any time, *)
(* the application may change what a credential is granted, and the host   *)
(* may be closed at any time.                                              *)
(***************************************************************************)
EXTENDS Integers, FiniteSets

CONSTANTS
    Requests,
    Slots,          \* executions at a time
    MaxChanges      \* bound: changes of a grant

VARIABLES
    host,           \* "starting", "serving", "closing", "waiting", "closed", "failed"
    jobs,           \* the job service: "none", "open", "closing", "closed"
    storeOpen,      \* the job store the host owns
    grant,          \* the version of what the credential is granted
    request         \* per request: its handler

httpVars == <<host, jobs, storeOpen, grant, request>>

Kinds == {"run", "stream", "job", "manage", "exchange"}

\* A handler: where it is, what it was granted, and whether its abort signal is
\* set; connected: its response is open; ticket: its place in the scheduler;
\* active: its controller is one that close aborts.
NoHandler == [at |-> "idle", kind |-> "run", grant |-> 0, aborted |-> FALSE,
              connected |-> FALSE, ticket |-> "none", active |-> FALSE, sure |-> TRUE]
Ended == [NoHandler EXCEPT !.at = "ended"]

Init ==
    /\ host = "starting"
    /\ jobs = "none"
    /\ storeOpen = FALSE
    /\ grant = 0
    /\ request = [r \in Requests |-> NoHandler]

Handling == {r \in Requests : request[r].at \notin {"idle", "ended"}}
Running == {r \in Requests : request[r].ticket = "held"}
Closing == host \in {"closing", "waiting", "closed"}

\* The handler is over: its ticket and its controller are released.
End(r) == request' = [request EXCEPT ![r] = Ended]

-----------------------------------------------------------------------------
(* The handler *)

\* The listener accepts a request; a host that starts or closes refuses it.
Accept(r, kind) ==
    /\ request[r].at = "idle" /\ host \in {"starting", "serving", "closing"}
    /\ IF host = "serving"
       THEN request' = [request EXCEPT ![r] = [NoHandler EXCEPT !.kind = kind, !.connected = TRUE,
                          !.at = IF kind = "exchange" THEN "reading" ELSE "authenticating"]]
       ELSE End(r)
    /\ UNCHANGED <<host, jobs, storeOpen, grant>>

\* authenticate: it fails at once when the client or the host goes.
Authenticate(r, known) ==
    /\ request[r].at = "authenticating"
    /\ IF known /\ request[r].connected /\ ~Closing
       THEN request' = [request EXCEPT ![r].at = "reading", ![r].grant = grant]
       ELSE End(r)
    /\ UNCHANGED <<host, jobs, storeOpen, grant>>

\* The body is there: it is routed, or refused.  The host may have begun to close
\* meanwhile; a run's controller is active, and its ticket taken, before anything
\* else can happen.
Route(r) ==
    /\ request[r].at = "reading"
    /\ CASE request[r].kind \in {"run", "stream"} /\ ~Closing ->
               request' = [request EXCEPT ![r].at = "queued", ![r].active = TRUE,
                                          ![r].ticket = "waiting"]
         [] request[r].kind = "job" /\ jobs # "none" ->
               request' = [request EXCEPT ![r].at = "job", ![r].active = TRUE]
         [] request[r].kind \in {"manage", "exchange"} ->
               request' = [request EXCEPT ![r].at = "manage"]
         [] OTHER -> End(r)
    /\ UNCHANGED <<host, jobs, storeOpen, grant>>

\* The body is refused, or the connection breaks while it is read.
Refuse(r) ==
    /\ request[r].at = "reading"
    /\ End(r)
    /\ UNCHANGED <<host, jobs, storeOpen, grant>>

\* ticket.wait: a slot, unless the signal is set first.
Admit(r) ==
    /\ request[r].at = "queued"
    /\ \/ request[r].aborted /\ End(r)
       \/ /\ ~request[r].aborted /\ Cardinality(Running) < Slots
          /\ request' = [request EXCEPT ![r].at = "admitted", ![r].ticket = "held",
                                        ![r].sure = request[r].grant = grant]
    /\ UNCHANGED <<host, jobs, storeOpen, grant>>

\* The credential is authenticated again, now that it may run.
Authorize_Once(r) ==
    /\ request[r].at = "admitted"
    /\ IF request[r].aborted THEN End(r)
       ELSE request' = [request EXCEPT ![r].at = "running"]
    /\ UNCHANGED <<host, jobs, storeOpen, grant>>
Authorize(r) ==
    /\ request[r].at = "admitted"
    /\ IF request[r].aborted \/ ~request[r].connected \/ Closing \/ request[r].grant # grant
       THEN End(r)
       ELSE request' = [request EXCEPT ![r].at = "running"]
    /\ UNCHANGED <<host, jobs, storeOpen, grant>>

\* The run produces an event or ends; a run that was aborted ends.
Produce(r) ==
    /\ request[r].at = "running"
    /\ \/ End(r)
       \/ /\ request[r].kind = "stream" /\ ~request[r].aborted
          /\ request' = [request EXCEPT ![r].at = "draining"]
    /\ UNCHANGED <<host, jobs, storeOpen, grant>>

\* The client has read; or the response is destroyed, which the signal tells a
\* handler that waits for it.
Drain(r) ==
    /\ request[r].at = "draining"
    /\ \/ request[r].aborted /\ End(r)
       \/ /\ request[r].connected /\ ~request[r].aborted
          /\ request' = [request EXCEPT ![r].at = "running"]
    /\ UNCHANGED <<host, jobs, storeOpen, grant>>

\* A job operation; events wait for the job, the reader or the end of the service.
Serve(r) ==
    /\ request[r].at \in {"job", "manage"}
    /\ End(r)
    /\ UNCHANGED <<host, jobs, storeOpen, grant>>

\* The response closes: the signals of the handler are set.
Disconnected(h) == [h EXCEPT !.connected = FALSE, !.aborted = @ \/ h.active]

Disconnect(r) ==
    /\ r \in Handling /\ request[r].connected
    /\ request' = [request EXCEPT ![r] = Disconnected(@)]
    /\ UNCHANGED <<host, jobs, storeOpen, grant>>

\* The application changes what the credential may do.
Change ==
    /\ grant < MaxChanges
    /\ grant' = grant + 1
    /\ request' = [r \in Requests |->
                      IF request[r].at = "admitted" THEN [request[r] EXCEPT !.sure = FALSE]
                      ELSE request[r]]
    /\ UNCHANGED <<host, jobs, storeOpen>>

-----------------------------------------------------------------------------
(* Start and close *)

\* The listener is up; then the job store and the service are opened.
OpenStore == /\ host = "starting" /\ ~storeOpen
             /\ storeOpen' = TRUE
             /\ UNCHANGED <<host, jobs, grant, request>>
OpenJobs == /\ host = "starting" /\ storeOpen /\ jobs = "none"
            /\ jobs' = "open"
            /\ UNCHANGED <<host, storeOpen, grant, request>>
Started == /\ host = "starting" /\ jobs = "open"
           /\ host' = "serving"
           /\ UNCHANGED <<jobs, storeOpen, grant, request>>
StartFailed == /\ host = "starting"
               /\ host' = "failed" /\ jobs' = "closed" /\ storeOpen' = FALSE
               /\ UNCHANGED <<grant, request>>

\* close: what is active is aborted, the jobs begin to stop, and every connection
\* is closed, in one step.
Close ==
    /\ host = "serving"
    /\ host' = "closing"
    /\ jobs' = "closing"
    /\ request' = [r \in Requests |->
                      IF r \in Handling
                      THEN [Disconnected(request[r]) EXCEPT !.aborted = @ \/ request[r].active]
                      ELSE request[r]]
    /\ UNCHANGED <<storeOpen, grant>>

\* The workers of the service stop on their own.
JobsStopped ==
    /\ jobs = "closing"
    /\ jobs' = "closed"
    /\ UNCHANGED <<host, storeOpen, grant, request>>

\* Then the handlers, then the jobs; setup and runtimes close before the store.
Settle ==
    /\ host = "closing" /\ Handling = {}
    /\ host' = "waiting"
    /\ UNCHANGED <<jobs, storeOpen, grant, request>>
CloseStore ==
    /\ host = "waiting" /\ jobs = "closed"
    /\ host' = "closed" /\ storeOpen' = FALSE
    /\ UNCHANGED <<jobs, grant, request>>

Progress(r) ==
    \/ \E known \in BOOLEAN : Authenticate(r, known)
    \/ Admit(r) \/ Authorize(r) \/ Drain(r) \/ Serve(r)

Next ==
    \/ OpenStore \/ OpenJobs \/ Started \/ StartFailed
    \/ Close \/ JobsStopped \/ Settle \/ CloseStore \/ Change
    \/ \E r \in Requests :
          \/ \E kind \in Kinds : Accept(r, kind)
          \/ Route(r) \/ Refuse(r) \/ Produce(r) \/ Disconnect(r) \/ Progress(r)

\* What the handler waits for comes, or it notices that its connection is gone: an
\* aborted run ends (AbortEnds of DriverRun), a broken body is an error.
Fairness ==
    /\ WF_httpVars(JobsStopped) /\ WF_httpVars(Settle) /\ WF_httpVars(CloseStore)
    /\ \A r \in Requests :
          /\ WF_httpVars(Progress(r))
          /\ WF_httpVars(~request[r].connected /\ Refuse(r))
          /\ WF_httpVars(request[r].aborted /\ Produce(r))

Spec == Init /\ [][Next]_httpVars /\ Fairness

-----------------------------------------------------------------------------
(* Properties *)

\* Every variable has its type.
TypeOK ==
    /\ host \in {"starting", "serving", "closing", "waiting", "closed", "failed"}
    /\ jobs \in {"none", "open", "closing", "closed"}
    /\ grant \in 0 .. MaxChanges
    /\ \A r \in Requests : request[r].ticket \in {"none", "waiting", "held"}

\* A request that waited for a slot runs only if the credential was still granted,
\* when the slot came, what it was granted when the request came.
RunsAreGranted ==
    \A r \in Requests : request[r].at \in {"running", "draining"} => request[r].sure

\* What a closing host has not stopped yet has been told to: no run begins behind
\* the abort of close; and the job store is closed after everyone who uses it.
CloseReachesAll ==
    /\ Closing => \A r \in Requests : request[r].active => request[r].aborted \/ request[r].at = "job"
    /\ ~storeOpen => jobs \in {"none", "closed"} /\ \A r \in Requests : request[r].at # "job"
    /\ Cardinality(Running) <= Slots

\* close comes to an end, whatever its clients do or do not do.
CloseEnds == host = "closing" ~> host = "closed"

=============================================================================
