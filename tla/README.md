# A TLA+ model of the AgenticDriver host

AgenticDriver puts one protocol in front of several model providers. A *host*
(Node.js, `src/src/`) runs agents for authenticated subjects: it schedules
requests, stores conversations, makes runs idempotent, keeps durable jobs,
asks people to approve tool calls and hands some tools to the application that
made the request. This directory holds TLA+ modules for the parts of that host
whose correctness depends on interleaving, crashes, time and order, the TLC
instances that check them, and proofs of the most important invariants for
instances of any size.

Paths below are relative to the repository: `jobs.ts` is `src/src/jobs.ts`.

## How to run it

    tlc -config MCJobStore.cfg MCJobStore      # any pair of the table of runs
    tlapm OperationsProofs.tla                 # or any other *Proofs.tla

A module named `MC...` instantiates the module of the same name, or several
modules side by side (section 3); several `.cfg` files may share it. `PROJECT.json`
records which source lines each definition models, which runs check which properties, and,
for each property, a plausible fault of the code that breaks it. The faults are the
definitions with an underscore in their name (`Cost_NoReserve`): no specification uses
them.

## 1. Inventory

### The parts of the system

The host is one Node process. Everything but SQLite transactions, the file
system and child processes happens on one event loop, so code between two
`await`s (or two `yield`s of a generator) is atomic, and anything may happen at
an `await` or a `yield`.

| part | state | operations | what makes it hard |
|---|---|---|---|
| **Job store** `sqlite-job-store.ts`, `job-store.ts` | the tables of jobs, the one-row worker lease, the ownership generation; the fields of each open handle | submit, start, append, fail, cancel, read, acquire, acquireQuiet, renew, release | several processes on one file; a host that dies, or only stalls past its lease; bytes reserved for an end that must always fit |
| **Job service** `jobs.ts` | the worker's active map, pump, heartbeat, its own abort signal | open, submit, cancel, the pump, execute, fatal, close | dispatches from a list that is stale after each await; events must be durable before the tool acts |
| **Scheduler** `scheduling.ts` | counters, one queue per subject, the rotation | submit, trySubmit, release, abort | limits of subjects, accounts and the total bind at once; fairness |
| **Operations** `operations.ts`, `driver.ts` | one file per key; the writer's copy; the set of keys in progress | claim, append, interrupt, replay | crash between any two steps; two hosts with one directory; a save that fails after its rename |
| **Sessions** `sessions.ts`, `driver.ts` | records with history, revision, running flag and expiry timer | create, lookup, delete, begin, started, check, commit, release | a turn parked at a `yield` while its abort listener, another turn, a delete or the timer acts |
| **Approvals** `approvals.ts` | pending reviews with waiters, timers and signals | request, decide, cancel, expire | four ways to settle one review, an audit sink that may fail in each of them |
| **Application tools** `application-tools.ts` | pending tickets | request, progress, complete, cancel | a result after the abort, a second result, a lost acknowledgement |
| **Run loop** `driver.ts`, `progress.ts`, `resources.ts` | position in the run, budget, inactivity clock, bounded progress queue | execute, withProgress | the generator, the provider, the reader and the abort signal step independently |
| **Context** `context.ts` | entries with expiry and one timer; the leases of a run | put, delete, resolve | a source that answers after the run is gone; a timer for whichever entry expires first |
| **Retrieval** `retrieval.ts`, `sqlite-vector-store.ts` | documents by source, retired sources, the model of the corpus; a queue per process | search, revalidate, ingest, delete, retire | grants, documents and retirements change between any two awaits of a request |
| **Ingestion** `ingestion.ts`, `pdf-extraction.ts`, `chunking.ts`, `local-embeddings.ts` | pages, passages, the one embedding worker and who waits for it | prepareDocument, embed | an abort that leaves an extractor or a worker behind; passages that must add up to the document |
| **Discovery** `discovery.ts`, `providers/discovery.ts` | cached snapshot and probe of each adapter | get, configure | readers share a probe and a timer; a catalog is read page by page under limits |
| **Adapters** `providers/streams.ts`, `http.ts` and the vendors' | the message as far as it was read | one model call | a stream may be cut anywhere, a request lost on its way back |
| **Native turns** `providers/local-cli.ts`, `codex-app-server.ts`, `cli-process.ts`, `native-mcp-*.ts` | a child process with its group, the lines it prints, a bridge | one turn | the process announces and proposes calls on two channels, and must be ended with its descendants |
| **Connections** `connections.ts` | a file of invitations and connections with a lock file | create, exchange, revoke, authenticate | single use across processes; a lock left by a crash |
| **Pairing** `pairing.ts` | a device's code, its interval and token | start, poll, refresh | an answer that is lost although the server did what was asked |
| **Sign-in and configuration** `provider-setup.ts`, `management.ts` | attempts with a directory, a process, a timer and a queue; the configuration on disk and in memory | start, status, connect, cancel, configure, close | expiry racing completion; other writers of the file |
| **Runtimes** `provider-runtimes.ts` | phase of the installation, a lock file, a stage and the target | install, cancel, close | two hosts in one directory; a cancel during publication; a crash |
| **Quotas and usage** `usagestat.ts` | bindings of accounts, one snapshot per request, capture of records | admission, capture, reconcile | an answer that was true when it was sent; a receipt that was lost |
| **Diagnostics** `diagnostics.ts` | active traces, a bounded queue, one export | start, stage, finish, export, close | an exporter that hangs while the host closes |
| **HTTP host** `server.ts` | open requests, the closing flag | handle, close | grants that change while a request waits; the order of the shutdown |
| **Client** `client.ts` | a cursor | stream, page, operations, close | a wire that loses, repeats, reorders or misroutes |
| **Desktop** `apps/desktop/src/` | a private profile on disk, a host, a tunnel with its supervisor | connect, forget, check, start, stop | crashes between two writes; checks beside changes |
| **UI, other clients, secrets** | mostly none | presentation and translation | left to tests |

### How they interact

- A request is authenticated, authorized and given to `driver.stream`. With an
  idempotency key `streamInternal` first claims the **operation** record; with a
  session handle `execute` then begins a turn of the **session**; it waits for a
  slot of the **scheduler**, and loops: model call, then for each tool call the
  **approval**, the **application tool** or the host's tool, then the next model
  call, until an answer is committed to the session.
- A durable job is the same run, driven by the **job service**: each event is
  appended to the **job store** before the generator is resumed.
- One abort signal per run joins them. Its listeners give the session back,
  cancel the review and the ticket, and leave the queue, all synchronously and
  while the generator stands still.
- A scheduler, an approval manager, an application tool manager and a session
  manager are shared by all runs of a host. A job store and an operation
  directory are shared by all hosts.

### What makes each part correct

1. Job store: one fenced owner; a job starts once and is never queued again;
   ownership that ends interrupts; outcomes are final; room for the end of
   every live job; adoption (`acquireQuiet`) only of a store without loose ends.
2. Job service: no effect without its durable call; an unconfirmed effect is
   reported as uncertain; one executor per job; a closed service is quiet; no
   job is held back by another job's account.
3. Scheduler: counters and queues agree, limits hold, no runnable request waits,
   arrival order per subject and account, bounded overtaking.
4. Operations: one call executes; the record knows every effect; all certain
   answers to a key agree; an outcome is final.
5. Sessions: one turn at a time; no revision is continued twice; no work is
   forgotten; a running turn keeps its session; idle sessions go away.
6. Reviewed calls: no effect without a recorded approval; one decision, in time;
   no certain failure of a call that may have happened; a ticket is used once.

7. The run: no text is lost to a slow reader, no model call is made after the
   budget is spent, an aborted run ends whatever its provider does.
8. Providers: however a stream is cut, only whole calls of a finished message
   run; a request whose fate is unknown is not repeated; a native turn hands over
   exactly what was both announced and proposed, and leaves nothing behind.
9. Evidence: leases are returned, a retired source stays away, an answer rests on
   what is granted and current, and on whole documents.
10. Host and client: a request runs only under a grant that still holds, close
    reaches everything and ends; the application sees one run without a gap.
11. Administration: an invitation is good for one connection and a revocation is
    final; the configuration names only accounts that exist; a runtime is installed
    by one process and never written over; quota decisions are about the account
    that runs; a crash leaves settings that can be used.

The full list of hazards, each at its line and with the properties that cover
it, is in `PROJECT.json`.

## 2. The modules

| module | models | checked by | theorems in |
|---|---|---|---|
| `JobStore` | SqliteJobStore | `job_store` | `JobServiceProofs` |
| `JobQueue` | the promise of the `JobStore` interface, abstractly | `job_store` | `JobServiceProofs` |
| `JobService` | JobService, extends `JobStore` | `job_service*` | `JobServiceProofs` |
| `Operations` | FileOperationStore and `streamInternal` | `operations*` | `OperationsProofs` |
| `ToolCalls` | ApprovalManager, ApplicationToolManager and their use by `execute` | `tool_calls` | `ToolCallsProofs` |
| `FairScheduler` | FairScheduler | `requests`, `scheduler_shared_account` | `RequestsProofs` |
| `Sessions` | SessionManager and its use by `execute` | `conversations`, `requests` | `ConversationsProofs` |
| `DriverRun` | `execute` and `withProgress` for one run | `requests` | `RequestsProofs` |
| `Diagnostics` | the diagnostics of a host | `requests` | `RequestsProofs` |
| `HttpHost` | `serve`: requests and close | `requests` | `RequestsProofs` |
| `Client` | DriverClient | `requests` | `RequestsProofs` |
| `Desktop` | the desktop worker, its profile, host and tunnel | `requests` | `RequestsProofs` |
| `NativeTurn` | one turn of codex or Claude Code | `conversations`, `requests` | `ConversationsProofs` |
| `ProviderStream` | one model call over HTTP | `conversations` | `WholeProofs` |
| `HostContext` | MemoryContextStore and the resolution of a run's inputs | `conversations` | `ConversationsProofs` |
| `Retrieval` | RetrievalService over SqliteVectorStore | `conversations` | `ConversationsProofs` |
| `Ingestion` | prepareDocument, the extractor, the chunker, the embedding worker | `conversations` | `WholeProofs` |
| `Discovery` | ProviderDiscovery and the inspection of an endpoint | `conversations` | `ConversationsProofs` |
| `Connections` | hostConnections | `administration` | `AdministrationProofs` |
| `ProviderSetup` | providerSetup and managedHost | `administration` | `AdministrationProofs` |
| `Runtimes` | providerRuntimes | `administration` | `AdministrationProofs` |
| `UsageStat` | UsageStatClient | `administration` | `AdministrationProofs` |
| `Pairing` | BetterAuthPairingClient | `administration` | `AdministrationProofs` |

### JobStore and JobQueue

Every operation of `SqliteJobStore` is one `BEGIN IMMEDIATE` transaction, so it
is one action: the *fence* (`Fenced`), *maintenance* (`Maintained`: a lapsed
lease interrupts running jobs and disappears, expired payloads are erased), then
the work. If the work throws, the maintenance is still committed; `Access` is
that step, and also every read. `jobs` is the table by rowid. A row's `log` is
its event list; `erased` is a payload set to NULL, and the log of an erased row
stays in the model as history that no action reads. `lease` is the one row of
`ad_job_worker`; `generation` is 0 in the original layout and counts ownership
cycles after an adoption. `handles` holds the fields of each store object.
`Close` is also a crash: nothing of the database changes. `Tick` is the clock.

Sizes: a record costs `BaseSize` plus one per event, and `ReserveSize` while it
is live; the real sizes are JSON lengths and 4 KiB. The snapshot that
`acquireQuiet` compares by digest is either current or refused.

`JobQueue` says what `job-store.ts` promises in a page: jobs, one worker, no
requeueing. `JobStore!ImplementsJobQueue` maps rows to slots and the lease to
the worker, and TLC checks that each transaction, with all its maintenance, is
one abstract step.

### JobService

Extends `JobStore` and calls its actions. An action is what one service does
from one await to the next. A service's name is its worker identity and its
store handle: a restarted host is another service. `WorkersAreFenced` ties a write to
the service that makes it: an execution that goes on after another service took its
lease over changes nothing. `exec[w][i]` is where the
call `execute(i)` of service `w` stands: `authorizing` (principal, permission),
`waiting` (slot), then a position in the generator: `open`, `called` (the
`tool.called` event is committed, the tool is next), `acting`, `yielded` with an
event not yet committed, and `failing` (the `store.fail` of the catch).
`pumping` holds the snapshot of queued rows, the active jobs not yet looked at,
and `lastCandidate`. `PumpSpawn` computes the rotation over subjects and over
the snapshot. `Heartbeat` renews; a throw is `Fatal`. `BeginClose`, `FenceClose`
and `EndClose` are the three phases of `close()`.

### FairScheduler

A call of `submit`, `trySubmit` or `release` runs to completion; the model takes
the loop of `pump` one iteration at a time (`PumpSkip`, `PumpStart`) with the
variable `call` naming the call under way, so that the loop's own variables and
its termination are visible. `passed` is history: how often a subject that lacks
nothing but a slot was passed by another.

### Operations

One key. A claim is split where `FileOperationStore.claim` awaits: the load, the
temporary file, the hard link (atomic; the only arbiter), the directory flush,
and the entry of the key in `activeOperations`. A save may fail before or after
its rename. The run is reduced to `run.started`, a tool call with its effect,
and a closing event; a process may crash at any point, and its calls with it.
`Replayed` is the terminal event that `recoveryEvents` computes for a duplicate.
A call whose session refuses it (`driver.ts:862`) is the second disjunct of
`Sync`.

### Sessions

`record` holds the manager's records, `turn` the executions with a session
handle. A history is the sequence of the turns that wrote it, and a revision is
then the length of the history (proved). `begin`, `started`, `check`, `commit`
and `release` of the lease are the guards and effects of the turn's steps; the
abort listener (`driver.ts:905`) is `Abort`, possible whenever the turn executes,
also while the generator stands at a `yield`. `Lapse` is the passing of the idle
time, `Expire` the timer's callback, and `Stale` the lazy removal in `create` and
`lookup`.

### ToolCalls

Two runs with one tool call each, over the shared managers. Each run has its
configuration: application or host tool, idle policy, expiry, inactivity limit.
`Finished` is `finish`: it fixes the outcome, audits it (the sink may fail), and
settles the waiter, here in one step as in the code, which is synchronous up to
the settled promise. `told = "unaudited"` is the `AUDIT_FAILED` rejection. `due`
is the passing of the review's time; `decide` checks it itself. The driver's
steps before and after (`approval.requested`, `approval.resolved`,
`toolOutcomePending`, the terminal error) are the places of `run[r].at`.

### DriverRun

Four parties step on their own: the generator (`Generator`), the provider that
serves the model call in progress and may never return, the consumer who pulls one
event at a time (`Pull`), and the world: the signal, the inactivity timer, the
application that authorizes a step, the host that replaces its providers. `run.at`
is the position in `execute`; `queue` is the bounded queue of `withProgress`, where
text that follows text is joined, and which aborts the run when it is full. `Leave`
is `abortable`: the generator stops waiting for a call that goes on. Text is counted
in pieces, tokens in small numbers.

### HttpHost, Client and Diagnostics

`HttpHost` takes a request through authentication, body, slot, second authorization
and answer; the kinds of requests differ in what they wait for. `Change` alters what
a credential is granted; `Close` sets the flag and aborts, and `JobsStopped`,
`Settle` and `CloseStore` are the phases after it. `Client` has three uses: a live
stream, a job followed page by page, operations with receipts. The wire holds what
the host sent and `Spoil` spoils it: loss, repetition, reordering, another run's
event. `Belongs` looks at what a payload says of its run (`Named`), and only a call and
a completed result say anything: a failure or a cancellation is taken on its envelope
alone, since it carries an error and nothing else. `Diagnostics` numbers the records as
they are made, so that each is exported, counted as dropped, or still on its way.

### NativeTurn and ProviderStream

`NativeTurn` runs a child process that prints lines (`Say`) and, through its helper
and the bridge, proposes calls (`Propose`); a descendant may leave the process group
(`Fork`). `Settle` ends the process when every announced call was proposed. The
failure is looked at once for each chunk of output, so a line that came together with
the one that failed may still be handled (`Handle`). `Finish` may fail to remove the
turn's directory, and the turn then throws.
`ProviderStream` has one request with its safe retries and four collectors. A
message is a sequence of blocks, a block a sequence of pieces, and `Cut` ends the
stream anywhere; `Answer` is what the adapter makes of what was collected.

### Desktop

`op` is the request in progress and its next step, since the worker serves one at a
time; `check` runs beside it. `disk` is what a crash leaves. Settings that cannot be saved
end the request; a file that cannot be removed stays behind, unreferred. The supervisor of the
tunnel is a process of its own, and outlives the worker until it notices.

### HostContext, Retrieval, Ingestion and Discovery

`HostContext`: a content is a number and its own size, so that limits bind; `timer`
is the store's one timer. A run resolves its inputs in order; the store answers at
once, the application whenever it likes, and its leases are counted. `Retrieval`: a
request waits for its grant, for its process's queue, and for embeddings, and asks
for the grant again; `database` is one corpus in one file, and a search reads it in
pages. `Ingestion` cuts pages of lines into passages under byte limits. A line is a
sequence of characters of one to four bytes, of which some are white space (`ink` is
what is not); a part of a long line ends before the character that would not fit, and
a passage that is white space, also one that is a part of a line with text, is dropped
(`Flushed`). `NothingPartial` says that the passages have all the text of the pages.
`Discovery` has readers that share a probe, an adapter that is replaced meanwhile, and a
catalog read page by page.

### Connections, Pairing, ProviderSetup, Runtimes and UsageStat

`Connections` and `Runtimes` are about several processes over one directory and a
lock file; each step between two file operations is an action, a process may die at
any of them, and an operator removes the lock (`RemoveLock`). What each `finally` removes may
also fail to go. In `Connections` the caller is then told an error although its change
is saved. In `Runtimes` a stage that stays (*kept*) or a lock that stays (*left*) makes
an attempt that has not installed a failed one (`RUNTIME_CLEANUP_FAILED`). There the
last look at the abort signal (`Check`) and the rename (`Publish`) are two steps, since
the rename is awaited; `Cancelled` and `Closed` answer once the attempt's work is over.
`ProviderSetup` has the queue of each attempt, what its timer and process add to it, and
the configuration, which is a file that other writers change and a copy in memory. An
attempt is *unheard* when its provider was saved but its connect failed (section 4), and
*littered* when its directory could not be removed.
`UsageStat` has a service, outside the repository, that observes quotas now and then
and whose answers take time; a receipt it returns may be another record's. `Pairing` has
the authentication server, also outside, whose answer may be lost although it acted.

## 3. The runs

| run | instance | what it shows |
|---|---|---|
| `job_store` | 2 jobs, 2 owners, 2 handles, up to 2 adoptions, clock to 2, room for less than two full jobs | ownership, log and state, capacity, life cycle, handoff, refinement of `JobQueue` |
| `job_service` | 2 services, 1 job with a tool, clock to 2 | effects are logged, uncertainty is reported, one executor, close is quiet, a fenced service writes nothing |
| `job_service_live` | 1 service with 1 worker, 2 jobs, one account always busy | the other job is dispatched |
| `job_service_break` | 1 service, 1 job | finding 2 |
| `operations` | 3 calls, 2 requests, 2 hosts | one claimant, no effect denied, answers agree |
| `operations_refusal`, `operations_flush` | 2 calls | findings 3 and 4 |
| `tool_calls` | 2 runs, 1 review, 1 ticket, every configuration | approvals, uncertainty, leftovers, the clock, a review ends |
| `scheduler_shared_account` | 5 slots, 3 subjects, 2 accounts | finding 1 |
| `requests` | scheduler, run, diagnostics, HTTP host, client, native turn, desktop, session, side by side | what a request passes through is safe, and what must end does |
| `conversations` | sessions, context, retrieval, ingestion, discovery, stream, native turn, side by side | turns, leases, the index, evidence, whole documents, catalogs, streams, calls |
| `administration` | connections, sign-in, runtimes, usage, pairing, side by side | grants, accounts, installations, quotas, devices |

**Side by side.** The last three runs check several modules at once. `part` is
chosen in the initial state and only the module it names moves; the others rest in
one initial state. The components in such a run have no state in common, so
interleaving them would add nothing but states; where components do interact, the
interaction is inside a module (the driver's steps in `Sessions`, `ToolCalls` and
`Operations`, the configuration in `ProviderSetup`, the store in `JobService`). A
run's property is the conjunction of its modules' properties, written in the `MC`
module. In `requests` fairness is that of the part that moves: the *n*-th fair
action of each module makes one `WF`, and `EverythingEnds` is `AbortEnds`,
`CloseEnds`, `CancelEnds`, `TunnelsEnd`, `FollowerFinishes` and `IdleExpires` of the
part that moves. The strong fairness of releases is written as its consequence: an
active request is released again and again.

**Why the bounds are enough.** Each instance is the smallest in which the
competition it is about can happen twice: two owners for a lease that can lapse (a
takeover, and the former owner's return), two handles for one store, two subjects
for one account and a third that disturbs the rotation, a claimant, a duplicate and
a conflicting request in two processes, three turns for a session with two revisions
(one commits, one holds the next, one is stale), a manager with fewer places than
runs. Byte limits are chosen so that the reserve binds: an `append` or a `submit` is
refused while both jobs are live, and both may then be interrupted at once. The
clock bounds let a lease lapse and a payload expire while another lease is live.
`job_service` has one job because interference between jobs in the store is the
subject of `job_store`; the window between jobs in the pump is that of
`job_service_live`. In the three runs side by side: two model steps whose tokens
reach the budget between them; a queue of two events and a text of two pieces, so
that a reader can be one behind and overflow; an export batch as large as its queue;
two requests for one slot of a host that closes, and one change of a grant; a log of
four events, two on the wire and two faults, so that a repetition can hide a loss; two
calls of equal arguments in a native turn (`conversations`); three ingestions in two
processes with room for two at a time, of one source with two revisions, and one
retirement; documents whose passages do not fit one chunk, with a line that has more
white space between its words than a passage of four bytes holds; two adapters and a
cursor for discovery; two processes over one lock file; two attempts for one provider; a
pairing code that lives long enough to be slowed down once.

`CHECK_DEADLOCK FALSE` is set where the system may really come to rest: the
jobs, calls, turns, runs or parts of the instance are over. `job_store` checks for
deadlock: a store accepts transactions for ever.

**Symmetry** is used only in runs without liveness properties, and only over
names the code compares for equality (in `administration` over processes, attempts
and callers; not over instances and accounts).

### Fairness

- `FairScheduler!FairSpec`: the steps of a call under way are weakly fair, since
  a synchronous call returns. Releasing a running request is strongly fair:
  every run ends, by itself or by its inactivity and abort signals, and its
  `finally` releases. Strong, because the action is disabled while another call
  is under way. Nobody has to submit or withdraw.
- `JobService!ServiceFairSpec`: weak fairness of the pump (each renewal and each
  end of an execution runs it) and of `execute`'s own steps. No fairness for the
  busy account: the scheduler may keep it waiting for ever.
- `Sessions!FairSpec`: the idle time passes and an armed timer fires. Nothing
  about turns.
- `ToolCalls!FairSpec`: time passes, timers fire, and the consumer asks for the
  next event after a review was settled. No reviewer has to decide.
- `DriverRun`: the generator runs when it can, an abort reaches who waits, and the
  consumer reads on. Neither provider nor application need ever answer.
- `Diagnostics`: the event loop, and the deadline of an export. `HttpHost`: what a
  handler waits for comes, or it notices that its connection is gone; that an
  aborted run ends is `AbortEnds` of `DriverRun`. `Client`: a close is carried out;
  for `FollowerFinishes` the caller keeps asking and the host answers.
- `NativeTurn`: the adapter handles what comes, and a killed process exits (the
  kernel's promise; a descendant that left the group is excepted in `CancelEnds`).
  `Desktop`: the supervisor acts on its own, and ssh has a deadline.

## 4. What the runs found

1. **A shared account can starve a subject** (`scheduler_shared_account`).
   `pump` moves a subject whose account is busy to the back of the rotation, and
   starts counting again after any start. Two subjects waiting for one account,
   while a third keeps another one busy, keep their relative order, so that the
   same one is in front at each release. `docs/scheduling.md:62` says that a
   backlog cannot indefinitely overtake another eligible tenant. A request
   that needs no account is always served (`NoStarvation`).
2. **A cancelled and expired job can stop its service** (`job_service_break`).
   `execute`'s catch calls `store.fail`, which throws for an erased row, and the
   rejection is taken for the loss of the store.
3. **A session's refusal leaves an uncertain record** (`operations_refusal`):
   `sessions.begin` is called before the `try` that records a rejection.
4. **A save that fails after its rename makes a final outcome uncertain**
   (`operations_flush`): the writer's copy is behind the file, and `interrupt`
   writes from the copy.

Each is a short trace; the quoted lines are in `PROJECT.json`. `Operations` also
has a window that no document speaks about: between the link that publishes a
record and the entry of its key in `activeOperations` there are two awaits, and
a duplicate that comes then is told "uncertain" although its operation is about
to run on the same driver. `Desktop` has one too that no run is spent on:
`docs/desktop.md:161` says that the desktop asks before it interrupts active
requests, but `stop` (`controller.mjs:464`) looks for them, then awaits the end of
the tunnels, and then closes the host whatever has begun meanwhile (`StopChecked`,
`Stopped`).

Four more are in the properties as the code has them, since no document says otherwise:

- `configure` closes and removes its lock file in a `finally` that nothing catches
  (`management.ts:179-185`). If that fails after the rename, it rejects although the
  provider is saved and served, and `provider-setup.ts:298-304` then removes the
  account's directory, which the configuration names. `AccountsAreKept` therefore
  excepts an attempt that is *unheard*, and no other. The same `finally` in
  `connections.ts:167-171` tells a caller an error although its change is saved; the
  lock file may stay, and every later change is refused until it is removed by hand.
- A directory of an attempt that cannot be removed (`provider-setup.ts:109`) stays.
- `provider-runtimes.ts:402-404` looks at the abort signal and then awaits the rename:
  an install that is cancelled in between is published. `InstallsAreSound` says that
  one that was aborted *before* the look is not.
- The chunker drops a part of a long line when that part is white space
  (`chunking.ts:88-93`), so the passages that cite a line have all its text, not all
  its bytes.

## 5. What is proved

`tlapm` checks eight modules. The theorems hold for every value of the constants
that satisfies the modules' named assumptions (`JobStoreAssumption`,
`JobServiceAssumption`, `SessionsAssumption`, `SchedulerAssumption`,
`OperationsAssumption`, `ToolCallsAssumption`, `AdministrationAssumption`,
`ConversationsAssumption`, `StreamsAssumption`, `FeedAssumption`, `RequestsAssumption`: sizes
and durations are naturals, a passage has room for any character, special values are not names,
the callers of an application are finitely many, the services are the store's handles and
owners; TLC evaluates them in the runs).

**JobServiceProofs, the store.** `TypeCorrect` and `RunningAlwaysOwned`: a running job always
has a lease row. `TypeOK /\ RunningIsOwned` is inductive as it stands. The
lemmas are about the parts of a transaction: `Ended` and the interruption keep
the type of a row, `Maintained` leaves no running row when it drops the lease
(`InterruptRunning` first), and appending or replacing a row keeps
the other rows. Three action properties follow from it. `TakeoverAlwaysInterrupts`:
a step after which the lease has another owner, or none, leaves no job running.
`OwnerAloneWrites` (`OnlyTheOwnerWrites`): a job starts and its log grows only
under a live lease, the interruption barrier and a cancellation before the start
apart; the lemma `MaintainedStories` says that maintenance adds nothing else.
`AdoptedStoreStaysFenced`: in an adopted store nothing changes without a live
lease but in the takeover that begins the next generation; this one needs no
invariant, it is what `fence` is for.

`StoreAlwaysSound` is `StoreIsSound`, the composite that `job_store` checks. Its
invariant is `StoryInv`: each row's columns, log and flags tell one story (`Told`),
and the bytes of the whole table stay below the limit (`WithinCapacity`). The
second part is about a sum over the rows; `Sums` (below) says what it needs.
The interruption of *all* running jobs without a capacity check is then safe because
each row's reserve pays for its own barrier. `StoryStep` proves the invariant
together with what a step continues (`Continues`: rows are not requeued or deleted,
logs only grow, ended jobs stay as they are), from which the action half follows.

`HandoffAlwaysSafe` is `HandoffIsSafe`. `HandleInv`: one open handle is bound to the
live lease, and no handle is ahead of the store's generation, which is why advancing
the generation fences all of them at once.

`StoreImplementsQueue`: `JobStore` implements `JobQueue`. A transaction does two things at
once, its maintenance and its own work, so the proof first says what each part does to the
phases of the jobs (`InterruptedPhases`, `MaintainedPhases`, `WrittenPhases`) and then,
operation by operation, which abstract step the two make together (`QueueStep`): a client
step under the worker or under nobody, a worker step, a takeover, a release, or
a stutter. `RunningIsOwned` is needed where a worker takes a store without a
lease: the abstract takeover interrupts the running jobs, and there are none.

**Sums.** The models bound sums that a fold computes: the bytes of a table or of a
store, the passages of an index. Induction over data is out of reach, so the lemmas of
this module go another way: a fold equals a function on the subsets of the set that obeys
the sum's equation (`SumExists`, `SumUnique`), and what is shown of it (`SumSplit`,
`SumMonotone`, `SumOfZeros`) is shown by taking a least counterexample: strict
inclusion of finite sets is well founded (`FS_StrictSubsetOrderingWellFounded`), and
`WFMin` gives a minimal element of a set, which needs no operator as a parameter. The module
also has what several proofs need of sequences: how often they have an element, what
remains without one (`WithoutShape`), what they are joined to (`Joined`) and weigh (`Weigh`).

**JobServiceProofs, the services.** `ServiceUsesStore`: the services are clients of the
store, `ServiceSpec => Spec`, so that every theorem about the store holds of theirs; the
proofs about the services begin with it (`StoreMoves`). `ServiceSound`
(`ServiceIsSound`), `EffectsLogged` (`EffectsAreLogged`) and `UnconfirmedUncertain`
(`UnconfirmedIsUncertain`) come from one inductive invariant, `ServiceInv`. Per job
(`JobInv`):

- `Executor`: one service streams it, and it is not queued. This is inductive only
  with the store's life cycle: a second service gets its `start` only if the row is
  queued, and a row never is again;
- `Counted`: every effect has its call in the log, and a generator that stands
  *before* its tool has one call more than effects;
- `Confirmed`, of a running job: the generator that streams it accounts for all
  effects (`Accounted`): none misses its result, or the last result is on its way, or
  the run is about to close as uncertain;
- `Doubted`, of an ended job: it is uncertain, or nobody streams it any more and
  every effect is confirmed. A fenced service goes on streaming a job that another
  one interrupted, and its tool may still act; the interruption recorded the outcome
  as uncertain before that happened.

Per service (`MemoryInv`): what its memory names are rows of the table, and from
`draining` on its pump is over and the lease not its own. `Calm` and `Aside` are
the frame conditions: an execution that streams nothing new, and a transaction that
leaves a job aside, keep `JobInv` (`CalmJob`). `FencedWorkersWriteNothing`
(`WorkersAreFenced`, an action property) takes the operations of the store one by one:
what an execution does through its handle it does as the owner of a live lease
(`WritesAsOwner`), but for the maintenance that every access begins with. That the pump
executes idle jobs only needs the line of candidates to exist: `LineExists` proves that a
finite set with a strict total order can be lined up, each member behind as many as come
before it.

**ToolCallsProofs.** `TypeCorrect`, `ReviewedFirst` (`ReviewedBeforeEffect`),
`EffectNeverDenied` (`EffectIsNotDenied`), `WaitsBounded` (`WaitsAreBounded`) and
`ApprovedOnlyInTime` (the safety half of `ReviewSettles`). The invariant says of
each run what the two managers' entries, the outcome, the effect and the clock have
to do with its place: `ReviewInv` (a pending review is of a run that waits and was told
nothing), `TicketInv`, `OutcomeInv` (past its review a run was told exactly what was
decided), `EffectInv` (a call that was delivered was approved, and stays pending until
the run says that it completed), `ClockInv`. The abort is the hard step: its listeners
settle the review or the ticket in the same step (`AbortedWell`), whichever manager
holds the entry.

**ConversationsProofs.** The parts of `conversations` share no variable, so here too each
has an inductive invariant of its own. For `Sessions`: `TypeCorrect`, `OneTurnAtATime`,
`ModelOncePerRevision`, `WorkRemembered` and `RetentionIsSuspended`, all from `Inv`:

- `RecordInv`: a revision counts the turns of the history, and a record is
  running exactly when it names an active turn;
- `NewInv`: a turn that has not begun has touched nothing;
- `OpenInv`: a turn with an open lease is the active turn of its record, and
  the record still is what the turn saw (this is the strengthening that makes
  the others inductive: without it, two turns that began on one revision could
  both believe they hold it);
- `SettledInv`: a turn that gave its session back holds none;
- `WorkIsNotForgotten` and `OneModelPerRevision` themselves: the second needs
  the first, because a turn that called the model either moved the revision on
  or left the record interrupted, so nobody begins there again.

`RetentionIsSuspended` is an action property, from the same invariant.

The other parts:

- `IndexHolds` (`IndexIsSound`). What a request was granted, what it read and what it is
  about to write lie several awaits apart, and only the writes take turns in a queue. So
  `IndexInv` says of each request what its past is still worth (`Fits`): where it
  stands and which work it has queued (`PlaceFits`, `WorkFits`); that from
  `ensureIndex` on its host's model is the model of the index (`ModelFits`); that its
  revisions are *reached*, which a grant can only move past (`RevisionFits`, `Reached`:
  this is why a write that lands late meets no retired source); that its hits are of
  the revisions of its scope (`HitsFit`). `DocumentInv` says the same of what is in the
  index, and `Within` bounds the sum of its passages.
- `NothingGoesStale` (`NothingIsStale`): three action properties. The first two follow from
  `IndexInv` step by step; that a turn extends exactly the history it began with
  follows from `OpenInv`.
- `CatalogsHold` (`CatalogsAreHonest`). `CatalogInv`: what a probe has kept is all that it
  listed so far (`Pending`), every snapshot is `Honest`, in the cache and with every reader, and
  a reader that waits asked no later than now, so what the shared probe finds is fresh for all
  who joined it (`Served`). That a catalog which is too long is cut to exactly its limit
  needs a set of that size to exist (`FilledUp`).
- `LeasesComeBack` (`LeasesReturned`). `RunInv` ties a lease to the place of its run, through
  answers that arrive after the abort. `StoreInv`: the store is within its limits, and its
  timer covers every entry (`Covers`). Entries of expired content stay until the timer fires, so
  each operation that removes some must leave a timer that covers the rest
  (`Less`); the bytes are a sum again.
- `ProposedCallsOnly` (`CallsAreProposed`). The property compares how often each call was
  announced with how often it was proposed, when the turn is over; the invariant must
  do so at every moment. `Proposed`: each proposal has either confirmed one call that asks for
  the same or still waits, so the proposals are as many as the confirmed calls and those
  waiting together. When all calls are confirmed and nothing waits, the two are
  equal (`CompleteHands`), and a proposal that comes after the calls were settled does not
  count any more (`Handed`). `MatchedKeeps` shows that the matching of one pair keeps the
  counts, with lemmas on what appending, replacing and removing do to the number of times
  a value occurs (`TimesAppended`, `TimesReplaced`, `TimesRemoved`). `Prompts` ties the
  prompts to attempts and phases: a second process is started only before the first
  has seen one. `Left` says what there is of a turn at each place.

**WholeProofs.** Two parts of `conversations` whose subject is what comes in pieces:
streams and documents.

- `StreamsHold` (`StreamsAreWhole`) from `StreamInv`. What a stream shows piece by piece is
  to be, at its end, what the whole message says, so the invariant says at every event
  where the stream stands: `Stage` is a `Place` (`i` blocks are in, and `j` events of the
  next: collected are the blocks `HeldAt` says, open the one `OpenAt` says, and shown is
  `ReadAt`) or `AllIn`. The sum of the parts is an induction over a sequence; the lemmas go
  around it by a least counterexample (`Joined`: what `FlattenSeq` returns; `WireAt` and
  `WireMarks`: which event of which block comes next; `CallsAre`, `TextIs`), and each
  collector is one step from place to place (`EventAdds`, `BlockDone`, `ReadBegins`). An
  answer that completes has got its ending, and an ending comes from `AllIn`, or, where
  the format has no reason of its own, from the last place. Of the messages the proof uses
  that each block has pieces.
- `DocumentsAreWhole` (`NothingPartial`) from `FeedInv`: from `prepared` on an ingestion
  holds whole pages (`Whole`), from `indexing` on its passages are `Chunks` of them; the
  queue of the embedding adapter has no repetitions, its counter is its length, and only
  its head may have a worker, through aborts and rejections in any order (`QueueFits`).
  What the pages and passages then are is two theorems about the algorithms, for any
  lines. `SectionsAreAll`: the starts that `Scan` finds rise from 1 and stay among the
  lines, so the sections flatten to the lines. `ChunksAre`: after each line the chunker
  stands at `CutAt`, where every line so far weighs, in the passages that are done and
  the one that is open together, its ink: what `flush` drops weighs nothing, which is why
  the theorem is about ink and would be false of bytes. A short line is added or flushed
  first (`AddShort`), a long one is cut, character by character, into parts that fit and
  weigh it together (`CutIs`) and leave one by one (`PartsLeave`). A recursive function of
  the model is shown to exist by least numbers (`Iterates`, `Upwards`), which is what
  takes the place of an induction. Of the documents of the run the proof uses that their
  pages are lines, and that Markdown is one page (`DocumentsAre`).

**OperationsProofs.** `TypeCorrect`, `OneClaimantHolds`, `AnswersAlwaysAgree` and
`MarksHold`. `OneClaimant` alone is not inductive: a duplicate holds an old copy
of the record, and the executing call writes its own copy, not the file's. The
invariant `Inv` therefore says what each copy is worth:

- `CallInv`: a copy has the owner and the fingerprint of the file; while the
  operation is open the executing call's copy is the file, and it is running;
- `NothingSettled`: while the operation is open nobody has seen an outcome, in a
  copy or as an answer;
- `\E v : Agreed(v)`: all outcomes that were seen, in the file, in copies and in
  answers, are one outcome. That is not the statement that the file keeps its
  outcome, which is false (`operations_flush`): the file may fall back to
  "uncertain", but no other outcome can follow, because only the owner writes
  and it writes its closing event once.

`Learns`, `Writes`, `Proceeds` and `Turns` are the frame lemmas: a call reads the
file, the executing call replaces it, goes on, or changes place. `MarksHold` is a
second invariant over the first: a process leaves the set when its one executing
call ends, and by `OneClaimant` there is no second one.

`EffectNeverSilent` (`NoSilentEffect`) needs a third, `EffectInv`: the file confirms
every effect, or nobody was or can be told a certain outcome (`NobodyCertain`), and
the call that executes stands, place by place, where it will confirm or confess the
effect before it closes (`EffectCall`).

**AdministrationProofs.** The parts of `administration` share no variable, so each has
an inductive invariant of its own, which the steps of the other parts leave alone.

- `GrantsHold` (`GrantsAreExact`). That an invitation has one connection is a claim
  about the file, and not inductive: what matters is every state of the store that is
  *about to be* the file. `Sound(state)` says what such a state may contain, beside the
  tokens that were handed out and the names whose revocation was answered; `StateInv`
  demands it of the file and of what a process is writing, which is why a write that
  lands after another caller was told something undoes nothing. `LockInv` gives each
  running mutation the lock, so there is one such state; `ToldInv` and `FreshInv` keep
  ids of new invitations apart from all that were told; `OutcomeInv` says that the
  mutation under way has used up its code before its token goes out, and that is where
  a crash between the rename and the answer is harmless.
- `AccountsHold` (`AccountsAreKept`). `EntryInv` describes an attempt at each phase:
  which of process, directory, verification and publication it has. `ChangeInv`: a
  connect whose change waits for `configure` still stands where it asked, and asked
  once; so a cancel, the timer or a close, which wait in the attempt's queue, cannot
  remove the directory between the question and the answer. `AccountInv`: an account
  named on disk is of an attempt that is over for good, or of the one at the head of
  the writer's queue that is about to be told; so a refused change never belongs to a
  configured account, and `finish` removes the directory of one only when its connect
  was *unheard*. `WriterInv` is why no
  other process's change is lost, `StartInv` why two starts that overlap do not exceed
  the limit. A step of one entry is one lemma (`EntryMove`), whatever the operation.
- `InstallsHold` (`InstallsAreSound`, whose second half is an action property):
  `InstallInv` ties stage, attempt and lock to *working* (`Orderly`), what a caller was
  told to its end, and a stage that stays to a failure; who works holds the lock, so
  the one rename that may be under way is its own, however long it takes.
- `QuotasHold` (`QuotasAreTrue`): an observation is worth what was true when it was
  made (`ObservedInv`), and a lookup reads the instance that is bound to its account
  (`LookupInv`).
- `DevicesHold` (`DevicesAreHonest`): the device counts a lifetime from its question
  and the server from its answer, so the device's end is never the later one
  (`CodeInv`, `TokenInv`), for answers in flight too; there is one refresh in flight,
  and its token, or the one the application keeps, is the server's (`CurrentInv`).

**RequestsProofs, the scheduler.** `TypeCorrect`, `BookkeepingHolds`, `LimitsHold`,
`NothingRunnableWaits` (`WorkConserving`), `ArrivalOrderHolds` and
`OvertakingBounded` (`BoundedOvertaking`). Three inductive invariants carry them. `Story`
relates the class's redundant fields: the counters are the requests they count, `WaitInv`
and `OrderInv` say that the queues and the rotation hold exactly what waits and nothing
twice, and `CallInv` that a request is not admitted while it is already inside. Limits
alone would be inductive, but that no counter goes below zero is not without `Story`.
`PumpInv` is the loop
invariant of `pump`: the subjects it has skipped stand at the back of the rotation
and are blocked; when the loop ends nothing that waits can run (`PumpDone`), and a
start only takes capacity away (`StartBlocks`). `ArrivalOrderHolds` needs it too:
a request that is admitted at once overtakes nobody, because pump ran first. The
lemmas about `Drop`, `Append` and `Tail` say what they do to the members of a
queue without repetitions. `TurnInv` is the ranking behind `OvertakingBounded`: a
subject that was passed over while it could run has been passed at most once for
each place it moved up, so its count and its place in the rotation together never
exceed the number of subjects. A start of another subject moves it one place to the
head (`TurnsMove`, `NextTurn`); a request that is admitted at once passes nobody
who could run, because pump ran first (`Passes`). The set of requests is assumed
finite, and for `OvertakingBounded` the set of subjects too: the bound counts them.

**RequestsProofs, the other parts.** Six of the properties of `requests`, for every
value of the limits (`RequestsAssumption`); the instance fixes one run, one client with
two calls, and two requests of the HTTP host. The parts share no variable, and a step of
the scheduler or of a conversation leaves them alone.

- `RunsDeliverAll` (`RunsAreWhole`) and `RunsKeepTheirBudget` (`BudgetBinds`, an action
  property) from `RunInv`. That delivered equals emitted at the end is not inductive: in
  between, pieces wait in the queue, and joining two of them changes it without changing
  what it holds. `Balance` says that the queue's partial sums lead from what was delivered
  to what was emitted; a function of partial sums stands for the sum, so that pushing,
  joining and taking an event are steps of one function and need no induction. An abort
  gives the balance up (events are dropped), and an aborted run has no `completed`.
  `BudgetFits` carries the check of the budget over the awaits that lie between it and the
  call: nothing is reported in between, because one call runs at a time (`UsageFits`).
- `ClientsSeeTheirRun` (`ClientsSeeTheRun`) from `ClientInv`. What is on the wire is of
  some run's log, misrouted or not (`Genuine`), and what the client has shown is what is
  not a note of the first `sequence` events of the run it bound itself to (`Shown`), which
  an envelope of any origin can only extend by the next one; of what is shown the
  calls and the result are that run's own, which is all that the client can tell.
  `EndFits`: a terminal event is the last that is shown, and a call that is shown once is
  not shown again. `PageFits`: the pages taken are a prefix of the log. `CallsFit`: a
  receipt that was accepted names a call that was done, maybe by the other caller who
  asked for the same.
- `RequestsRunGranted` (`RunsAreGranted`) from `HttpInv`. The grant is read when a request
  comes and may be withdrawn at any await until it is admitted; `Serves` says of an
  admitted request that it is sure or was granted under an older grant, which the check
  before the run sees. `StoreFits` orders the job service and its store over start,
  failed start and close.
- `SettingsSurvive` (`SettingsAreUsable`) from `DeskInv`. `NamesFit`: names of credential
  files are drawn once, so no two settings share a file. `OpFits` says at each step of an
  operation which file it is about to write or remove, and that no setting on disk refers
  to a file that is going (`Unreferred`): that is why a crash between two files loses no
  credential in use, and why a check begun under an old name is not shown.
- `RecordsAreAccounted` (`RecordsAccounted`) from `TraceInv`: the records made are those
  dropped, exported, queued and under way (`QueueInv`), the open traces are as many as are
  counted against the limit (`SpansInv`), and each has a span or a drop for every stage
  that ended (`TraceCounts`).

Three theorems state what a run checks as one property, for every value of the
constants: `SchedulerSound` (`SchedulerIsSound`), `TurnsSafe` (`TurnsAreSafe`) and
`ExecutedOnce` (`OneExecution`); each puts the theorems above together.

Liveness and `ENABLED` are outside the prover, and so are the induction theorems of the
library; where a proof is about every element of a sequence it goes by a least
counterexample.

**Only model-checked:** `Dispatched` of `JobService`, `NoStarvation` of
`FairScheduler`, `EverythingEnds`, that a review ends (the liveness half of
`ReviewSettles`), that idle sessions go away: these need fairness, so they stay so. Every
safety property that a passing run checks has a theorem.

## 6. What is not modelled

- A clock that steps back; torn writes and power loss (a rename is durable or
  reported as failed); corrupt rows and files; `SQLITE_BUSY`.
- Exact sizes of records. Text and progress events, which neither store's log
  nor any property here distinguishes.
- Reauthorization of a replayed operation, and handoff composed with the job
  service (`JobService` opens the original layout).
- Session records are in memory: a restart of the host loses them all, which is
  the initial state.
- `progress` of an application tool: it only rearms the inactivity timer.
- What crosses from one component to another in the runs side by side: a slot of
  the scheduler is an event that comes for `DriverRun` and `HttpHost`, a model call
  is one step of `DriverRun` and a whole run of `ProviderStream`.
- `ProviderStream`: events of the vendor that are malformed, which the collectors
  refuse (`Receive` gives well-formed ones, in the vendor's order); the translation
  of messages into a vendor's format; media.
- `NativeTurn`: Antigravity, whose hook writes files; the contents of prompts.
- `Desktop`: two workers that recover one stale lock at once; a supervisor that starts
  beside one that is ending; windows.
- `Pairing`: `revoke`. `Retrieval`: the in-memory store and ranking. `Ingestion`:
  formats other than by their pages. `Connections`: the profile a client keeps.
- Secrets and authorization (stateless checks), the command line and the panel
  (presentation), clients in other languages and deployment.

## 7. What could come next

Models: handoff composed with the job service; `DriverRun` composed with `FairScheduler`
and `ProviderStream`, where now each stands for the other by what it may do.
