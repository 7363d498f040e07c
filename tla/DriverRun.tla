----------------------------- MODULE DriverRun -----------------------------
(***************************************************************************)
(* One run of AgenticDriver.execute with its withProgress stream.          *)
(*                                                                         *)
(* Four parties step independently: the generator, the provider that       *)
(* serves the model call in progress (and may never return), the consumer, *)
(* who reads one event at a time, and the world: the signal, the idle      *)
(* timer, the application that authorizes steps, the host that changes its *)
(* providers.  Text is counted in pieces.  Tool execution is module        *)
(* ToolCalls, stored conversations Sessions, records Operations; here a    *)
(* batch of calls either fails or leads to the next step.                  *)
(***************************************************************************)
EXTENDS Integers, Sequences

CONSTANTS
    Accounts,       \* that the provider instance may be bound to
    MaxSteps,       \* of the run
    MaxTokens,      \* its budget
    MaxQueue,       \* events that withProgress holds back (1024)
    MaxPieces,      \* bound: pieces of text in a model call
    Tokens          \* what a model call may use

VARIABLES
    provider,       \* the account of the configured adapter
    unknownUsage,   \* the budget's policy: "allow" or "reject"
    run,            \* the generator's locals
    call,           \* the operation withProgress waits for
    queue,          \* its queue
    timer,          \* whether the idle timer runs
    aborted,        \* whether the signal was: cancelled, idle, the buffer is full, closed
    usage,          \* UsageAccumulator, and what the provider really used
    text,           \* pieces emitted by the provider, and delivered
    record          \* the usage record that was sent

driverVars == <<provider, unknownUsage, run, call, queue, timer, aborted, usage, text, record>>

\* Where the generator is; suspended: at a yield, until the consumer asks on.
Places == {"new", "admission", "context", "step", "authorizing", "model", "turn", "answered",
           "failing", "failed", "closing", "ended"}

Init ==
    /\ provider \in Accounts
    /\ unknownUsage \in {"allow", "reject"}
    /\ run = [at |-> "new", suspended |-> TRUE, closed |-> FALSE, step |-> 0,
              account |-> "none", paused |-> TRUE, status |-> "cancelled", started |-> FALSE,
              terminal |-> "none"]
    /\ call = [state |-> "none", calls |-> FALSE, tokens |-> 0, reported |-> FALSE]
    /\ queue = <<>>
    /\ timer = FALSE
    /\ aborted = FALSE
    /\ usage = [started |-> 0, completed |-> 0, reports |-> 0, tokens |-> 0]
    /\ text = [emitted |-> 0, delivered |-> 0]
    /\ record = "none"

-----------------------------------------------------------------------------
(* Helpers *)

\* reportProgress: the timer starts anew, unless the run waits for somebody else.
Progressed(paused) == IF aborted \/ paused THEN timer ELSE TRUE

\* The generator goes on to a place, or offers an event there.
At(place) == [run EXCEPT !.at = place]
Yields(place) == [run EXCEPT !.at = place, !.suspended = TRUE, !.started = TRUE]

Steps(place) == run.at = place /\ ~run.suspended

\* check: the observed tokens are a lower bound, complete or not.
Reached(continuing) ==
    /\ usage.started > 0
    /\ \/ usage.tokens > MaxTokens
       \/ continuing /\ usage.tokens >= MaxTokens
       \/ usage.reports < usage.started /\ unknownUsage = "reject"

-----------------------------------------------------------------------------
(* The generator *)

\* validate refuses the request: the stream has no event.
Reject ==
    /\ Steps("new")
    /\ run' = At("ended")
    /\ aborted' = TRUE
    /\ UNCHANGED <<provider, unknownUsage, call, queue, timer, usage, text, record>>

\* stream takes its snapshot of the adapter and of the usage policy; then the
\* scheduler is asked for a place.
Start ==
    /\ Steps("new")
    /\ run' = IF aborted THEN [At("failing") EXCEPT !.account = provider]
              ELSE [Yields("admission") EXCEPT !.account = provider]
    /\ UNCHANGED <<provider, unknownUsage, call, queue, timer, aborted, usage, text, record>>

\* The scheduler admits the run, or refuses it; the idle timer starts.
Admitted(granted) ==
    /\ Steps("admission")
    /\ run' = IF granted /\ ~aborted THEN [At("context") EXCEPT !.paused = FALSE] ELSE At("failing")
    /\ timer' = IF granted /\ ~aborted THEN Progressed(FALSE) ELSE timer
    /\ granted \/ aborted
    /\ UNCHANGED <<provider, unknownUsage, call, queue, aborted, usage, text, record>>

\* The evidence is searched and the context resolved, or there is none.
Gather(found) ==
    /\ Steps("context")
    /\ found \/ aborted
    /\ run' = At(IF aborted THEN "failing" ELSE "step")
    /\ timer' = Progressed(FALSE)
    /\ UNCHANGED <<provider, unknownUsage, call, queue, aborted, usage, text, record>>

\* Before a model call: the budget; the timer stops while the application decides.
NextStep ==
    /\ Steps("step")
    /\ IF aborted \/ Reached(TRUE) THEN run' = At("failing") /\ UNCHANGED timer
       ELSE /\ run' = [At("authorizing") EXCEPT !.step = @ + 1, !.paused = TRUE]
            /\ timer' = FALSE
    /\ UNCHANGED <<provider, unknownUsage, call, queue, aborted, usage, text, record>>

\* authorize, then the checks of the session and of the evidence: step.started.
Authorized(allowed) ==
    /\ Steps("authorizing")
    /\ allowed \/ aborted
    /\ run' = IF allowed /\ ~aborted THEN [Yields("model") EXCEPT !.paused = FALSE]
              ELSE At("failing")
    /\ timer' = IF allowed /\ ~aborted THEN Progressed(FALSE) ELSE timer
    /\ UNCHANGED <<provider, unknownUsage, call, queue, aborted, usage, text, record>>

Refused ==
    /\ Steps("admission") \/ Steps("context") \/ Steps("authorizing")
    /\ run' = At("failing")
    /\ UNCHANGED <<provider, unknownUsage, call, queue, timer, aborted, usage, text, record>>

\* withProgress begins: the adapter is called.
Call ==
    /\ Steps("model") /\ call.state = "none"
    /\ IF aborted THEN run' = At("failing") /\ UNCHANGED <<call, usage, text>>
       ELSE /\ call' = [call EXCEPT !.state = "running"]
            /\ usage' = [usage EXCEPT !.started = @ + 1]
            /\ text' = [emitted |-> 0, delivered |-> 0]
            /\ UNCHANGED run
    /\ UNCHANGED <<provider, unknownUsage, queue, timer, aborted, record>>

\* Its loop: the queue first, then the outcome.
Drain ==
    /\ Steps("model") /\ queue # <<>>
    /\ queue' = Tail(queue)
    /\ text' = [text EXCEPT !.delivered = @ + Head(queue)]
    /\ run' = Yields("model")
    /\ UNCHANGED <<provider, unknownUsage, call, timer, aborted, usage, record>>

Settle_First ==
    /\ Steps("model") /\ call.state \in {"returned", "threw"}
    /\ run' = At(IF call.state = "returned" /\ ~aborted THEN "turn" ELSE "failing")
    /\ call' = [call EXCEPT !.state = "none"]
    /\ queue' = <<>>
    /\ UNCHANGED <<provider, unknownUsage, timer, aborted, usage, text, record>>

Settle ==
    /\ Steps("model") /\ queue = <<>> /\ call.state \in {"returned", "threw"}
    /\ run' = At(IF call.state = "returned" /\ ~aborted THEN "turn" ELSE "failing")
    /\ call' = [call EXCEPT !.state = "none"]
    /\ UNCHANGED <<provider, unknownUsage, queue, timer, aborted, usage, text, record>>

\* The turn: its usage, and its text when none was streamed.
Turn ==
    /\ Steps("turn")
    /\ usage' = [usage EXCEPT !.completed = @ + 1,
                              !.reports = IF call.reported THEN @ + 1 ELSE @,
                              !.tokens = IF call.reported THEN @ + call.tokens ELSE @]
    /\ call' = [call EXCEPT !.tokens = 0, !.reported = FALSE]
    /\ \/ call.reported /\ run' = Yields("answered")
       \/ run' = At("answered")
    /\ UNCHANGED <<provider, unknownUsage, queue, timer, aborted, text, record>>

\* The budget again; then the next step, or the answer with its last checks (the
\* output's schema, the evidence, the session).
Answer(valid) ==
    /\ Steps("answered")
    /\ IF Reached(call.calls) \/ (call.calls /\ run.step = MaxSteps) \/ ~valid \/ aborted
       THEN run' = At("failing")
       ELSE run' = IF call.calls THEN At("step")
                   ELSE [Yields("closing") EXCEPT !.status = "completed", !.terminal = "completed"]
    /\ UNCHANGED <<provider, unknownUsage, call, queue, timer, aborted, usage, text, record>>

\* catch: a run that never started says so first.
Fail ==
    /\ Steps("failing")
    /\ run' = IF ~run.started THEN Yields("failing")
              ELSE [Yields("closing") EXCEPT
                       !.status = IF aborted THEN "cancelled" ELSE "failed",
                       !.terminal = IF aborted THEN "cancelled" ELSE "failed"]
    /\ UNCHANGED <<provider, unknownUsage, call, queue, timer, aborted, usage, text, record>>

Finish_Current ==
    /\ Steps("closing")
    /\ run' = At("ended")
    /\ timer' = FALSE
    /\ aborted' = TRUE
    /\ record' = provider
    /\ call' = [call EXCEPT !.state = IF @ = "running" THEN "left" ELSE "none"]
    /\ queue' = <<>>
    /\ UNCHANGED <<provider, unknownUsage, usage, text>>

\* finally: everything is released, and the record sent, of the account that served.
Finish ==
    /\ Steps("closing")
    /\ run' = At("ended")
    /\ timer' = FALSE
    /\ aborted' = TRUE
    /\ record' = run.account
    /\ call' = [call EXCEPT !.state = IF @ = "running" THEN "left" ELSE "none"]
    /\ queue' = <<>>
    /\ UNCHANGED <<provider, unknownUsage, usage, text>>

-----------------------------------------------------------------------------
(* The provider *)

\* emitText and reportProgress: a full queue aborts the run; text joins text.
Emit(pieces) ==
    /\ call.state = "running" /\ ~aborted
    /\ text.emitted + pieces <= MaxPieces
    /\ text' = [text EXCEPT !.emitted = @ + pieces]
    /\ timer' = Progressed(run.paused)
    /\ IF Len(queue) >= MaxQueue THEN aborted' = TRUE /\ UNCHANGED queue
       ELSE /\ UNCHANGED aborted
            /\ queue' = IF pieces > 0 /\ queue # <<>> /\ queue[Len(queue)] > 0
                        THEN [queue EXCEPT ![Len(queue)] = @ + pieces]
                        ELSE Append(queue, pieces)
    /\ UNCHANGED <<provider, unknownUsage, run, call, usage, record>>

\* The adapter returns a turn, or throws; after an abort nobody waits for it.
Return(calls, tokens, reported) ==
    /\ call.state = "running" /\ ~aborted
    /\ call' = [state |-> "returned", calls |-> calls, tokens |-> tokens, reported |-> reported]
    /\ timer' = Progressed(run.paused)
    /\ UNCHANGED <<provider, unknownUsage, run, queue, aborted, usage, text, record>>

Throw ==
    /\ call.state = "running" /\ ~aborted
    /\ call' = [call EXCEPT !.state = "threw"]
    /\ UNCHANGED <<provider, unknownUsage, run, queue, timer, aborted, usage, text, record>>

\* abortable: with the signal, a call that has not settled has thrown.
Leave ==
    /\ call.state = "running" /\ aborted
    /\ call' = [call EXCEPT !.state = "threw"]
    /\ UNCHANGED <<provider, unknownUsage, run, queue, timer, aborted, usage, text, record>>

-----------------------------------------------------------------------------
(* The consumer, and the world *)

Pull ==
    /\ run.suspended /\ ~run.closed
    /\ run' = [run EXCEPT !.suspended = FALSE]
    /\ UNCHANGED <<provider, unknownUsage, call, queue, timer, aborted, usage, text, record>>

\* return: cancelOnClose aborts first; a suspended generator goes to its finally.
Close ==
    /\ run.at \notin {"new", "ended"} /\ ~run.closed
    /\ aborted' = TRUE
    /\ run' = IF run.suspended
              THEN [run EXCEPT !.closed = TRUE, !.at = "closing", !.suspended = FALSE]
              ELSE run
    /\ UNCHANGED <<provider, unknownUsage, call, queue, timer, usage, text, record>>

Abort ==
    /\ run.at # "ended" /\ ~aborted
    /\ aborted' = TRUE
    /\ UNCHANGED <<provider, unknownUsage, run, call, queue, timer, usage, text, record>>

\* No progress for too long.
Idle ==
    /\ timer
    /\ timer' = FALSE
    /\ aborted' = TRUE
    /\ UNCHANGED <<provider, unknownUsage, run, call, queue, usage, text, record>>

\* configureProviders: the instance has another adapter, bound to another account.
Configure ==
    /\ run.at # "ended"
    /\ \E account \in Accounts \ {provider} : provider' = account
    /\ UNCHANGED <<unknownUsage, run, call, queue, timer, aborted, usage, text, record>>

Generator ==
    \/ Start \/ NextStep \/ Call \/ Drain \/ Settle \/ Turn \/ Fail \/ Finish
    \/ \E valid \in BOOLEAN : Answer(valid)
    \/ aborted /\ (Admitted(FALSE) \/ Gather(FALSE) \/ Authorized(FALSE))

Provider ==
    \/ \E pieces \in {0, 1} : Emit(pieces)
    \/ \E calls \in BOOLEAN, tokens \in Tokens, reported \in BOOLEAN :
          Return(calls, tokens, reported)
    \/ Throw

World ==
    \/ Reject \/ Admitted(TRUE) \/ Gather(TRUE) \/ Authorized(TRUE) \/ Refused
    \/ Close \/ Abort \/ Idle \/ Configure

Next == Generator \/ Provider \/ Leave \/ Pull \/ World

\* The event loop runs what can run, and the consumer reads on; neither the
\* provider nor the application need ever answer.
Fairness == WF_driverVars(Generator) /\ WF_driverVars(Leave) /\ WF_driverVars(Pull)

Spec == Init /\ [][Next]_driverVars /\ Fairness

-----------------------------------------------------------------------------
(* Properties *)

\* Every variable has its type.
TypeOK ==
    /\ provider \in Accounts /\ record \in Accounts \cup {"none"}
    /\ run.at \in Places /\ run.step \in 0 .. MaxSteps
    /\ call.state \in {"none", "running", "returned", "threw", "left"}
    /\ queue \in Seq(Nat) /\ Len(queue) <= MaxQueue
    /\ usage.completed <= usage.started

\* A run that completes has delivered all the text of its answer, in spite of a
\* consumer that reads slower than the model writes: text is only dropped when
\* the run is aborted for it.
CompletedIsWhole == run.terminal = "completed" => text.delivered = text.emitted

\* No model call begins once the tokens that were reported reach the budget, nor,
\* under "reject", after a call whose usage is unknown.
BudgetBinds ==
    [][usage'.started > usage.started /\ usage.started > 0 =>
          /\ usage.tokens < MaxTokens
          /\ unknownUsage = "reject" => usage.reports = usage.started]_driverVars

\* The idle timer runs only while the run itself is at work: never while it waits
\* for the scheduler or for the application's decision, nor after it ended.
IdleIsOwn == timer => ~run.paused /\ run.at # "ended"

\* The record names the account whose adapter served the run.
AccountIsKept == [][record' # record => record' = run.account]_driverVars

\* Once a run is aborted it ends, also when its provider never returns.
AbortEnds == aborted ~> run.at = "ended"

=============================================================================
