---------------------------- MODULE Diagnostics ----------------------------
(***************************************************************************)
(* Diagnostics: operational telemetry that never holds up a run.           *)
(*                                                                         *)
(* Runs and the HTTP host leave records in a bounded queue; one export at  *)
(* a time takes a batch, with a deadline.  An exporter that hangs, or      *)
(* fails three times in a row, is disabled.  Records are numbered as they  *)
(* are made, so that each can be accounted for; a record has one byte.     *)
(* Sampling and the level, which only leave records out, are choices.      *)
(***************************************************************************)
EXTENDS Integers, Sequences, FiniteSets

CONSTANTS
    Traced,         \* runs to be traced
    MaxActive,      \* maxActiveRuns
    MaxSpans,       \* maxSpansPerRun
    QueueSize,
    BatchSize,
    MaxRecords,     \* bound: records made
    MaxStages       \* bound: stages of a run

VARIABLES
    active,         \* Diagnostics.active
    traces,         \* the DiagnosticRuns
    backlog,        \* Diagnostics.queue
    scheduled,      \* an immediate is set
    exporting,      \* the batch with the exporter; empty: none
    exporter,       \* [disabled, failures]
    closing,        \* "no", "closing", "closed"
    made,           \* records that reached enqueue while it was open
    counters        \* [dropped, exported]

diagnosticsVars ==
    <<active, traces, backlog, scheduled, exporting, exporter, closing, made, counters>>
pipeline == <<backlog, scheduled, exporting, exporter, made, counters>>

NoTrace == [state |-> "none", pending |-> 0, spans |-> 0, ended |-> 0, dropped |-> 0]

Init ==
    /\ active = 0
    /\ traces = [t \in Traced |-> NoTrace]
    /\ backlog = <<>> /\ scheduled = FALSE /\ exporting = <<>>
    /\ exporter = [disabled |-> FALSE, failures |-> 0]
    /\ closing = "no" /\ made = 0
    /\ counters = [dropped |-> 0, exported |-> 0]

\* schedule, given what it finds.
Scheduled(busy, disabled) == scheduled \/ (~busy /\ ~disabled /\ closing # "closed")

\* enqueue: nothing while closing; a full queue, or a disabled exporter, drops it.
Enqueue ==
    IF closing # "no" \/ made = MaxRecords THEN UNCHANGED pipeline
    ELSE /\ made' = made + 1
         /\ IF exporter.disabled \/ Len(backlog) >= QueueSize
            THEN /\ counters' = [counters EXCEPT !.dropped = @ + 1]
                 /\ UNCHANGED <<backlog, scheduled>>
            ELSE /\ backlog' = Append(backlog, made + 1)
                 /\ scheduled' = Scheduled(exporting # <<>>, FALSE)
                 /\ UNCHANGED counters
         /\ UNCHANGED <<exporting, exporter>>

\* startRun: past the limit, or while closing, the run is not traced.
StartRun(t) ==
    /\ traces[t].state = "none"
    /\ IF closing # "no" \/ active >= MaxActive
       THEN traces' = [traces EXCEPT ![t].state = "untraced"] /\ UNCHANGED active
       ELSE traces' = [traces EXCEPT ![t].state = "open"] /\ active' = active + 1
    /\ UNCHANGED <<pipeline, closing>>

Stage(t) ==
    /\ traces[t].state = "open" /\ traces[t].pending + traces[t].ended < MaxStages
    /\ traces' = [traces EXCEPT ![t].pending = @ + 1]
    /\ UNCHANGED <<active, pipeline, closing>>

\* n scopes end: their spans are kept up to the limit.
EndedStages(trace, n) ==
    LET kept == IF trace.spans + n <= MaxSpans THEN n ELSE MaxSpans - trace.spans
    IN [trace EXCEPT !.pending = @ - n, !.ended = @ + n, !.spans = @ + kept,
                     !.dropped = @ + n - kept]

\* end of one scope; a second end of the same scope does nothing.
EndStage(t) ==
    /\ traces[t].state = "open" /\ traces[t].pending > 0
    /\ traces' = [traces EXCEPT ![t] = EndedStages(@, 1)]
    /\ UNCHANGED <<active, pipeline, closing>>

\* progress of a run, and the record of an HTTP operation.
Progress ==
    /\ Enqueue
    /\ UNCHANGED <<active, traces, closing>>

\* finish: what is still pending ends with the run, which may have been sampled.
FinishRun(t) ==
    /\ traces[t].state = "open"
    /\ traces' = [traces EXCEPT ![t] =
          [EndedStages(@, traces[t].pending) EXCEPT !.state = "finished"]]
    /\ active' = active - 1
    /\ Enqueue \/ UNCHANGED pipeline
    /\ UNCHANGED closing

-----------------------------------------------------------------------------
(* The export *)

CanPump == exporting = <<>> /\ backlog # <<>> /\ ~exporter.disabled /\ closing # "closed"

\* pump takes a batch.
Pumped ==
    LET n == IF Len(backlog) < BatchSize THEN Len(backlog) ELSE BatchSize IN
    /\ exporting' = SubSeq(backlog, 1, n)
    /\ backlog' = SubSeq(backlog, n + 1, Len(backlog))

\* The immediate.
Immediate ==
    /\ scheduled
    /\ scheduled' = FALSE
    /\ IF CanPump THEN Pumped ELSE UNCHANGED <<exporting, backlog>>
    /\ UNCHANGED <<active, traces, exporter, closing, made, counters>>

\* The exporter took the batch; what came meanwhile is scheduled.
Exported ==
    /\ exporting # <<>>
    /\ counters' = [counters EXCEPT !.exported = @ + Len(exporting)]
    /\ exporter' = [exporter EXCEPT !.failures = 0]
    /\ exporting' = <<>>
    /\ scheduled' = Scheduled(FALSE, FALSE)
    /\ UNCHANGED <<active, traces, backlog, closing, made>>

ExportFailed_Uncounted(timeout) ==
    LET disabled == timeout \/ exporter.failures + 1 >= 3 IN
    /\ exporting # <<>>
    /\ exporter' = [disabled |-> disabled, failures |-> exporter.failures + 1]
    /\ counters' = [counters EXCEPT !.dropped = @ + Len(exporting)]
    /\ backlog' = IF disabled THEN <<>> ELSE backlog
    /\ exporting' = <<>>
    /\ scheduled' = Scheduled(FALSE, disabled)
    /\ UNCHANGED <<active, traces, closing, made>>

\* It threw, or did not answer before the deadline.
ExportFailed(timeout) ==
    LET disabled == timeout \/ exporter.failures + 1 >= 3 IN
    /\ exporting # <<>>
    /\ exporter' = [disabled |-> disabled, failures |-> exporter.failures + 1]
    /\ counters' = [counters EXCEPT !.dropped = @ + Len(exporting)
                                        + (IF disabled THEN Len(backlog) ELSE 0)]
    /\ backlog' = IF disabled THEN <<>> ELSE backlog
    /\ exporting' = <<>>
    /\ scheduled' = Scheduled(FALSE, disabled)
    /\ UNCHANGED <<active, traces, closing, made>>

\* close: nothing new is accepted, what there is is flushed.
Close ==
    /\ closing = "no"
    /\ closing' = "closing"
    /\ UNCHANGED <<active, traces, pipeline>>

\* flush: pump and wait, again and again, until nothing is left.
Flush ==
    /\ closing = "closing" /\ exporting = <<>>
    /\ IF CanPump
       THEN Pumped /\ UNCHANGED <<scheduled, closing>>
       ELSE /\ closing' = "closed"
            /\ UNCHANGED <<exporting, backlog, scheduled>>
    /\ UNCHANGED <<active, traces, exporter, made, counters>>

Next ==
    \/ \E t \in Traced : StartRun(t) \/ Stage(t) \/ EndStage(t) \/ FinishRun(t)
    \/ Progress \/ Immediate \/ Exported \/ Close \/ Flush
    \/ \E timeout \in BOOLEAN : ExportFailed(timeout)

\* The event loop, and the deadline: the exporter itself need never answer.
Fairness ==
    /\ WF_diagnosticsVars(Immediate) /\ WF_diagnosticsVars(Flush)
    /\ WF_diagnosticsVars(ExportFailed(TRUE))

Spec == Init /\ [][Next]_diagnosticsVars /\ Fairness

-----------------------------------------------------------------------------
(* Properties *)

\* Every variable has its type.
TypeOK ==
    /\ active \in 0 .. MaxActive /\ made \in 0 .. MaxRecords
    /\ \A t \in Traced : traces[t].state \in {"none", "untraced", "open", "finished"}
    /\ Len(backlog) <= QueueSize /\ Len(exporting) <= BatchSize
    /\ closing \in {"no", "closing", "closed"}

\* Every record that was accepted is exported, counted as dropped, or on its way,
\* and what waits will be taken: an export, an immediate or the flush is due.
RecordsAccounted ==
    /\ made = counters.dropped + counters.exported + Len(backlog) + Len(exporting)
    /\ backlog # <<>> => closing # "closed" /\ ~exporter.disabled
                         /\ (scheduled \/ exporting # <<>> \/ closing = "closing")

\* The runs that count as active are the traced ones that have not finished, and a
\* finished run has closed all its stages.
TracesClose ==
    /\ active = Cardinality({t \in Traced : traces[t].state = "open"})
    /\ \A t \in Traced : traces[t].state = "finished" =>
          traces[t].pending = 0 /\ traces[t].spans + traces[t].dropped = traces[t].ended

\* Closing ends, whatever the exporter does.
CloseEnds == closing = "closing" ~> closing = "closed"

=============================================================================
