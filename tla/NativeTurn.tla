------------------------------ MODULE NativeTurn ------------------------------
(***************************************************************************)
(* One model turn by a native command line (codex app-server, Claude Code): *)
(* the process the adapter runs, what it prints, and the local bridge       *)
(* through which a helper of that process proposes calls of the             *)
(* application's tools.  The adapter never answers a proposal: when all the *)
(* calls the process announced were also proposed, it ends the process and  *)
(* hands the calls to the driver.                                           *)
(***************************************************************************)
EXTENDS Integers, SequencesExt, FiniteSetsExt

CONSTANTS
    Values,       \* what a call asks for: the tool and its arguments
    Vendors,      \* "codex", "claude"
    MaxCalls,     \* 32: the calls of a turn
    MaxLines      \* bound: the lines the adapter has not read yet

VARIABLES
    vendor,
    call,         \* complete(): where it is
    child,        \* the process group
    lines,        \* its output that was not read yet
    bridge,       \* the bridge and the abort signal it sets
    aborted       \* the signal of the run

turnVars == <<vendor, call, child, lines, bridge, aborted>>

\* prompts: how often the prompt was sent to a process.
NoTurn == [at |-> "checking", phase |-> 0, attempts |-> 0, prompts |-> 0,
           result |-> "none", directory |-> FALSE, failure |-> "none"]
\* holders: a descendant keeps the output open, in the group or outside of it.
NoChild == [at |-> "none", ending |-> FALSE, killed |-> FALSE, group |-> FALSE,
            escaped |-> FALSE, code |-> "ok"]
\* announced: the calls on the output; received: proposals not matched to a call;
\* posted: all proposals, until the calls of the turn are settled; reason: why the bridge aborted the process.
NoBridge == [open |-> FALSE, announced |-> <<>>, received |-> <<>>, posted |-> <<>>,
             interrupting |-> FALSE, reason |-> "none"]

Init ==
    /\ vendor \in Vendors
    /\ call = NoTurn /\ child = NoChild /\ lines = <<>>
    /\ bridge = NoBridge /\ aborted = FALSE

Running == call.at = "running"
Over == call.at \in {"returned", "threw"}
Leave(how) == call' = [call EXCEPT !.at = "leaving", !.result = how]

-----------------------------------------------------------------------------
(* runProcess *)

\* The first failure counts; the process group is told to end, unless the process
\* is gone already.
Stopped(c) == [c EXCEPT !.ending = @ \/ c.at = "alive"]
Failing(c, why) == [c EXCEPT !.failure = IF @ = "none" THEN why ELSE @]

\* The versions and flags the adapter was qualified with.
Check(ok) ==
    /\ call.at = "checking"
    /\ IF ok /\ ~aborted
       THEN /\ call' = [call EXCEPT !.at = "prepared", !.directory = TRUE]
            /\ bridge' = [bridge EXCEPT !.open = TRUE]
       ELSE call' = [call EXCEPT !.at = "threw"] /\ UNCHANGED bridge
    /\ UNCHANGED <<vendor, child, lines, aborted>>

\* Claude Code reads the prompt from its input; codex is asked step by step.
Spawn ==
    /\ call.at = "prepared"
    /\ IF aborted \/ bridge.reason # "none"
       THEN Leave("threw") /\ UNCHANGED child
       ELSE /\ call' = [call EXCEPT !.at = "running", !.attempts = @ + 1,
                          !.prompts = @ + (IF vendor = "claude" THEN 1 ELSE 0)]
            /\ child' = [NoChild EXCEPT !.at = "alive"]
    /\ UNCHANGED <<vendor, lines, bridge, aborted>>

Abort ==
    /\ ~aborted /\ ~Over
    /\ aborted' = TRUE
    /\ IF Running THEN call' = Failing(call, "failed") /\ child' = Stopped(child)
       ELSE UNCHANGED <<call, child>>
    /\ UNCHANGED <<vendor, lines, bridge>>

\* More output than a turn may have: a failure that replaces any other.
Exceed ==
    /\ Running /\ child.at = "alive" /\ call.failure # "failed"
    /\ call' = [call EXCEPT !.failure = "failed"] /\ child' = Stopped(child)
    /\ UNCHANGED <<vendor, lines, bridge, aborted>>

\* A process that was told to end may ignore it for a second.
Kill ==
    /\ child.at = "alive" /\ child.ending /\ ~child.killed
    /\ child' = [child EXCEPT !.killed = TRUE]
    /\ UNCHANGED <<vendor, call, lines, bridge, aborted>>

\* The process exits; what is left of its group is killed.
Exit ==
    /\ child.at = "alive"
    /\ \E code \in {"ok", "failed", "changed"} :
          child' = [child EXCEPT !.at = "exited", !.group = FALSE, !.code = code]
    /\ UNCHANGED <<vendor, call, lines, bridge, aborted>>

\* The process starts another that shares its output; outside of the group it is
\* beyond the adapter's reach.
Fork ==
    /\ child.at = "alive" /\ ~child.group /\ ~child.escaped
    /\ \E escaped \in BOOLEAN :
          child' = [child EXCEPT !.group = ~escaped, !.escaped = escaped]
    /\ UNCHANGED <<vendor, call, lines, bridge, aborted>>
EscapedEnds ==
    /\ child.escaped
    /\ child' = [child EXCEPT !.escaped = FALSE]
    /\ UNCHANGED <<vendor, call, lines, bridge, aborted>>

-----------------------------------------------------------------------------
(* The bridge *)

Confirmed(announced) == \A n \in DOMAIN announced : announced[n].confirmed

\* reconcile: each proposal confirms one call that asks for the same.
Matched_ByTool(b) ==
    LET open == {n \in DOMAIN b.announced : ~b.announced[n].confirmed}
    IN  IF open = {} \/ b.received = <<>> THEN b
        ELSE [b EXCEPT !.announced[Min(open)].confirmed = TRUE, !.received = Tail(@)]
Matched(b) ==
    LET pairs == {q \in (DOMAIN b.announced) \X (DOMAIN b.received) :
                     /\ ~b.announced[q[1]].confirmed
                     /\ b.announced[q[1]].value = b.received[q[2]]}
    IN  IF pairs = {} THEN b
        ELSE LET pair == CHOOSE q \in pairs : \A r \in pairs : q[1] <= r[1]
             IN  [b EXCEPT !.announced[pair[1]].confirmed = TRUE,
                           !.received = RemoveAt(@, pair[2])]

\* All that was announced was proposed, and the other way round.
Complete(b) == b.announced # <<>> /\ Confirmed(b.announced) /\ b.received = <<>>

\* The bridge after a call or a proposal; when it is complete the turn is
\* interrupted: codex is asked to, Claude Code is stopped.
Reconcile(b) ==
    LET matched == Matched(b)
        first == ~b.interrupting /\ Complete(matched)
        stops == first /\ vendor = "claude"
    IN  /\ bridge' = [matched EXCEPT !.interrupting = @ \/ first,
                        !.reason = IF stops /\ @ = "none" THEN "proposed" ELSE @]
        /\ child' = IF stops THEN Stopped(child) ELSE child
        /\ call' = IF stops THEN Failing(call, "proposed") ELSE call

\* The helper proposes a call; a proposal that cannot be understood ends the turn.
Propose(value) ==
    /\ Running /\ bridge.open /\ child.at = "alive"
    /\ Len(bridge.posted) < MaxCalls /\ Len(bridge.received) < MaxCalls
    /\ Reconcile([bridge EXCEPT !.received = Append(@, value),
                          !.posted = IF call.result = "calls" THEN @ ELSE Append(@, value)])
    /\ UNCHANGED <<vendor, lines, aborted>>
Reject ==
    /\ Running /\ bridge.open /\ child.at = "alive" /\ bridge.reason = "none"
    /\ bridge' = [bridge EXCEPT !.reason = "invalid"]
    /\ call' = Failing(call, "failed") /\ child' = Stopped(child)
    /\ UNCHANGED <<vendor, lines, aborted>>

-----------------------------------------------------------------------------
(* The output of the process *)

Calls == {[type |-> "call", value |-> v] : v \in Values}
Plain == {[type |-> t, value |-> "none"] :
             t \in {"reply", "finished", "interrupted", "answered", "forbidden"}}

\* What comes after a failure is read and dropped.
Say(line) ==
    /\ child.at = "alive" /\ Len(lines) < MaxLines /\ call.failure = "none"
    /\ line.type = "interrupted" => bridge.interrupting /\ vendor = "codex"
    /\ lines' = Append(lines, line)
    /\ UNCHANGED <<vendor, call, child, bridge, aborted>>

\* phase counts the replies of codex, 4 when the turn is known; Claude Code has
\* one, its description of itself.  The prompt goes out with the request for the turn.
Ready == call.phase = IF vendor = "codex" THEN 4 ELSE 1
Replied(c) ==
    [c EXCEPT !.phase = @ + 1,
              !.prompts = IF vendor = "codex" /\ c.phase = 2 THEN @ + 1 ELSE @]

\* A line that cannot be: a failure that replaces any other.
Refuse ==
    call' = [call EXCEPT !.failure = "failed"] /\ child' = Stopped(child) /\ UNCHANGED bridge
Keep(c) == call' = c /\ UNCHANGED <<child, bridge>>
Announce(value) ==
    IF Len(bridge.announced) < MaxCalls
    THEN Reconcile([bridge EXCEPT !.announced =
                       Append(@, [value |-> value, confirmed |-> FALSE])])
    ELSE Refuse

\* codex: a call is answered, and the turn ends interrupted, only after the adapter
\* asked for it; a turn that was interrupted cannot also complete.
CodexLine(line) ==
    CASE line.type = "reply" -> IF Ready THEN Refuse ELSE Keep(Replied(call))
      [] line.type = "call" /\ Ready /\ call.result = "none" -> Announce(line.value)
      [] line.type = "answered" /\ bridge.interrupting -> Keep(call)
      [] line.type = "finished" /\ Ready /\ ~bridge.interrupting /\ call.result = "none" ->
            Keep([call EXCEPT !.result = "text"])
      [] line.type = "interrupted" /\ Complete(bridge) /\ call.result = "none" ->
            Keep([call EXCEPT !.result = "calls"])
      [] OTHER -> Refuse

\* Claude Code: it describes its tools once, before anything else; no call may ever
\* have a result.
ClaudeLine(line) ==
    CASE line.type = "reply" -> IF Ready THEN Refuse ELSE Keep(Replied(call))
      [] line.type = "call" /\ Ready -> Announce(line.value)
      [] line.type = "finished" /\ Ready -> Keep([call EXCEPT !.result = "text"])
      [] OTHER -> Refuse

\* A line is handled.  Once the process has failed nothing more is, but for what
\* came in one piece with the line that made it fail.
Handle ==
    /\ Running /\ lines # <<>>
    /\ lines' = Tail(lines)
    /\ \/ call.failure # "none" /\ Keep(call)
       \/ IF vendor = "codex" THEN CodexLine(Head(lines)) ELSE ClaudeLine(Head(lines))
    /\ UNCHANGED <<vendor, aborted>>

-----------------------------------------------------------------------------
(* The end of complete() *)

\* A process that lost its policy before it replied is started once more.
Again == /\ vendor = "codex" /\ call.attempts = 1 /\ child.code = "changed"
         /\ call.failure = "none" /\ call.phase = 0

\* What complete() makes of the process when nothing holds its output any more.
Outcome ==
    CASE ~aborted /\ vendor = "claude" /\ call.failure = "proposed" ->
            IF Complete(bridge) /\ bridge.reason = "proposed" THEN "calls" ELSE "threw"
      [] ~aborted /\ call.failure = "none" /\ child.code = "ok" /\ bridge.reason = "none"
           /\ call.result # "none" -> call.result
      [] OTHER -> "threw"

Settle ==
    /\ Running /\ child.at = "exited" /\ lines = <<>> /\ ~child.group /\ ~child.escaped
    /\ IF Again
       THEN IF aborted THEN Leave("threw")
            ELSE call' = [call EXCEPT !.at = "prepared", !.phase = 0]
       ELSE Leave(Outcome)
    /\ child' = NoChild
    /\ UNCHANGED <<vendor, lines, bridge, aborted>>

\* finally: the bridge is closed, then the directory is removed; one that cannot be
\* makes the turn fail.
CloseBridge ==
    /\ call.at = "leaving" /\ bridge.open
    /\ bridge' = [bridge EXCEPT !.open = FALSE]
    /\ UNCHANGED <<vendor, call, child, lines, aborted>>
Finish ==
    /\ call.at = "leaving" /\ ~bridge.open
    /\ \E left \in BOOLEAN :
          call' = [call EXCEPT !.directory = left,
                     !.at = IF left \/ call.result = "threw" THEN "threw" ELSE "returned"]
    /\ UNCHANGED <<vendor, child, lines, bridge, aborted>>

Next ==
    \/ \E ok \in BOOLEAN : Check(ok)
    \/ Spawn \/ Abort \/ Kill \/ Exit \/ Fork \/ EscapedEnds \/ Exceed \/ Reject
    \/ \E value \in Values : Propose(value)
    \/ \E line \in Calls \cup Plain : Say(line)
    \/ Handle \/ Settle \/ CloseBridge \/ Finish

\* The adapter handles what comes; a process that is killed exits.
Fairness ==
    /\ WF_turnVars(\E ok \in BOOLEAN : Check(ok)) /\ WF_turnVars(Spawn)
    /\ WF_turnVars(Kill) /\ WF_turnVars(child.killed /\ Exit)
    /\ WF_turnVars(Handle) /\ WF_turnVars(Settle)
    /\ WF_turnVars(CloseBridge) /\ WF_turnVars(Finish)

Spec == Init /\ [][Next]_turnVars /\ Fairness

-----------------------------------------------------------------------------
(* Properties *)

\* Every variable has its type.
TypeOK ==
    /\ call.at \in {"checking", "prepared", "running", "leaving", "returned", "threw"}
    /\ call.phase \in 0 .. 4 /\ call.attempts \in 0 .. 2
    /\ child.at \in {"none", "alive", "exited"}
    /\ Len(lines) <= MaxLines
    /\ bridge.reason \in {"none", "proposed", "invalid"}

Count(s, v) == Cardinality({n \in DOMAIN s : s[n] = v})

\* A turn that hands calls to the driver hands over exactly those the process both
\* announced on its output and proposed through the bridge, however the two were
\* interleaved; a turn that was cancelled or refused hands over nothing.
CallsAreProposed ==
    call.at = "returned" =>
        /\ call.result = "calls" =>
              /\ \A v \in Values :
                    Count([n \in DOMAIN bridge.announced |-> bridge.announced[n].value], v)
                        = Count(bridge.posted, v)
              /\ bridge.announced # <<>>
        /\ bridge.reason # "invalid"

\* The prompt goes to one process of a turn: a second one is started only while the
\* first has not seen it.
PromptedOnce == call.prompts <= 1 /\ (child.at = "alive" => call.attempts <= 2)

\* When a turn is over, nothing of it is left: no process, no bridge, and no directory
\* but one that could not be removed, which a turn never passes over in silence.
NothingIsLeft ==
    Over => child.at = "none" /\ ~bridge.open /\ (call.directory => call.at = "threw")

\* A turn whose run is cancelled comes to an end, whatever its process does; only a
\* descendant that left the process group can hold it back.
CancelEnds == aborted ~> Over \/ child.escaped

=============================================================================
