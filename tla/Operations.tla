----------------------------- MODULE Operations -----------------------------
(***************************************************************************)
(* Idempotent runs: driver.streamInternal over a FileOperationStore.       *)
(*                                                                         *)
(* Several driver processes share the directory that holds one file per    *)
(* (subject, key); the keys do not interact, so there is one file here.  A *)
(* call is one stream() with that key.  The claim is a hard link, which    *)
(* the file system makes atomic; every later save writes a temporary file  *)
(* and renames it over the record, and any save may fail before or after   *)
(* the rename.  Between two awaits a call runs alone in its process.       *)
(*                                                                         *)
(* The run itself is driver.execute, a generator: it stands still at each  *)
(* event it yields until the event is in the record and consumed.  The     *)
(* text and progress events, which append ignores, are left out.           *)
(***************************************************************************)
EXTENDS Naturals, SequencesExt

CONSTANTS
    Drivers,        \* host processes, each with one AgenticDriver
    Calls,          \* stream() calls
    Prints,         \* request fingerprints
    None,           \* no owner, driver or fingerprint
    MaxLog          \* maxRecordBytes, as a number of recorded events

ASSUME OperationsAssumption ==
    /\ None \notin Drivers \cup Calls \cup Prints
    /\ MaxLog \in Nat

VARIABLES
    file,       \* the operation record on disk
    alive,      \* the processes that run
    active,     \* activeOperations holds the key, per process
    call,       \* every call
    effects     \* history: how often the operation's tool ran

vars == <<file, alive, active, call, effects>>

-----------------------------------------------------------------------------
(* Records and events.  Names with an underscore are faulty variants of the
   definition that follows them. *)

Closing == {"run.completed", "run.failed", "run.cancelled"}
EventTypes == {"run.started", "tool.called", "tool.completed"} \cup Closing
Event == [type : EventTypes, uncertain : BOOLEAN]
NoEvent == [type |-> "none", uncertain |-> FALSE]

Settled == {"completed", "failed", "cancelled"}

\* OperationRecord; owner is the call that claimed it, its runId.
Record == [owner : Calls, print : Prints, log : Seq(Event),
           state : {"running", "uncertain"} \cup Settled]
Absent == [owner |-> None, print |-> None, log |-> <<>>, state |-> "absent"]

NewOperation(c, print) ==
    [owner |-> c, print |-> print, log |-> <<>>, state |-> "running"]

\* writer.interrupt, of a record that is running.
Interrupted(record) == [record EXCEPT !.state = "uncertain"]

\* What an event that closes a run tells its consumer.
Said(e) ==
    IF e.uncertain THEN "uncertain"
    ELSE CASE e.type = "run.completed" -> "completed"
           [] e.type = "run.failed"    -> "failed"
           [] e.type = "run.cancelled" -> "cancelled"

\* writer.append, before it saves.
Recorded(record, e) ==
    [record EXCEPT !.log = Append(@, e),
                   !.state = CASE e.type = "run.completed" -> "completed"
                               [] e.type = "run.failed"    -> "failed"
                               [] e.type = "run.cancelled" -> "cancelled"
                               [] OTHER                    -> @]

Replayed_Latest(record) ==
    IF record.state \in Settled THEN Said(Last(record.log)) ELSE "failed"

\* The terminal event of recoveryEvents.
Replayed(record) ==
    IF record.state \in Settled THEN Said(Last(record.log)) ELSE "uncertain"

-----------------------------------------------------------------------------
(* Calls *)

\* record: what the call loaded, or its writer's current record.
Fresh == [at |-> "new", driver |-> None, print |-> None, record |-> Absent,
          event |-> NoEvent, answer |-> "none"]

Executing == {"generating", "called", "acting", "yielded", "handed", "finishing"}
Places == {"new", "claiming", "linking", "syncing", "found", "reauthorizing",
           "ended"} \cup Executing
Answers == {"none", "conflict", "withheld", "in_progress", "error", "refused", "closed",
            "lost", "uncertain"} \cup Settled

Runs(c) == call[c].driver \in alive

Moved(c, place) == call' = [call EXCEPT ![c].at = place]

Ended(c, answer) == call' = [call EXCEPT ![c].at = "ended", ![c].answer = answer]

Init ==
    /\ file = Absent
    /\ alive = Drivers
    /\ active = {}
    /\ call = [c \in Calls |-> Fresh]
    /\ effects = 0

\* The call enters streamInternal with a validated request.
Stream(c, d, print) ==
    /\ call[c].at = "new" /\ d \in alive
    /\ call' = [call EXCEPT ![c].at = "claiming", ![c].driver = d, ![c].print = print]
    /\ UNCHANGED <<file, alive, active, effects>>

\* claim: load the record, or go on when there is none.
Load(c) ==
    /\ call[c].at = "claiming" /\ Runs(c)
    /\ \/ /\ file = Absent
          /\ Moved(c, "linking")
       \/ /\ file # Absent
          /\ call' = [call EXCEPT ![c].at = "found", ![c].record = file]
       \/ Ended(c, "error")
    /\ UNCHANGED <<file, alive, active, effects>>

Link_Overwrite(c) ==
    LET proposed == NewOperation(c, call[c].print) IN
    /\ call[c].at = "linking" /\ Runs(c)
    /\ file' = proposed
    /\ call' = [call EXCEPT ![c].at = "syncing", ![c].record = proposed]
    /\ UNCHANGED <<alive, active, effects>>

\* claim: link the temporary file to the record's name, which fails when the
\* name exists; then that record is loaded.
Link(c) ==
    LET proposed == NewOperation(c, call[c].print) IN
    /\ call[c].at = "linking" /\ Runs(c)
    /\ \/ /\ file = Absent
          /\ file' = proposed
          /\ call' = [call EXCEPT ![c].at = "syncing", ![c].record = proposed]
       \/ /\ file # Absent
          /\ Moved(c, "claiming") /\ UNCHANGED file
       \/ Ended(c, "error") /\ UNCHANGED file
    /\ UNCHANGED <<alive, active, effects>>

\* claim flushes the directory and removes the temporary file; on success the
\* call takes the key in activeOperations and starts the run, which reaches its
\* first event or is refused before it, by its session for instance.
Sync(c) ==
    /\ call[c].at = "syncing" /\ Runs(c)
    /\ \/ /\ active' = active \cup {call[c].driver}
          /\ \/ call' = [call EXCEPT ![c].at = "yielded",
                                     ![c].event = [type |-> "run.started", uncertain |-> FALSE]]
             \/ call' = [call EXCEPT ![c].at = "finishing", ![c].answer = "refused"]
       \/ Ended(c, "error") /\ UNCHANGED active
    /\ UNCHANGED <<file, alive, effects>>

\* A record that another call claimed, which may be of another request, of a
\* session that is withheld from the caller, or in execution in this process.
Answer(c) ==
    LET record == call[c].record IN
    /\ call[c].at = "found" /\ Runs(c)
    /\ \/ record.print # call[c].print /\ Ended(c, "conflict")
       \/ record.print = call[c].print
          /\ \/ Ended(c, "withheld")
             \/ IF record.state = "running" /\ call[c].driver \in active
                THEN Ended(c, "in_progress") ELSE Moved(c, "reauthorizing")
    /\ UNCHANGED <<file, alive, active, effects>>

\* authorizeReplay: the evidence that the recorded run used is authorized anew;
\* then the record is replayed as it was read, unless the caller is gone.
Reauthorize(c) ==
    /\ call[c].at = "reauthorizing" /\ Runs(c)
    /\ Ended(c, "withheld") \/ Ended(c, Replayed(call[c].record))
    /\ UNCHANGED <<file, alive, active, effects>>

-----------------------------------------------------------------------------
(* The run *)

Yielding(c, type, uncertain) ==
    call' = [call EXCEPT ![c].at = "yielded",
                         ![c].event = [type |-> type, uncertain |-> uncertain]]

\* The generator runs to its next yield: the model's answer, a failure, or the
\* caller's abort.  The outcome is uncertain once a tool is pending.
Generate(c) ==
    /\ Runs(c)
    /\ \/ /\ call[c].at = "generating"
          /\ \E type \in {"tool.called"} \cup Closing : Yielding(c, type, FALSE)
       \/ /\ call[c].at = "called"
          /\ \E type \in {"run.failed", "run.cancelled"} : Yielding(c, type, FALSE)
       \/ /\ call[c].at = "acting"
          /\ \/ Yielding(c, "tool.completed", FALSE)
             \/ \E type \in {"run.failed", "run.cancelled"} : Yielding(c, type, TRUE)
    /\ UNCHANGED <<file, alive, active, effects>>

\* The tool runs.
Act(c) ==
    /\ call[c].at = "called" /\ Runs(c)
    /\ effects' = effects + 1
    /\ Moved(c, "acting")
    /\ UNCHANGED <<file, alive, active>>

Save_AfterYield(c) ==
    /\ call[c].at = "yielded" /\ Runs(c)
    /\ call' = [call EXCEPT
          ![c].at = "handed",
          ![c].answer = IF call[c].event.type \in Closing
                        THEN Said(call[c].event) ELSE @]
    /\ UNCHANGED <<file, alive, active, effects>>

\* writer.append, then the event is the consumer's.  A save that fails, with or
\* without having replaced the file, ends the run with an uncertain failure.
Save(c) ==
    LET next == Recorded(call[c].record, call[c].event) IN
    /\ call[c].at = "yielded" /\ Runs(c)
    /\ \/ /\ Len(next.log) <= MaxLog
          /\ file' = next
          /\ call' = [call EXCEPT
                ![c].at = "handed", ![c].record = next,
                ![c].answer = IF call[c].event.type \in Closing
                              THEN Said(call[c].event) ELSE @]
       \/ /\ \/ Len(next.log) <= MaxLog /\ file' = next
             \/ UNCHANGED file
          /\ call' = [call EXCEPT ![c].at = "finishing", ![c].answer = "uncertain"]
    /\ UNCHANGED <<alive, active, effects>>

\* The consumer asks for the next event, or closes the stream.
Consume(c) ==
    LET type == call[c].event.type IN
    /\ call[c].at = "handed" /\ Runs(c)
    /\ \/ call' = [call EXCEPT
             ![c].at = IF type \in Closing THEN "finishing"
                       ELSE IF type = "tool.called" THEN "called" ELSE "generating",
             ![c].event = NoEvent]
       \/ /\ type \notin Closing
          /\ call' = [call EXCEPT ![c].at = "finishing", ![c].event = NoEvent,
                                  ![c].answer = "closed"]
    /\ UNCHANGED <<file, alive, active, effects>>

\* finally: writer.interrupt unless the run is terminal, its failure ignored,
\* and the key leaves activeOperations.
Finish(c) ==
    /\ call[c].at = "finishing" /\ Runs(c)
    /\ \/ call[c].record.state = "running"
          /\ file' = Interrupted(call[c].record)
       \/ UNCHANGED file
    /\ active' = active \ {call[c].driver}
    /\ Moved(c, "ended")
    /\ UNCHANGED <<alive, effects>>

-----------------------------------------------------------------------------
(* Processes *)

\* The process dies with its calls; a tool that ran has run.
Crash(d) ==
    /\ d \in alive
    /\ alive' = alive \ {d}
    /\ active' = active \ {d}
    /\ call' = [c \in Calls |->
                  IF call[c].driver = d /\ call[c].at # "ended"
                  THEN [call[c] EXCEPT !.at = "ended", !.answer = "lost"]
                  ELSE call[c]]
    /\ UNCHANGED <<file, effects>>

Restart(d) ==
    /\ d \notin alive
    /\ alive' = alive \cup {d}
    /\ UNCHANGED <<file, active, call, effects>>

Next ==
    \/ \E c \in Calls :
          \/ \E d \in Drivers, print \in Prints : Stream(c, d, print)
          \/ Load(c) \/ Link(c) \/ Sync(c) \/ Answer(c) \/ Reauthorize(c)
          \/ Generate(c) \/ Act(c) \/ Save(c) \/ Consume(c) \/ Finish(c)
    \/ \E d \in Drivers : Crash(d) \/ Restart(d)

Spec == Init /\ [][Next]_vars

-----------------------------------------------------------------------------
(* Properties *)

\* The record, the processes and the calls have their types, and the record's
\* state is what its log says.
TypeOK ==
    /\ file \in Record \cup {Absent}
    /\ file.state \in Settled <=> file.log # <<>> /\ Last(file.log).type \in Closing
    /\ alive \subseteq Drivers /\ active \subseteq Drivers
    /\ call \in [Calls ->
          [at : Places, driver : Drivers \cup {None}, print : Prints \cup {None},
           record : Record \cup {Absent}, event : Event \cup {NoEvent},
           answer : Answers]]
    /\ effects \in Nat

Claims(c) == call[c].at \in {"syncing"} \cup Executing

\* "Concurrent processes using the same directory cannot claim the same
\* subject/key twice": of all calls in all processes, before and after crashes,
\* only the record's owner ever executes.
OneClaimant == \A c \in Calls : Claims(c) => file.owner = c

Logged(type) == Cardinality({n \in DOMAIN file.log : file.log[n].type = type})

\* "A tool effect followed by connection loss yields a recoverable recorded
\* outcome or explicit uncertainty": while a tool's effect is not confirmed in
\* the record, no call is told a certain outcome.
NoSilentEffect ==
    effects > Logged("tool.completed") =>
        \A c \in Calls : call[c].answer \notin Settled

\* "Reusing the same key and request returns the saved outcome": no two calls
\* are told different certain outcomes, and only the request that was accepted
\* gets one.
AnswersAgree ==
    \A b, c \in Calls :
        call[b].answer \in Settled /\ call[c].answer \in Settled =>
            call[b].answer = call[c].answer /\ call[b].print = call[c].print

\* activeOperations marks the key exactly while a call of the process executes
\* it: however the run ends, the mark is not left behind.
MarkedWhileExecuting ==
    active = {call[c].driver : c \in {b \in Calls : call[b].at \in Executing}}

\* One call executes the operation, and its process knows of it exactly that long.
OneExecution == TypeOK /\ OneClaimant /\ MarkedWhileExecuting

\* "returns the saved outcome": a certain outcome in the record is not replaced.
OutcomeIsFinal ==
    [][file.state \in Settled => file' = file]_vars

\* "Record a complete rejection, not an uncertain operation" (driver.ts:1386): a
\* call that was refused before its first event leaves no uncertain record.
RefusalIsRecorded ==
    \A c \in Calls :
        call[c].at = "ended" /\ call[c].answer = "refused" => file.state # "uncertain"

=============================================================================
