-------------------------- MODULE OperationsProofs --------------------------
(***************************************************************************)
(* Operations: of all calls in all processes only one executes the         *)
(* operation, and all calls that are told an outcome are told the same,    *)
(* for any processes, calls and requests, with crashes and failed saves.   *)
(***************************************************************************)
EXTENDS Operations, FiniteSetTheorems, TLAPS

CallRecord == [at : Places, driver : Drivers \cup {None}, print : Prints \cup {None},
               record : Record \cup {Absent}, event : Event \cup {NoEvent},
               answer : Answers]

\* A record's state is what its log says.
WellClosed(record) ==
    record.state \in Settled <=>
        record.log # <<>> /\ Last(record.log).type \in Closing

TypeInv ==
    /\ file \in Record \cup {Absent} /\ WellClosed(file)
    /\ alive \subseteq Drivers /\ active \subseteq Drivers
    /\ call \in [Calls -> CallRecord]
    /\ \A c \in Calls : WellClosed(call[c].record)
    /\ effects \in Nat

\* The call executes the operation and has not closed it.
Open(c) ==
    \/ call[c].at \in {"syncing", "generating", "called", "acting", "yielded"}
    \/ call[c].at = "handed" /\ call[c].event.type \notin Closing

\* What a call knows of the record.
CallInv(c) ==
    /\ call[c].at = "new" => call[c].answer = "none" /\ call[c].driver = None
    /\ call[c].at # "new" => call[c].driver \in Drivers /\ call[c].print \in Prints
    /\ call[c].record # Absent =>
          /\ file # Absent
          /\ call[c].record.owner = file.owner /\ call[c].record.print = file.print
    /\ call[c].at = "found" => call[c].record # Absent
    /\ call[c].at = "reauthorizing" => /\ call[c].record # Absent
                                       /\ call[c].record.print = call[c].print
    /\ Claims(c) => /\ call[c].record # Absent
                    /\ call[c].record.owner = c /\ call[c].record.print = call[c].print
    /\ Open(c) => call[c].record = file /\ file.state = "running"
    /\ call[c].at \in {"yielded", "handed"} => call[c].event \in Event
    /\ call[c].answer \in Settled => file # Absent /\ call[c].print = file.print

\* What a settled record tells.
OutcomeOf(record) == Said(Last(record.log))

\* Whoever has seen an outcome has seen v.
Agreed(v) ==
    /\ file.state \in Settled => OutcomeOf(file) = v
    /\ \A c \in Calls :
          /\ call[c].answer \in Settled => call[c].answer = v
          /\ call[c].record.state \in Settled => OutcomeOf(call[c].record) = v

\* Nobody has seen an outcome while the operation is open.
NothingSettled ==
    (\E c \in Calls : Open(c)) =>
        \A c \in Calls : /\ call[c].answer \notin Settled
                         /\ call[c].record.state \notin Settled

Inv ==
    /\ TypeInv /\ OneClaimant
    /\ \A c \in Calls : CallInv(c)
    /\ NothingSettled
    /\ \E v : Agreed(v)

-----------------------------------------------------------------------------
(* Records *)

LEMMA RecordedRecord ==
    ASSUME NEW record \in Record, record.state = "running", NEW e \in Event
    PROVE  LET next == Recorded(record, e) IN
           /\ next \in Record /\ next # Absent
           /\ next.owner = record.owner /\ next.print = record.print
           /\ next.state = IF e.type \in Closing THEN next.state ELSE "running"
           /\ next.state \in Settled <=> e.type \in Closing
           /\ next.log # <<>> /\ Last(next.log) = e
           /\ WellClosed(next)
<1> DEFINE next == Recorded(record, e)
<1>1. /\ record.log \in Seq(Event) /\ Append(record.log, e) \in Seq(Event)
      /\ Append(record.log, e) # <<>>
      /\ Append(record.log, e)[Len(Append(record.log, e))] = e
  BY DEF Record
<1>2. e.type \in EventTypes
  BY DEF Event
<1> DEFINE log == Append(record.log, e)
           state == CASE e.type = "run.completed" -> "completed"
                      [] e.type = "run.failed"    -> "failed"
                      [] e.type = "run.cancelled" -> "cancelled"
                      [] OTHER                    -> record.state
<1>s. /\ state \in Settled \cup {"running"}
      /\ state \in Settled <=> e.type \in Closing
      /\ e.type \notin Closing => state = "running"
  BY <1>2 DEF Settled, Closing
<1>l. next = [record EXCEPT !.log = log, !.state = state]
  BY DEF Recorded
<1> HIDE DEF next, log, state
<1>3. /\ next.log = log /\ next.state = state
      /\ next.owner = record.owner /\ next.print = record.print
      /\ next = [owner |-> next.owner, print |-> next.print, log |-> next.log,
                 state |-> next.state]
      /\ record.owner \in Calls /\ record.print \in Prints
  BY <1>l DEF Record
<1>4. /\ next.state \in Settled \cup {"running"}
      /\ next.state \in Settled <=> e.type \in Closing
      /\ e.type \notin Closing => next.state = "running"
  BY <1>s, <1>3
<1>5. next \in Record
  BY <1>1, <1>3, <1>4 DEF Record, log
<1>6. next # Absent
  BY <1>4 DEF Absent, Settled
<1>7. Last(next.log) = e
  BY <1>1, <1>3 DEF Last, log
<1> QED
  BY <1>1, <1>3, <1>4, <1>5, <1>6, <1>7 DEF next, log, WellClosed

LEMMA NewRecord ==
    ASSUME NEW c \in Calls, NEW print \in Prints
    PROVE  LET next == NewOperation(c, print) IN
           /\ next \in Record /\ next # Absent /\ next.state = "running"
           /\ next.owner = c /\ next.print = print /\ WellClosed(next)
BY DEF NewOperation, Record, Absent, WellClosed, Settled

LEMMA InterruptedRecord ==
    ASSUME NEW record \in Record, WellClosed(record), record.state = "running"
    PROVE  LET next == Interrupted(record) IN
           /\ next \in Record /\ next # Absent /\ next.state = "uncertain"
           /\ next.owner = record.owner /\ next.print = record.print
           /\ WellClosed(next)
BY DEF Interrupted, Record, Absent, WellClosed, Settled

LEMMA AbsentRecord == WellClosed(Absent) /\ Absent.state \notin Settled /\ Absent.owner = None
BY DEF Absent, WellClosed, Settled

-----------------------------------------------------------------------------
(* Steps *)

\* What the other calls know stands while the record keeps its owner and its
\* request, and while it does not change under one that executes.
LEMMA OthersKnow ==
    ASSUME Inv, NEW b \in Calls, call'[b] = call[b],
           \/ file' = file
           \/ /\ ~Claims(b) /\ file' # Absent
              /\ file # Absent => file'.owner = file.owner /\ file'.print = file.print
    PROVE  CallInv(b)' /\ (Claims(b)' <=> Claims(b)) /\ (Open(b)' <=> Open(b))
<1>1. (Claims(b)' <=> Claims(b)) /\ (Open(b)' <=> Open(b))
  BY DEF Claims, Open
<1>2. CallInv(b)
  BY DEF Inv
<1>3. Open(b) => Claims(b)
  BY DEF Open, Claims, Executing
<1>4. CallInv(b)'
  <2>1. CASE file' = file
    BY <1>1, <1>2, <2>1 DEF CallInv
  <2>2. CASE /\ ~Claims(b) /\ file' # Absent
             /\ file # Absent => file'.owner = file.owner /\ file'.print = file.print
    BY <1>1, <1>2, <1>3, <2>2 DEF CallInv
  <2> QED
    BY <2>1, <2>2
<1> QED
  BY <1>1, <1>4

\* A step of one call that leaves the record alone, and learns nothing but what
\* the record tells.
LEMMA Learns ==
    ASSUME Inv, NEW c \in Calls, NEW k \in CallRecord,
           call' = [call EXCEPT ![c] = k], file' = file,
           alive' \subseteq Drivers, active' \subseteq Drivers, effects' \in Nat,
           k.record \in {call[c].record, file},
           \/ k.answer \notin Settled
           \/ k.answer = call[c].answer
           \/ call[c].record.state \in Settled /\ k.answer = OutcomeOf(call[c].record),
           CallInv(c)', Claims(c)' => Claims(c), Open(c)' => Open(c)
    PROVE  Inv'
<1>1. /\ call'[c] = k /\ \A b \in Calls : b # c => call'[b] = call[b]
      /\ call' \in [Calls -> CallRecord]
  BY DEF Inv, TypeInv
<1>2. TypeInv'
  BY <1>1 DEF Inv, TypeInv, WellClosed
<1>3. \A b \in Calls : b # c =>
          CallInv(b)' /\ (Claims(b)' <=> Claims(b)) /\ (Open(b)' <=> Open(b))
  BY <1>1, OthersKnow
<1>4. OneClaimant'
  BY <1>3 DEF Inv, OneClaimant
<1>5. NothingSettled'
  <2> SUFFICES ASSUME NEW o \in Calls, Open(o)'
               PROVE  \A b \in Calls : /\ call'[b].answer \notin Settled
                                       /\ call'[b].record.state \notin Settled
    BY DEF NothingSettled, Open
  <2>1. Open(o)
    BY <1>3
  <2>2. /\ \A b \in Calls : call[b].answer \notin Settled /\ call[b].record.state \notin Settled
        /\ file.state \notin Settled
    BY <2>1 DEF Inv, NothingSettled, CallInv, Settled
  <2> QED
    BY <1>1, <2>2
<1>6. \E v : Agreed(v)'
  <2>1. PICK v : Agreed(v)
    BY DEF Inv
  <2>2. Agreed(v)'
    BY <1>1, <2>1 DEF Agreed, OutcomeOf
  <2> QED
    BY <2>2
<1> QED
  BY <1>2, <1>3, <1>4, <1>5, <1>6 DEF Inv

\* The fields of a call.
LEMMA CallFields ==
    ASSUME NEW k \in CallRecord
    PROVE  /\ k.at \in Places /\ k.driver \in Drivers \cup {None}
           /\ k.print \in Prints \cup {None} /\ k.record \in Record \cup {Absent}
           /\ k.event \in Event \cup {NoEvent} /\ k.answer \in Answers
           /\ \A at \in Places : [k EXCEPT !.at = at] \in CallRecord
           /\ \A at \in Places, answer \in Answers :
                 [k EXCEPT !.at = at, !.answer = answer] \in CallRecord
           /\ \A at \in Places, event \in Event \cup {NoEvent} :
                 [k EXCEPT !.at = at, !.event = event] \in CallRecord
           /\ \A at \in Places, record \in Record \cup {Absent} :
                 [k EXCEPT !.at = at, !.record = record] \in CallRecord
BY DEF CallRecord

\* What Inv says of one call.
LEMMA KnownCall ==
    ASSUME Inv, NEW c \in Calls
    PROVE  /\ call \in [Calls -> CallRecord] /\ call[c] \in CallRecord
           /\ CallInv(c) /\ WellClosed(call[c].record)
           /\ alive \subseteq Drivers /\ active \subseteq Drivers /\ effects \in Nat
           /\ file \in Record \cup {Absent} /\ WellClosed(file)
BY DEF Inv, TypeInv

LEMMA StreamStep ==
    ASSUME Inv, NEW c \in Calls, NEW d \in Drivers, NEW print \in Prints, Stream(c, d, print)
    PROVE  Inv'
<1> DEFINE k == [call[c] EXCEPT !.at = "claiming", !.driver = d, !.print = print]
<1>1. /\ call' = [call EXCEPT ![c] = k] /\ call[c].at = "new"
      /\ UNCHANGED <<file, alive, active, effects>>
  BY KnownCall DEF Stream
<1>2. /\ k \in CallRecord /\ k.at = "claiming" /\ k.driver = d /\ k.print = print
      /\ k.record = call[c].record /\ k.answer = call[c].answer
  BY KnownCall DEF CallRecord, Places
<1> HIDE DEF k
<1>3. call'[c] = k
  BY <1>1, KnownCall
<1>4. ~Claims(c)' /\ ~Open(c)'
  BY <1>2, <1>3 DEF Claims, Open, Executing
<1>5. CallInv(c)'
  BY <1>1, <1>2, <1>3, <1>4, KnownCall DEF CallInv, Settled
<1> QED
  BY <1>1, <1>2, <1>4, <1>5, KnownCall, Learns

\* A step to a place where the call neither claims the record nor reads it.
LEMMA Turns ==
    ASSUME Inv, NEW c \in Calls, NEW k \in CallRecord, call[c].at # "new",
           call' = [call EXCEPT ![c] = k], UNCHANGED <<file, effects>>,
           alive' \subseteq Drivers, active' \subseteq Drivers,
           k.at \in {"claiming", "linking", "ended"},
           k.driver = call[c].driver, k.print = call[c].print, k.record = call[c].record,
           k.answer \notin Settled \/ k.answer = call[c].answer
    PROVE  Inv'
<1>1. call'[c] = k
  BY KnownCall
<1>2. ~Claims(c)' /\ ~Open(c)'
  BY <1>1 DEF Claims, Open, Executing
<1>3. CallInv(c)'
  BY <1>1, <1>2, KnownCall DEF CallInv
<1> QED
  BY <1>2, <1>3, KnownCall, Learns

LEMMA LoadStep == ASSUME Inv, NEW c \in Calls, Load(c) PROVE Inv'
<1>1. /\ call[c].at = "claiming" /\ UNCHANGED <<file, alive, active, effects>>
      /\ call[c] \in CallRecord /\ call \in [Calls -> CallRecord]
  BY KnownCall DEF Load
<1>2. CASE Moved(c, "linking")
  <2> DEFINE k == [call[c] EXCEPT !.at = "linking"]
  <2>1. call' = [call EXCEPT ![c] = k]
    BY <1>1, <1>2 DEF Moved
  <2>2. k \in CallRecord
    BY <1>1, CallFields DEF Places
  <2>3. /\ k.at = "linking" /\ k.driver = call[c].driver /\ k.print = call[c].print
        /\ k.record = call[c].record /\ k.answer = call[c].answer
    BY <1>1 DEF CallRecord
  <2> HIDE DEF k
  <2> QED
    BY <1>1, <2>1, <2>2, <2>3, KnownCall, Turns
<1>3. CASE Ended(c, "error")
  <2> DEFINE k == [call[c] EXCEPT !.at = "ended", !.answer = "error"]
  <2>1. call' = [call EXCEPT ![c] = k]
    BY <1>1, <1>3 DEF Ended
  <2>2. k \in CallRecord
    BY <1>1, CallFields DEF Places, Answers
  <2>3. /\ k.at = "ended" /\ k.driver = call[c].driver /\ k.print = call[c].print
        /\ k.record = call[c].record /\ k.answer \notin Settled
    BY <1>1 DEF CallRecord, Settled
  <2> HIDE DEF k
  <2> QED
    BY <1>1, <2>1, <2>2, <2>3, KnownCall, Turns
<1>4. CASE file # Absent /\ call' = [call EXCEPT ![c].at = "found", ![c].record = file]
  <2> DEFINE k == [call[c] EXCEPT !.at = "found", !.record = file]
  <2>1. call' = [call EXCEPT ![c] = k]
    BY <1>1, <1>4
  <2>2. k \in CallRecord
    BY <1>1, KnownCall, CallFields DEF Places
  <2>3. /\ k.at = "found" /\ k.driver = call[c].driver /\ k.print = call[c].print
        /\ k.record = file /\ k.answer = call[c].answer
    BY <1>1 DEF CallRecord
  <2> HIDE DEF k
  <2>4. call'[c] = k
    BY <1>1, <2>1
  <2>5. ~Claims(c)' /\ ~Open(c)'
    BY <2>3, <2>4 DEF Claims, Open, Executing
  <2>6. CallInv(c)'
    BY <1>1, <1>4, <2>3, <2>4, <2>5, KnownCall DEF CallInv
  <2> QED
    BY <1>1, <2>1, <2>2, <2>3, <2>5, <2>6, KnownCall, Learns
<1> QED
  BY <1>2, <1>3, <1>4 DEF Load

\* A step that replaces the record: its owner's, or the first claim.
LEMMA Writes ==
    ASSUME Inv, NEW c \in Calls, NEW k \in CallRecord, NEW next \in Record,
           call' = [call EXCEPT ![c] = k], file' = next,
           alive' \subseteq Drivers, active' \subseteq Drivers, effects' \in Nat,
           WellClosed(next), next.owner = c,
           file # Absent => Claims(c) /\ next.print = file.print,
           k.record \in {call[c].record, next},
           \/ k.answer \notin Settled
           \/ k.answer = call[c].answer
           \/ next.state \in Settled /\ k.answer = OutcomeOf(next),
           CallInv(c)',
           next.state \in Settled => Open(c),
           Open(c)' => next.state \notin Settled /\ (Open(c) \/ file = Absent)
    PROVE  Inv'
<1>1. /\ call'[c] = k /\ \A b \in Calls : b # c => call'[b] = call[b]
      /\ call' \in [Calls -> CallRecord] /\ next # Absent
  BY KnownCall, OperationsAssumption DEF Record, Absent
<1>2. TypeInv'
  BY <1>1 DEF Inv, TypeInv, WellClosed
<1>3. \A b \in Calls : b # c => ~Claims(b)
  <2>1. CASE file = Absent
    BY <2>1, AbsentRecord, OperationsAssumption DEF Inv, OneClaimant
  <2>2. CASE file # Absent
    BY <2>2 DEF Inv, OneClaimant
  <2> QED
    BY <2>1, <2>2
<1>4. file # Absent => next.owner = file.owner /\ next.print = file.print
  BY DEF Inv, OneClaimant
<1>5. ASSUME NEW b \in Calls, b # c PROVE CallInv(b)' /\ ~Claims(b)' /\ ~Open(b)'
  <2>1. ~Claims(b) /\ call'[b] = call[b]
    BY <1>1, <1>3, <1>5
  <2>2. CallInv(b)' /\ (Claims(b)' <=> Claims(b)) /\ (Open(b)' <=> Open(b))
    BY <1>1, <1>4, <2>1, OthersKnow
  <2>3. ~Open(b)
    BY <2>1 DEF Open, Claims, Executing
  <2> QED
    BY <2>1, <2>2, <2>3
<1>6. OneClaimant'
  BY <1>5 DEF OneClaimant
<1>7. Open(c) \/ file = Absent =>
         \A b \in Calls : call[b].answer \notin Settled /\ call[b].record.state \notin Settled
  <2>1. CASE Open(c)
    BY <2>1 DEF Inv, NothingSettled
  <2>2. CASE file = Absent
    BY <2>2, AbsentRecord, KnownCall DEF CallInv
  <2> QED
    BY <2>1, <2>2
<1>8. NothingSettled'
  <2> SUFFICES ASSUME NEW o \in Calls, Open(o)'
               PROVE  \A b \in Calls : /\ call'[b].answer \notin Settled
                                       /\ call'[b].record.state \notin Settled
    BY DEF NothingSettled, Open
  <2>1. Open(c)'
    BY <1>5
  <2> QED
    BY <1>1, <1>7, <2>1
<1>9. \E v : Agreed(v)'
  <2>1. CASE next.state \in Settled
    <3>1. Agreed(OutcomeOf(next))'
      BY <1>1, <1>7, <2>1 DEF Agreed, OutcomeOf
    <3> QED
      BY <3>1
  <2>2. CASE next.state \notin Settled
    <3>1. PICK v : Agreed(v)
      BY DEF Inv
    <3>2. Agreed(v)'
      BY <1>1, <2>2, <3>1 DEF Agreed, OutcomeOf
    <3> QED
      BY <3>2
  <2> QED
    BY <2>1, <2>2
<1> QED
  BY <1>2, <1>5, <1>6, <1>8, <1>9 DEF Inv

LEMMA LinkStep == ASSUME Inv, NEW c \in Calls, Link(c) PROVE Inv'
<1>1. /\ call[c].at = "linking" /\ UNCHANGED <<alive, active, effects>>
      /\ call[c] \in CallRecord /\ call \in [Calls -> CallRecord]
  BY KnownCall DEF Link
<1>2. CASE Moved(c, "claiming") /\ UNCHANGED file
  <2> DEFINE k == [call[c] EXCEPT !.at = "claiming"]
  <2>1. call' = [call EXCEPT ![c] = k]
    BY <1>1, <1>2 DEF Moved
  <2>2. k \in CallRecord
    BY <1>1, CallFields DEF Places
  <2>3. /\ k.at = "claiming" /\ k.driver = call[c].driver /\ k.print = call[c].print
        /\ k.record = call[c].record /\ k.answer = call[c].answer
    BY <1>1 DEF CallRecord
  <2> HIDE DEF k
  <2> QED
    BY <1>1, <1>2, <2>1, <2>2, <2>3, KnownCall, Turns
<1>3. CASE Ended(c, "error") /\ UNCHANGED file
  <2> DEFINE k == [call[c] EXCEPT !.at = "ended", !.answer = "error"]
  <2>1. call' = [call EXCEPT ![c] = k]
    BY <1>1, <1>3 DEF Ended
  <2>2. k \in CallRecord
    BY <1>1, CallFields DEF Places, Answers
  <2>3. /\ k.at = "ended" /\ k.driver = call[c].driver /\ k.print = call[c].print
        /\ k.record = call[c].record /\ k.answer \notin Settled
    BY <1>1 DEF CallRecord, Settled
  <2> HIDE DEF k
  <2> QED
    BY <1>1, <1>3, <2>1, <2>2, <2>3, KnownCall, Turns
<1>4. CASE /\ file = Absent /\ file' = NewOperation(c, call[c].print)
           /\ call' = [call EXCEPT ![c].at = "syncing",
                                   ![c].record = NewOperation(c, call[c].print)]
  <2> DEFINE next == NewOperation(c, call[c].print)
             k == [call[c] EXCEPT !.at = "syncing", !.record = next]
  <2>1. call' = [call EXCEPT ![c] = k] /\ file' = next /\ file = Absent
    BY <1>1, <1>4
  <2>p. call[c].print \in Prints /\ call[c].driver \in Drivers
    BY <1>1, KnownCall DEF CallInv
  <2>n. /\ next \in Record /\ next # Absent /\ next.state = "running"
        /\ next.owner = c /\ next.print = call[c].print /\ WellClosed(next)
    BY <2>p, NewRecord
  <2> HIDE DEF next
  <2>2. k \in CallRecord
    BY <1>1, <2>n, CallFields DEF Places
  <2>3. /\ k.at = "syncing" /\ k.driver = call[c].driver /\ k.print = call[c].print
        /\ k.record = next /\ k.answer = call[c].answer
    BY <1>1 DEF CallRecord
  <2> HIDE DEF k
  <2>4. call'[c] = k
    BY <1>1, <2>1
  <2>5. k.answer \notin Settled
    BY <2>1, <2>3, KnownCall DEF CallInv
  <2>6. CallInv(c)'
    BY <2>1, <2>p, <2>n, <2>3, <2>4, <2>5 DEF CallInv
  <2> QED
    BY <1>1, <2>1, <2>2, <2>3, <2>n, <2>5, <2>6, KnownCall, Writes DEF Settled
<1> QED
  BY <1>2, <1>3, <1>4 DEF Link

\* A step of the run that leaves the record alone.
LEMMA Proceeds ==
    ASSUME Inv, NEW c \in Calls, NEW k \in CallRecord, Claims(c),
           call' = [call EXCEPT ![c] = k], UNCHANGED file,
           alive' \subseteq Drivers, active' \subseteq Drivers, effects' \in Nat,
           k.at \notin {"new", "found", "reauthorizing"},
           k.driver = call[c].driver, k.print = call[c].print, k.record = call[c].record,
           k.answer \notin Settled \/ k.answer = call[c].answer,
           k.at \in {"yielded", "handed"} => k.event \in Event,
           Open(c)' => Open(c)
    PROVE  Inv'
<1>1. call'[c] = k
  BY KnownCall
<1>2. call[c].at # "new"
  BY DEF Claims, Executing
<1>3. CallInv(c)'
  BY <1>1, <1>2, KnownCall DEF CallInv
<1> QED
  BY <1>3, KnownCall, Learns

LEMMA SyncStep == ASSUME Inv, NEW c \in Calls, Sync(c) PROVE Inv'
<1>1. /\ call[c].at = "syncing" /\ UNCHANGED <<file, alive, effects>>
      /\ call[c] \in CallRecord /\ call \in [Calls -> CallRecord]
      /\ Claims(c) /\ Open(c) /\ call[c].driver \in Drivers
  BY KnownCall DEF Sync, Claims, Open, CallInv
<1>2. active' \subseteq Drivers
  BY <1>1, KnownCall DEF Sync
<1>3. CASE Ended(c, "error")
  <2> DEFINE k == [call[c] EXCEPT !.at = "ended", !.answer = "error"]
  <2>1. call' = [call EXCEPT ![c] = k]
    BY <1>1, <1>3 DEF Ended
  <2>2. k \in CallRecord
    BY <1>1, CallFields DEF Places, Answers
  <2>3. /\ k.at = "ended" /\ k.driver = call[c].driver /\ k.print = call[c].print
        /\ k.record = call[c].record /\ k.answer \notin Settled
    BY <1>1 DEF CallRecord, Settled
  <2> HIDE DEF k
  <2> QED
    BY <1>1, <1>2, <2>1, <2>2, <2>3, KnownCall, Turns
<1>4. CASE call' = [call EXCEPT ![c].at = "finishing", ![c].answer = "refused"]
  <2> DEFINE k == [call[c] EXCEPT !.at = "finishing", !.answer = "refused"]
  <2>1. call' = [call EXCEPT ![c] = k]
    BY <1>1, <1>4
  <2>2. k \in CallRecord
    BY <1>1, CallFields DEF Places, Executing, Answers
  <2>3. /\ k.at = "finishing" /\ k.driver = call[c].driver /\ k.print = call[c].print
        /\ k.record = call[c].record /\ k.answer \notin Settled
    BY <1>1 DEF CallRecord, Settled
  <2> HIDE DEF k
  <2> QED
    BY <1>1, <1>2, <2>1, <2>2, <2>3, KnownCall, Proceeds
<1>5. CASE call' = [call EXCEPT ![c].at = "yielded",
                        ![c].event = [type |-> "run.started", uncertain |-> FALSE]]
  <2> DEFINE e == [type |-> "run.started", uncertain |-> FALSE]
             k == [call[c] EXCEPT !.at = "yielded", !.event = e]
  <2>e. e \in Event
    BY DEF Event, EventTypes
  <2>1. call' = [call EXCEPT ![c] = k]
    BY <1>1, <1>5
  <2> HIDE DEF e
  <2>2. k \in CallRecord
    BY <1>1, <2>e, CallFields DEF Places, Executing
  <2>3. /\ k.at = "yielded" /\ k.driver = call[c].driver /\ k.print = call[c].print
        /\ k.record = call[c].record /\ k.answer = call[c].answer /\ k.event = e
    BY <1>1 DEF CallRecord
  <2> HIDE DEF k
  <2> QED
    BY <1>1, <1>2, <2>e, <2>1, <2>2, <2>3, KnownCall, Proceeds
<1> QED
  BY <1>3, <1>4, <1>5 DEF Sync

LEMMA AnswerStep == ASSUME Inv, NEW c \in Calls, Answer(c) PROVE Inv'
<1>1. /\ call[c].at = "found" /\ UNCHANGED <<file, alive, active, effects>>
      /\ call[c] \in CallRecord /\ call \in [Calls -> CallRecord]
      /\ call[c].record # Absent
  BY KnownCall DEF Answer, CallInv
<1>2. ASSUME NEW answer \in {"conflict", "withheld", "in_progress"}, Ended(c, answer)
      PROVE  Inv'
  <2> DEFINE k == [call[c] EXCEPT !.at = "ended", !.answer = answer]
  <2>1. call' = [call EXCEPT ![c] = k]
    BY <1>1, <1>2 DEF Ended
  <2>2. k \in CallRecord
    BY <1>1, CallFields DEF Places, Answers
  <2>3. /\ k.at = "ended" /\ k.driver = call[c].driver /\ k.print = call[c].print
        /\ k.record = call[c].record /\ k.answer \notin Settled
    BY <1>1 DEF CallRecord, Settled
  <2> HIDE DEF k
  <2> QED
    BY <1>1, <2>1, <2>2, <2>3, KnownCall, Turns
<1>3. CASE Moved(c, "reauthorizing") /\ call[c].record.print = call[c].print
  <2> DEFINE k == [call[c] EXCEPT !.at = "reauthorizing"]
  <2>1. call' = [call EXCEPT ![c] = k]
    BY <1>1, <1>3 DEF Moved
  <2>2. k \in CallRecord
    BY <1>1, CallFields DEF Places
  <2>3. /\ k.at = "reauthorizing" /\ k.driver = call[c].driver /\ k.print = call[c].print
        /\ k.record = call[c].record /\ k.answer = call[c].answer
    BY <1>1 DEF CallRecord
  <2> HIDE DEF k
  <2>4. call'[c] = k
    BY <1>1, <2>1
  <2>5. ~Claims(c)' /\ ~Open(c)'
    BY <2>3, <2>4 DEF Claims, Open, Executing
  <2>6. CallInv(c)'
    BY <1>1, <1>3, <2>3, <2>4, <2>5, KnownCall DEF CallInv
  <2> QED
    BY <1>1, <2>1, <2>2, <2>3, <2>5, <2>6, KnownCall, Learns
<1> QED
  BY <1>2, <1>3 DEF Answer

LEMMA ReauthorizeStep == ASSUME Inv, NEW c \in Calls, Reauthorize(c) PROVE Inv'
<1> DEFINE record == call[c].record
<1>1. PICK answer \in {"withheld", Replayed(record)} : Ended(c, answer)
  BY DEF Reauthorize
<1> DEFINE k == [call[c] EXCEPT !.at = "ended", !.answer = answer]
<1>2. /\ call[c].at = "reauthorizing" /\ UNCHANGED <<file, alive, active, effects>>
      /\ call[c] \in CallRecord /\ call \in [Calls -> CallRecord]
      /\ call' = [call EXCEPT ![c] = k]
      /\ record \in Record /\ WellClosed(record) /\ record.print = file.print
      /\ file # Absent /\ record.print = call[c].print
  BY <1>1, KnownCall, CallFields DEF Reauthorize, Ended, CallInv
<1>3. record.state \in Settled => OutcomeOf(record) \in Settled \cup {"uncertain"}
  <2> SUFFICES ASSUME record.state \in Settled
               PROVE  OutcomeOf(record) \in Settled \cup {"uncertain"}
    OBVIOUS
  <2>1. Last(record.log).type \in Closing
    BY <1>2 DEF WellClosed
  <2> QED
    BY <2>1 DEF OutcomeOf, Said, Closing, Settled
<1>4. /\ answer \in Answers
      /\ answer \in Settled => record.state \in Settled /\ answer = OutcomeOf(record)
  BY <1>1, <1>3 DEF Answers, Replayed, OutcomeOf, Settled
<1> HIDE DEF record
<1>5. k \in CallRecord
  BY <1>2, <1>4, CallFields DEF Places
<1>6. /\ k.at = "ended" /\ k.driver = call[c].driver /\ k.print = call[c].print
      /\ k.record = call[c].record /\ k.answer = answer
  BY <1>2 DEF CallRecord
<1> HIDE DEF k
<1>7. call'[c] = k
  BY <1>2
<1>8. ~Claims(c)' /\ ~Open(c)'
  BY <1>6, <1>7 DEF Claims, Open, Executing
<1>9. CallInv(c)'
  BY <1>2, <1>4, <1>6, <1>7, <1>8, KnownCall DEF CallInv, record
<1> QED
  BY <1>2, <1>4, <1>5, <1>6, <1>8, <1>9, KnownCall, Learns DEF record

LEMMA GenerateStep == ASSUME Inv, NEW c \in Calls, Generate(c) PROVE Inv'
<1>1. /\ call[c].at \in {"generating", "called", "acting"}
      /\ UNCHANGED <<file, alive, active, effects>>
      /\ call[c] \in CallRecord /\ call \in [Calls -> CallRecord]
      /\ Claims(c) /\ Open(c)
  BY KnownCall DEF Generate, Claims, Open, Executing
<1>2. PICK type \in EventTypes, uncertain \in BOOLEAN : Yielding(c, type, uncertain)
  BY DEF Generate, EventTypes, Closing
<1> DEFINE e == [type |-> type, uncertain |-> uncertain]
           k == [call[c] EXCEPT !.at = "yielded", !.event = e]
<1>e. e \in Event
  BY DEF Event
<1>3. call' = [call EXCEPT ![c] = k]
  BY <1>1, <1>2 DEF Yielding
<1> HIDE DEF e
<1>4. k \in CallRecord
  BY <1>1, <1>e, CallFields DEF Places, Executing
<1>5. /\ k.at = "yielded" /\ k.driver = call[c].driver /\ k.print = call[c].print
      /\ k.record = call[c].record /\ k.answer = call[c].answer /\ k.event = e
  BY <1>1 DEF CallRecord
<1> HIDE DEF k
<1> QED
  BY <1>1, <1>e, <1>3, <1>4, <1>5, KnownCall, Proceeds

LEMMA ActStep == ASSUME Inv, NEW c \in Calls, Act(c) PROVE Inv'
<1> DEFINE k == [call[c] EXCEPT !.at = "acting"]
<1>1. /\ call[c].at = "called" /\ UNCHANGED <<file, alive, active>>
      /\ call[c] \in CallRecord /\ call \in [Calls -> CallRecord]
      /\ Claims(c) /\ Open(c) /\ call' = [call EXCEPT ![c] = k]
      /\ effects' \in Nat
  BY KnownCall DEF Act, Moved, Claims, Open, Executing
<1>2. k \in CallRecord
  BY <1>1, CallFields DEF Places, Executing
<1>3. /\ k.at = "acting" /\ k.driver = call[c].driver /\ k.print = call[c].print
      /\ k.record = call[c].record /\ k.answer = call[c].answer
  BY <1>1 DEF CallRecord
<1> HIDE DEF k
<1> QED
  BY <1>1, <1>2, <1>3, KnownCall, Proceeds

LEMMA ConsumeStep == ASSUME Inv, NEW c \in Calls, Consume(c) PROVE Inv'
<1> DEFINE type == call[c].event.type
<1>1. /\ call[c].at = "handed" /\ UNCHANGED <<file, alive, active, effects>>
      /\ call[c] \in CallRecord /\ call \in [Calls -> CallRecord]
      /\ Claims(c)
  BY KnownCall DEF Consume, Claims, Executing
<1>2. CASE call' = [call EXCEPT
                 ![c].at = IF type \in Closing THEN "finishing"
                           ELSE IF type = "tool.called" THEN "called" ELSE "generating",
                 ![c].event = NoEvent]
  <2> DEFINE at == IF type \in Closing THEN "finishing"
                   ELSE IF type = "tool.called" THEN "called" ELSE "generating"
             k == [call[c] EXCEPT !.at = at, !.event = NoEvent]
  <2>1. call' = [call EXCEPT ![c] = k]
    BY <1>1, <1>2
  <2>a. /\ at \in {"finishing", "called", "generating"}
        /\ at # "finishing" => Open(c)
    BY <1>1 DEF Open
  <2> HIDE DEF at
  <2>2. k \in CallRecord
    BY <1>1, <2>a, CallFields DEF Places, Executing
  <2>3. /\ k.at = at /\ k.driver = call[c].driver /\ k.print = call[c].print
        /\ k.record = call[c].record /\ k.answer = call[c].answer
    BY <1>1 DEF CallRecord
  <2> HIDE DEF k
  <2>4. Open(c)' => Open(c)
    BY <1>1, <2>1, <2>3, <2>a DEF Open
  <2> QED
    BY <1>1, <2>a, <2>1, <2>2, <2>3, <2>4, KnownCall, Proceeds
<1>3. CASE call' = [call EXCEPT ![c].at = "finishing", ![c].event = NoEvent,
                                ![c].answer = "closed"]
  <2> DEFINE k == [call[c] EXCEPT !.at = "finishing", !.event = NoEvent, !.answer = "closed"]
  <2>1. call' = [call EXCEPT ![c] = k]
    BY <1>1, <1>3
  <2>2. /\ k \in CallRecord /\ k.at = "finishing" /\ k.driver = call[c].driver
        /\ k.print = call[c].print /\ k.record = call[c].record /\ k.answer \notin Settled
    BY <1>1 DEF CallRecord, Places, Executing, Answers, Settled
  <2> HIDE DEF k
  <2>3. ~Open(c)'
    BY <1>1, <2>1, <2>2 DEF Open
  <2> QED
    BY <1>1, <2>1, <2>2, <2>3, KnownCall, Proceeds
<1> QED
  BY <1>2, <1>3 DEF Consume

LEMMA SaveStep == ASSUME Inv, NEW c \in Calls, Save(c) PROVE Inv'
<1> DEFINE e == call[c].event
           record == call[c].record
           next == Recorded(record, e)
<1>1. /\ call[c].at = "yielded" /\ UNCHANGED <<alive, active, effects>>
      /\ call[c] \in CallRecord /\ call \in [Calls -> CallRecord]
      /\ Claims(c) /\ Open(c) /\ call[c].driver \in Drivers /\ call[c].print \in Prints
      /\ record = file /\ record # Absent /\ record.state = "running"
      /\ record.owner = c /\ record.print = call[c].print
      /\ e \in Event /\ file \in Record /\ file # Absent
      /\ alive \subseteq Drivers /\ active \subseteq Drivers /\ effects \in Nat
  BY KnownCall DEF Save, Claims, Open, Executing, CallInv
<1>2. /\ next \in Record /\ next # Absent
      /\ next.owner = record.owner /\ next.print = record.print
      /\ next.state = IF e.type \in Closing THEN next.state ELSE "running"
      /\ next.state \in Settled <=> e.type \in Closing
      /\ next.log # <<>> /\ Last(next.log) = e
      /\ WellClosed(next)
  BY <1>1, RecordedRecord
<1>a. call[c].answer \in Answers
  BY <1>1 DEF CallRecord
<1>3. \/ /\ file' = next
         /\ call' = [call EXCEPT
               ![c].at = "handed", ![c].record = next,
               ![c].answer = IF e.type \in Closing THEN Said(e) ELSE @]
      \/ /\ file' = next \/ file' = file
         /\ call' = [call EXCEPT ![c].at = "finishing", ![c].answer = "uncertain"]
  BY DEF Save
<1>u. call[c].answer \notin Settled
  BY <1>1 DEF Inv, NothingSettled
<1> HIDE DEF next
<1>4. CASE /\ file' = next
           /\ call' = [call EXCEPT
                 ![c].at = "handed", ![c].record = next,
                 ![c].answer = IF e.type \in Closing THEN Said(e) ELSE @]
  <2> DEFINE answer == IF e.type \in Closing THEN Said(e) ELSE call[c].answer
             k == [call[c] EXCEPT !.at = "handed", !.record = next, !.answer = answer]
  <2>1. call' = [call EXCEPT ![c] = k]
    BY <1>1, <1>4
  <2>a. /\ answer \in Answers
        /\ answer \in Settled => next.state \in Settled /\ answer = OutcomeOf(next)
    BY <1>2, <1>a, <1>u DEF Said, OutcomeOf, Answers, Settled, Closing
  <2> HIDE DEF answer
  <2>2. /\ k \in CallRecord /\ k.at = "handed" /\ k.driver = call[c].driver
        /\ k.print = call[c].print /\ k.record = next /\ k.answer = answer
        /\ k.event = e
    BY <1>1, <1>2, <2>a DEF CallRecord, Places, Executing
  <2> HIDE DEF k
  <2>3. call'[c] = k
    BY <1>1, <2>1
  <2>4. Open(c)' => e.type \notin Closing
    BY <2>2, <2>3 DEF Open
  <2>5. CallInv(c)'
    <3>1. Open(c)' => next.state = "running"
      BY <1>2, <2>4
    <3> HIDE DEF e, record
    <3> QED
      BY <1>1, <1>2, <1>4, <2>2, <2>3, <3>1 DEF CallInv, e, record
  <2>6. Open(c)' => next.state \notin Settled
    BY <1>2, <2>4
  <2>7. /\ next \in Record /\ next.owner = c /\ next.print = file.print
        /\ file' = next /\ WellClosed(next) /\ Claims(c) /\ Open(c)
        /\ alive' \subseteq Drivers /\ active' \subseteq Drivers /\ effects' \in Nat
        /\ k \in CallRecord /\ k.record = next
    BY <1>1, <1>2, <1>4, <2>2
  <2>8. \/ k.answer \notin Settled
        \/ next.state \in Settled /\ k.answer = OutcomeOf(next)
    BY <2>a, <2>2
  <2> HIDE DEF e, record
  <2> QED
    BY <2>1, <2>5, <2>6, <2>7, <2>8, Writes
<1>5. CASE /\ file' = next \/ file' = file
           /\ call' = [call EXCEPT ![c].at = "finishing", ![c].answer = "uncertain"]
  <2> DEFINE k == [call[c] EXCEPT !.at = "finishing", !.answer = "uncertain"]
  <2>1. call' = [call EXCEPT ![c] = k]
    BY <1>1, <1>5
  <2>2. k \in CallRecord
    BY <1>1, CallFields DEF Places, Executing, Answers
  <2>3. /\ k.at = "finishing" /\ k.driver = call[c].driver
        /\ k.print = call[c].print /\ k.record = record /\ k.answer \notin Settled
    BY <1>1 DEF CallRecord, Settled
  <2> HIDE DEF k
  <2>4. call'[c] = k
    BY <1>1, <2>1
  <2>5. ~Open(c)'
    BY <2>3, <2>4 DEF Open
  <2>6. CASE file' = file
    BY <1>1, <2>1, <2>2, <2>3, <2>5, <2>6, Proceeds
  <2>7. CASE file' = next
    <3>1. CallInv(c)'
      <4> HIDE DEF record, e
      <4> QED
        BY <1>1, <1>2, <2>3, <2>4, <2>5, <2>7 DEF CallInv
    <3> QED
      BY <1>1, <1>2, <2>1, <2>2, <2>3, <2>5, <2>7, <3>1, Writes
  <2> QED
    BY <1>5, <2>6, <2>7
<1> QED
  BY <1>3, <1>4, <1>5

LEMMA FinishStep == ASSUME Inv, NEW c \in Calls, Finish(c) PROVE Inv'
<1> DEFINE k == [call[c] EXCEPT !.at = "ended"]
           record == call[c].record
           next == Interrupted(record)
<1>1. /\ call[c].at = "finishing" /\ UNCHANGED <<alive, effects>>
      /\ call[c] \in CallRecord /\ call \in [Calls -> CallRecord]
      /\ Claims(c) /\ call[c].driver \in Drivers /\ call[c].print \in Prints
      /\ record # Absent /\ record \in Record /\ WellClosed(record) /\ file # Absent
      /\ record.owner = c /\ record.print = file.print /\ record.print = call[c].print
      /\ alive \subseteq Drivers /\ active' \subseteq Drivers /\ effects \in Nat
      /\ call' = [call EXCEPT ![c] = k]
  BY KnownCall, CallFields DEF Finish, Moved, Claims, Executing, CallInv
<1>2. k \in CallRecord
  BY <1>1, CallFields DEF Places
<1>3. /\ k.at = "ended" /\ k.driver = call[c].driver /\ k.print = call[c].print
      /\ k.record = record /\ k.answer = call[c].answer
  BY <1>1 DEF CallRecord
<1> HIDE DEF k
<1>4. call'[c] = k
  BY <1>1
<1>5. ~Open(c)' /\ ~Claims(c)'
  BY <1>3, <1>4 DEF Open, Claims, Executing
<1>6. CASE UNCHANGED file
  BY <1>1, <1>2, <1>3, <1>6, KnownCall, Turns
<1>7. CASE record.state = "running" /\ file' = next
  <2>1. /\ next \in Record /\ next # Absent /\ next.state = "uncertain"
        /\ next.owner = record.owner /\ next.print = record.print
        /\ WellClosed(next)
    BY <1>1, <1>7, InterruptedRecord
  <2>2. next.state \notin Settled
    BY <2>1 DEF Settled
  <2> HIDE DEF next, record
  <2>3. CallInv(c)'
    BY <1>1, <1>3, <1>4, <1>5, <1>7, <2>1, KnownCall DEF CallInv
  <2> QED
    BY <1>1, <1>2, <1>3, <1>5, <1>7, <2>1, <2>2, <2>3, Writes DEF record
<1> QED
  BY <1>6, <1>7 DEF Finish

LEMMA CrashStep == ASSUME Inv, NEW d \in Drivers, Crash(d) PROVE Inv'
<1>1. /\ alive' \subseteq Drivers /\ active' \subseteq Drivers
      /\ UNCHANGED <<file, effects>> /\ call \in [Calls -> CallRecord]
  BY DEF Crash, Inv, TypeInv
<1>2. ASSUME NEW c \in Calls
      PROVE  /\ call'[c] \in CallRecord
             /\ call'[c].driver = call[c].driver /\ call'[c].print = call[c].print
             /\ call'[c].record = call[c].record
             /\ \/ call'[c] = call[c]
                \/ /\ call'[c].at = "ended" /\ call'[c].answer = "lost"
                   /\ call[c].driver = d
  <2>1. call[c] \in CallRecord
    BY KnownCall
  <2>2. CASE call[c].driver = d /\ call[c].at # "ended"
    <3>1. call'[c] = [call[c] EXCEPT !.at = "ended", !.answer = "lost"]
      BY <2>2 DEF Crash
    <3> QED
      BY <2>1, <2>2, <3>1 DEF CallRecord, Places, Answers
  <2>3. CASE ~(call[c].driver = d /\ call[c].at # "ended")
    <3>1. call'[c] = call[c]
      BY <2>3 DEF Crash
    <3> QED
      BY <2>1, <3>1
  <2> QED
    BY <2>2, <2>3
<1>3. call' \in [Calls -> CallRecord]
  <2> DEFINE after == [c \in Calls |->
                         IF call[c].driver = d /\ call[c].at # "ended"
                         THEN [call[c] EXCEPT !.at = "ended", !.answer = "lost"]
                         ELSE call[c]]
  <2>1. call' = after
    BY DEF Crash
  <2>2. \A c \in Calls : after[c] \in CallRecord
    BY <1>2, <2>1
  <2>3. after \in [Calls -> CallRecord]
    BY <2>2
  <2> QED
    BY <2>1, <2>3
<1>4. TypeInv'
  BY <1>1, <1>2, <1>3 DEF Inv, TypeInv, WellClosed
<1>5. ASSUME NEW c \in Calls
      PROVE  /\ CallInv(c)' /\ (Claims(c)' => Claims(c)) /\ (Open(c)' => Open(c))
             /\ call'[c].answer \in Settled => call'[c].answer = call[c].answer
  <2>1. CASE call'[c] = call[c]
    BY <1>1, <2>1, OthersKnow
  <2>2. CASE /\ call'[c].at = "ended" /\ call'[c].answer = "lost"
             /\ call[c].driver = d
    <3>1. ~Claims(c)' /\ ~Open(c)'
      BY <2>2 DEF Claims, Open, Executing
    <3>2. call'[c].answer \notin Settled
      BY <2>2 DEF Settled
    <3>3. call[c].at # "new" => call[c].driver \in Drivers /\ call[c].print \in Prints
      BY KnownCall DEF CallInv
    <3>4. call[c].print \in Prints
      BY <2>2, KnownCall, OperationsAssumption DEF CallInv
    <3> QED
      BY <1>1, <1>2, <2>2, <3>1, <3>2, <3>3, <3>4, KnownCall DEF CallInv
  <2> QED
    BY <1>2, <2>1, <2>2
<1>6. OneClaimant'
  BY <1>1, <1>5 DEF Inv, OneClaimant
<1>7. NothingSettled'
  <2> SUFFICES ASSUME NEW o \in Calls, Open(o)'
               PROVE  \A b \in Calls : /\ call'[b].answer \notin Settled
                                       /\ call'[b].record.state \notin Settled
    BY DEF NothingSettled, Open
  <2>1. Open(o)
    BY <1>5
  <2> QED
    BY <1>2, <1>5, <2>1 DEF Inv, NothingSettled
<1>8. \E v : Agreed(v)'
  <2>1. PICK v : Agreed(v)
    BY DEF Inv
  <2>2. Agreed(v)'
    BY <1>1, <1>2, <1>5, <2>1 DEF Agreed, OutcomeOf
  <2> QED
    BY <2>2
<1> QED
  BY <1>4, <1>5, <1>6, <1>7, <1>8 DEF Inv

\* Nothing that Inv speaks of changes.
LEMMA Idles ==
    ASSUME Inv, UNCHANGED <<file, call, effects>>,
           alive' \subseteq Drivers, active' \subseteq Drivers
    PROVE  Inv'
<1>1. TypeInv'
  BY DEF Inv, TypeInv, WellClosed
<1>2. \A c \in Calls : CallInv(c)' /\ (Claims(c)' <=> Claims(c)) /\ (Open(c)' <=> Open(c))
  BY OthersKnow
<1>3. OneClaimant' /\ NothingSettled'
  BY <1>2 DEF Inv, OneClaimant, NothingSettled
<1>4. \E v : Agreed(v)'
  BY DEF Inv, Agreed, OutcomeOf
<1> QED
  BY <1>1, <1>2, <1>3, <1>4 DEF Inv

LEMMA InvStep == ASSUME Inv, [Next]_vars PROVE Inv'
<1>1. ASSUME NEW d \in Drivers, Restart(d) PROVE Inv'
  <2>1. /\ UNCHANGED <<file, call, effects>>
        /\ alive' \subseteq Drivers /\ active' \subseteq Drivers
    BY <1>1 DEF Restart, Inv, TypeInv
  <2> QED
    BY <2>1, Idles
<1>2. ASSUME UNCHANGED vars PROVE Inv'
  <2>1. /\ UNCHANGED <<file, call, effects>>
        /\ alive' \subseteq Drivers /\ active' \subseteq Drivers
    BY <1>2 DEF vars, Inv, TypeInv
  <2> QED
    BY <2>1, Idles
<1> QED
  BY <1>1, <1>2, StreamStep, LoadStep, LinkStep, SyncStep, AnswerStep, ReauthorizeStep,
     GenerateStep, ActStep, SaveStep, ConsumeStep, FinishStep, CrashStep DEF Next

LEMMA InvInit == Init => Inv
<1> SUFFICES ASSUME Init PROVE Inv
  OBVIOUS
<1>1. /\ file = Absent /\ alive = Drivers /\ active = {} /\ effects = 0
      /\ call = [c \in Calls |-> Fresh]
  BY DEF Init
<1>2. Fresh \in CallRecord
  BY DEF Fresh, CallRecord, Places, Answers
<1>3. /\ Fresh.at = "new" /\ Fresh.record = Absent /\ Fresh.answer = "none"
      /\ Fresh.driver = None
  BY DEF Fresh
<1>4. TypeInv
  BY <1>1, <1>2, <1>3, AbsentRecord DEF TypeInv
<1>5. \A c \in Calls : ~Claims(c) /\ ~Open(c)
  BY <1>1, <1>3 DEF Claims, Open, Executing
<1>6. \A c \in Calls : CallInv(c)
  BY <1>1, <1>3, <1>5 DEF CallInv, Settled
<1>7. OneClaimant /\ NothingSettled
  BY <1>5 DEF OneClaimant, NothingSettled
<1>8. Agreed("none")
  BY <1>1, <1>3, AbsentRecord DEF Agreed, Settled
<1> QED
  BY <1>4, <1>6, <1>7, <1>8 DEF Inv

LEMMA InvHolds == Spec => []Inv
BY InvInit, InvStep, PTL DEF Spec

\* Every reachable state is well typed, and the record's state is what its log
\* says (append, interrupt).
THEOREM TypeCorrect == Spec => []TypeOK
<1>1. Inv => TypeOK
  BY DEF Inv, TypeInv, TypeOK, WellClosed, CallRecord
<1> QED
  BY <1>1, InvHolds, PTL

\* Of all calls in all processes, before and after crashes, only the record's
\* owner executes (claim).
THEOREM OneClaimantHolds == Spec => []OneClaimant
<1>1. Inv => OneClaimant
  BY DEF Inv
<1> QED
  BY <1>1, InvHolds, PTL

\* All calls that are told a certain outcome are told the same, and asked for
\* the same (recoveryEvents, streamInternal).
THEOREM AnswersAlwaysAgree == Spec => []AnswersAgree
<1>1. Inv => AnswersAgree
  BY DEF Inv, Agreed, CallInv, AnswersAgree
<1> QED
  BY <1>1, InvHolds, PTL

-----------------------------------------------------------------------------
(* activeOperations *)

\* A step of one call that keeps it executing, or not.
LEMMA MarkKept ==
    ASSUME MarkedWhileExecuting, NEW c \in Calls, Inv, active' = active,
           \A b \in Calls : b # c => call'[b] = call[b],
           call[c].at \in Executing => call'[c].driver = call[c].driver,
           call'[c].at \in Executing <=> call[c].at \in Executing
    PROVE  MarkedWhileExecuting'
<1>1. \A b \in Calls :
         /\ call'[b].at \in Executing <=> call[b].at \in Executing
         /\ call[b].at \in Executing => call'[b].driver = call[b].driver
  OBVIOUS
<1>2. {call'[b].driver : b \in {a \in Calls : call'[a].at \in Executing}}
        = {call[b].driver : b \in {a \in Calls : call[a].at \in Executing}}
  BY <1>1
<1> QED
  BY <1>2 DEF MarkedWhileExecuting

LEMMA MarkStep ==
    ASSUME MarkedWhileExecuting, Inv, [Next]_vars PROVE MarkedWhileExecuting'
<1>t. call \in [Calls -> CallRecord] /\ \A c \in Calls : call[c] \in CallRecord
  BY DEF Inv, TypeInv
<1>1. ASSUME NEW c \in Calls,
             \/ \E d \in Drivers, print \in Prints : Stream(c, d, print)
             \/ Load(c) \/ Link(c) \/ Answer(c) \/ Reauthorize(c) \/ Generate(c)
             \/ Act(c) \/ Save(c) \/ Consume(c)
      PROVE  MarkedWhileExecuting'
  <2>1. /\ \A b \in Calls : b # c => call'[b] = call[b]
        /\ active' = active
    BY <1>t, <1>1 DEF Stream, Load, Link, Answer, Reauthorize, Generate, Yielding, Act,
       Save, Consume, Moved, Ended
  <2>2. /\ call[c].at \in Executing => call'[c].driver = call[c].driver
        /\ call'[c].at \in Executing <=> call[c].at \in Executing
    <3>1. CASE \E d \in Drivers, print \in Prints : Stream(c, d, print)
      BY <1>t, <3>1 DEF Stream, Executing, CallRecord
    <3>2. CASE Load(c) \/ Link(c) \/ Answer(c) \/ Reauthorize(c)
      BY <1>t, <3>2 DEF Load, Link, Answer, Reauthorize, Moved, Ended, Executing, CallRecord
    <3>3. CASE Generate(c)
      BY <1>t, <3>3 DEF Generate, Yielding, Executing, CallRecord
    <3>4. CASE Act(c) \/ Save(c)
      BY <1>t, <3>4 DEF Act, Save, Moved, Executing, CallRecord
    <3>5. CASE Consume(c)
      BY <1>t, <3>5 DEF Consume, Executing, CallRecord
    <3> QED
      BY <1>1, <3>1, <3>2, <3>3, <3>4, <3>5
  <2> QED
    BY <2>1, <2>2, MarkKept
<1>2. ASSUME NEW c \in Calls, Sync(c) PROVE MarkedWhileExecuting'
  <2>1. call[c].at \notin Executing /\ \A b \in Calls : b # c => call'[b] = call[b]
    BY <1>t, <1>2 DEF Sync, Ended, Executing
  <2>2. CASE Ended(c, "error") /\ UNCHANGED active
    <3>1. call'[c].at \notin Executing
      BY <1>t, <2>2 DEF Ended, Executing, CallRecord
    <3> QED
      BY <2>1, <2>2, <3>1, MarkKept
  <2>3. CASE active' = active \cup {call[c].driver} /\ call'[c].at \in Executing
             /\ call'[c].driver = call[c].driver
    BY <2>1, <2>3 DEF MarkedWhileExecuting
  <2>4. \/ Ended(c, "error") /\ UNCHANGED active
        \/ /\ active' = active \cup {call[c].driver} /\ call'[c].at \in Executing
           /\ call'[c].driver = call[c].driver
    BY <1>t, <1>2 DEF Sync, Executing, CallRecord
  <2> QED
    BY <2>2, <2>3, <2>4
<1>3. ASSUME NEW c \in Calls, Finish(c) PROVE MarkedWhileExecuting'
  <2>1. /\ call[c].at = "finishing" /\ active' = active \ {call[c].driver}
        /\ call'[c].at = "ended" /\ \A b \in Calls : b # c => call'[b] = call[b]
    BY <1>t, <1>3 DEF Finish, Moved, CallRecord
  <2>2. \A b \in Calls : call[b].at \in Executing => b = c
    BY <2>1 DEF Inv, OneClaimant, Claims, Executing
  <2>3. active = {call[c].driver}
    BY <2>1, <2>2 DEF MarkedWhileExecuting, Executing
  <2>4. \A b \in Calls : call'[b].at \notin Executing
    BY <2>1, <2>2 DEF Executing
  <2> QED
    BY <2>1, <2>3, <2>4 DEF MarkedWhileExecuting
<1>4. ASSUME NEW d \in Drivers, Crash(d) PROVE MarkedWhileExecuting'
  <2>1. ASSUME NEW c \in Calls
        PROVE  IF call[c].driver = d THEN call'[c].at \notin Executing
               ELSE call'[c] = call[c]
    BY <1>t, <1>4 DEF Crash, Executing, CallRecord
  <2>2. active' = active \ {d}
    BY <1>4 DEF Crash
  <2>3. {b \in Calls : call'[b].at \in Executing}
          = {b \in Calls : call[b].at \in Executing /\ call[b].driver # d}
    BY <2>1
  <2>4. {call'[b].driver : b \in {a \in Calls : call'[a].at \in Executing}}
          = {call[b].driver : b \in {a \in Calls : call[a].at \in Executing}} \ {d}
    BY <2>1, <2>3
  <2> QED
    BY <2>2, <2>4 DEF MarkedWhileExecuting
<1>5. ASSUME call' = call, active' = active PROVE MarkedWhileExecuting'
  BY <1>5 DEF MarkedWhileExecuting
<1> QED
  BY <1>1, <1>2, <1>3, <1>4, <1>5 DEF Next, Restart, vars

\* activeOperations holds the key exactly while a call of the process executes
\* it (the finally of streamInternal), however the run ends.
THEOREM MarksHold == Spec => []MarkedWhileExecuting
<1>1. Init => MarkedWhileExecuting
  BY DEF Init, MarkedWhileExecuting, Fresh, Executing
<1> QED
  BY <1>1, MarkStep, InvHolds, PTL DEF Spec

\* One claimant executes, and its mark is there exactly that long.
THEOREM ExecutedOnce == Spec => []OneExecution
  BY TypeCorrect, OneClaimantHolds, MarksHold, PTL DEF OneExecution

-----------------------------------------------------------------------------
(* Effects.  While the call that executes is open nobody has seen an outcome,
   so what matters is what it hands over when it stops: either each effect is
   in the record by then, or nobody is told an outcome from there on. *)

Count(log) == Cardinality({n \in DOMAIN log : log[n].type = "tool.completed"})

\* Each effect is confirmed in the record.
Confirmed(record) == effects <= Count(record.log)

\* The record tells a certain outcome.
Certain(record) == record.state \in Settled /\ OutcomeOf(record) \in Settled

\* Nobody is told a certain outcome, nor can be from what is there.
NobodyCertain ==
    /\ ~Certain(file)
    /\ \A c \in Calls : call[c].answer \notin Settled /\ ~Certain(call[c].record)

\* What the call that executes has confirmed, place by place.
EffectCall(c) ==
    /\ call[c].at \in {"syncing", "generating", "called"} => Confirmed(file)
    /\ call[c].at = "acting" => effects <= Count(file.log) + 1
    /\ call[c].at = "yielded" =>
          \/ Confirmed(file)
          \/ call[c].event.type \in Closing /\ call[c].event.uncertain
          \/ call[c].event.type = "tool.completed" /\ effects <= Count(file.log) + 1
    /\ call[c].at = "handed" /\ call[c].event.type \notin Closing => Confirmed(file)
    /\ call[c].at \in {"handed", "finishing"} => Confirmed(call[c].record) \/ NobodyCertain

EffectInv ==
    /\ file = Absent => effects = 0
    /\ Confirmed(file) \/ NobodyCertain
    /\ \A c \in Calls : Claims(c) => EffectCall(c)

LEMMA CountAppend ==
    ASSUME NEW log \in Seq(Event), NEW e \in Event
    PROVE  /\ Count(log) \in Nat
           /\ Count(Append(log, e)) =
                 Count(log) + (IF e.type = "tool.completed" THEN 1 ELSE 0)
<1> DEFINE longer == Append(log, e)
           last == Len(log) + 1
           In(s) == {n \in DOMAIN s : s[n].type = "tool.completed"}
<1>1. /\ Len(log) \in Nat /\ DOMAIN log = 1 .. Len(log) /\ DOMAIN longer = 1 .. last
      /\ longer[last] = e /\ \A n \in 1 .. Len(log) : longer[n] = log[n]
  OBVIOUS
<1>2. IsFiniteSet(1 .. Len(log))
  BY <1>1, FS_Interval
<1>3. IsFiniteSet(In(log)) /\ Cardinality(In(log)) \in Nat
  BY <1>1, <1>2, FS_Subset, FS_CardinalityType
<1>c. Count(log) \in Nat
  BY <1>3 DEF Count
<1> HIDE DEF longer
<1>4. last \notin In(log)
  BY <1>1
<1>5. CASE e.type = "tool.completed"
  <2>1. In(longer) = In(log) \cup {last}
    BY <1>1, <1>5
  <2>2. Cardinality(In(longer)) = Cardinality(In(log)) + 1
    BY <1>3, <1>4, <2>1, FS_AddElement
  <2> QED
    BY <1>3, <1>5, <2>2 DEF Count, longer
<1>6. CASE e.type # "tool.completed"
  <2>1. Cardinality(In(longer)) = Cardinality(In(log))
    <3>1. In(longer) = In(log)
      BY <1>1, <1>6
    <3> QED
      BY <3>1
  <2>2. Count(longer) = Count(log)
    BY <2>1 DEF Count
  <2> QED
    BY <1>c, <1>6, <2>2 DEF longer
<1> QED
  BY <1>5, <1>6 DEF longer

LEMMA CountRecorded ==
    ASSUME NEW record \in Record \cup {Absent}
    PROVE  /\ Count(record.log) \in Nat
           /\ Count(Interrupted(record).log) = Count(record.log)
           /\ \A e \in Event :
                 Count(Recorded(record, e).log) =
                    Count(record.log) + (IF e.type = "tool.completed" THEN 1 ELSE 0)
<1>1. record.log \in Seq(Event)
  <2>1. Absent.log = << >> /\ << >> \in Seq(Event)
    BY DEF Absent
  <2> QED
    BY <2>1 DEF Record
<1>2. Interrupted(record).log = record.log
  BY DEF Interrupted, Record, Absent
<1>3. \A e \in Event : Recorded(record, e).log = Append(record.log, e)
  BY DEF Record, Absent, Recorded
<1>4. /\ Count(record.log) \in Nat
      /\ \A e \in Event : Count(Append(record.log, e)) =
            Count(record.log) + (IF e.type = "tool.completed" THEN 1 ELSE 0)
  <2>1. [type |-> "tool.called", uncertain |-> FALSE] \in Event
    BY DEF Event, EventTypes
  <2> QED
    BY <1>1, <2>1, CountAppend
<1> QED
  BY <1>2, <1>3, <1>4

\* What the record that an event closes tells.
LEMMA CertainRecorded ==
    ASSUME NEW record \in Record, record.state = "running", NEW e \in Event
    PROVE  Certain(Recorded(record, e)) <=> e.type \in Closing /\ ~e.uncertain
<1>1. /\ Recorded(record, e).state \in Settled <=> e.type \in Closing
      /\ Last(Recorded(record, e).log) = e
  BY RecordedRecord
<1>2. e.uncertain \in BOOLEAN
  BY DEF Event
<1>3. e.type \in Closing => (Said(e) \in Settled <=> ~e.uncertain)
  BY <1>2 DEF Said, Closing, Settled
<1> QED
  BY <1>1, <1>3 DEF Certain, OutcomeOf

LEMMA OpenIsQuiet == ASSUME Inv, NEW c \in Calls, Open(c) PROVE NobodyCertain
BY KnownCall DEF Inv, NothingSettled, NobodyCertain, Certain, CallInv, Settled

\* A step of one call that does not itself learn a certain outcome.
LEMMA StaysQuiet ==
    ASSUME Inv, NobodyCertain, NEW c \in Calls,
           \A b \in Calls : b # c => call'[b] = call[b],
           call'[c].answer \notin Settled, ~Certain(call'[c].record), ~Certain(file')
    PROVE  NobodyCertain'
BY DEF NobodyCertain, Certain, OutcomeOf

-----------------------------------------------------------------------------
(* Steps of a call that does not execute. *)

\* It learns what the record tells.
LEMMA Watches ==
    ASSUME Inv, EffectInv, NEW c \in Calls, file' = file, effects' = effects,
           \A b \in Calls : b # c => call'[b] = call[b], ~Claims(c)',
           \/ call'[c].answer \notin Settled
           \/ call'[c].answer = call[c].answer
           \/ Certain(call[c].record),
           call'[c].record \in {call[c].record, file}
    PROVE  EffectInv'
<1>1. NobodyCertain => NobodyCertain'
  BY StaysQuiet DEF NobodyCertain
<1>2. \A r : Confirmed(r) => effects' <= Count(r.log)
  BY DEF Confirmed
<1>3. ASSUME NEW b \in Calls, Claims(b)' PROVE EffectCall(b)'
  <2>1. call'[b] = call[b] /\ Claims(b)
    BY <1>3 DEF Claims
  <2>2. EffectCall(b)
    BY <2>1 DEF EffectInv
  <2> QED
    BY <1>1, <2>1, <2>2 DEF EffectCall, Confirmed
<1> QED
  BY <1>1, <1>3 DEF EffectInv, Confirmed

LEMMA StreamEffect ==
    ASSUME Inv, EffectInv, NEW c \in Calls,
           \E d \in Drivers, print \in Prints : Stream(c, d, print)
    PROVE  EffectInv'
<1>1. /\ call'[c].at = "claiming" /\ call'[c].answer = call[c].answer
      /\ call'[c].record = call[c].record /\ file' = file /\ effects' = effects
      /\ \A b \in Calls : b # c => call'[b] = call[b]
  BY KnownCall DEF Stream, CallRecord
<1>2. ~Claims(c)'
  BY <1>1 DEF Claims, Executing
<1> QED
  BY <1>1, <1>2, Watches

LEMMA LoadEffect == ASSUME Inv, EffectInv, NEW c \in Calls, Load(c) PROVE EffectInv'
<1>1. /\ call[c] \in CallRecord /\ call \in [Calls -> CallRecord]
      /\ call[c].at = "claiming" /\ file' = file /\ effects' = effects
  BY KnownCall DEF Load
<1>2. /\ call'[c].at \in {"linking", "found", "ended"}
      /\ call'[c].answer = call[c].answer \/ call'[c].answer = "error"
      /\ call'[c].record \in {call[c].record, file}
      /\ \A b \in Calls : b # c => call'[b] = call[b]
  BY <1>1 DEF Load, Moved, Ended, CallRecord
<1>3. ~Claims(c)' /\ "error" \notin Settled
  BY <1>2 DEF Claims, Executing, Settled
<1> QED
  BY <1>1, <1>2, <1>3, Watches

LEMMA AnswerEffect == ASSUME Inv, EffectInv, NEW c \in Calls, Answer(c) PROVE EffectInv'
<1>1. /\ call[c] \in CallRecord /\ call \in [Calls -> CallRecord]
      /\ file' = file /\ effects' = effects
  BY KnownCall DEF Answer
<1>2. /\ call'[c].at \in {"ended", "reauthorizing"}
      /\ \/ call'[c].answer = call[c].answer
         \/ call'[c].answer \in {"conflict", "withheld", "in_progress"}
      /\ call'[c].record = call[c].record
      /\ \A b \in Calls : b # c => call'[b] = call[b]
  BY <1>1 DEF Answer, Ended, Moved, CallRecord
<1>3. ~Claims(c)' /\ (call'[c].answer = call[c].answer \/ call'[c].answer \notin Settled)
  BY <1>2 DEF Claims, Executing, Settled
<1> QED
  BY <1>1, <1>2, <1>3, Watches

LEMMA ReauthorizeEffect ==
    ASSUME Inv, EffectInv, NEW c \in Calls, Reauthorize(c) PROVE EffectInv'
<1>1. /\ call[c] \in CallRecord /\ call \in [Calls -> CallRecord]
      /\ file' = file /\ effects' = effects
  BY KnownCall DEF Reauthorize
<1>2. PICK told \in {"withheld", Replayed(call[c].record)} :
         call' = [call EXCEPT ![c].at = "ended", ![c].answer = told]
  BY DEF Reauthorize, Ended
<1>3. told \in Settled => Certain(call[c].record)
  BY <1>2 DEF Settled, Replayed, Certain, OutcomeOf
<1>4. /\ call'[c].at = "ended" /\ call'[c].answer = told
      /\ call'[c].record = call[c].record
      /\ \A b \in Calls : b # c => call'[b] = call[b]
  BY <1>1, <1>2 DEF CallRecord
<1>5. ~Claims(c)'
  BY <1>4 DEF Claims, Executing
<1> QED
  BY <1>1, <1>3, <1>4, <1>5, Watches

LEMMA LinkEffect == ASSUME Inv, EffectInv, NEW c \in Calls, Link(c) PROVE EffectInv'
<1> DEFINE proposed == NewOperation(c, call[c].print)
<1>1. /\ call[c] \in CallRecord /\ call \in [Calls -> CallRecord]
      /\ call[c].at = "linking" /\ effects' = effects /\ call[c].print \in Prints
  BY KnownCall DEF Link, CallInv
<1>2. CASE /\ file' = file
           /\ Moved(c, "claiming") \/ Ended(c, "error")
  <2>1. /\ call'[c].at \in {"claiming", "ended"}
        /\ call'[c].answer = call[c].answer \/ call'[c].answer = "error"
        /\ call'[c].record = call[c].record
        /\ \A b \in Calls : b # c => call'[b] = call[b]
    BY <1>1, <1>2 DEF Moved, Ended, CallRecord
  <2>2. ~Claims(c)' /\ "error" \notin Settled
    BY <2>1 DEF Claims, Executing, Settled
  <2> QED
    BY <1>1, <1>2, <2>1, <2>2, Watches
<1>3. CASE /\ file = Absent /\ file' = proposed
           /\ call' = [call EXCEPT ![c].at = "syncing", ![c].record = proposed]
  <2>1. proposed \in Record /\ proposed # Absent /\ Count(proposed.log) \in Nat
    BY <1>1, NewRecord, CountRecorded
  <2>2. effects' = 0 /\ file' = proposed
    BY <1>1, <1>3 DEF EffectInv
  <2> HIDE DEF proposed
  <2>3. Confirmed(file)'
    BY <2>1, <2>2 DEF Confirmed
  <2>4. /\ call'[c].at = "syncing" /\ \A b \in Calls : b # c => call'[b] = call[b]
    BY <1>1, <1>3 DEF CallRecord
  <2>5. \A b \in Calls : Claims(b)' => b = c
    BY <1>3, <2>4, AbsentRecord, OperationsAssumption DEF Claims, Inv, OneClaimant
  <2>6. EffectCall(c)'
    BY <2>3, <2>4 DEF EffectCall
  <2> QED
    BY <2>1, <2>2, <2>3, <2>5, <2>6 DEF EffectInv
<1> QED
  BY <1>2, <1>3 DEF Link

-----------------------------------------------------------------------------
(* Steps of the call that executes. *)

LEMMA Executes ==
    ASSUME Inv, EffectInv, NEW c \in Calls, Claims(c),
           \A b \in Calls : b # c => call'[b] = call[b],
           file' # Absent,
           Claims(c)' => EffectCall(c)',
           Confirmed(file)' \/ NobodyCertain'
    PROVE  EffectInv'
<1>1. \A b \in Calls : Claims(b)' => b = c
  BY DEF Claims, Inv, OneClaimant
<1> QED
  BY <1>1 DEF EffectInv

\* What holds of the call that executes before its step.
LEMMA KnownClaim ==
    ASSUME Inv, EffectInv, NEW c \in Calls, Claims(c)
    PROVE  /\ call[c] \in CallRecord /\ call \in [Calls -> CallRecord]
           /\ file # Absent /\ file \in Record /\ call[c].record \in Record
           /\ Count(file.log) \in Nat /\ effects \in Nat
           /\ Confirmed(file) \/ NobodyCertain
           /\ EffectCall(c)
           /\ Open(c) => call[c].record = file /\ file.state = "running" /\ NobodyCertain
BY KnownCall, CountRecorded, OpenIsQuiet DEF EffectInv, CallInv, CallRecord

\* A step that leaves the record, and the outcome, to the call itself.
LEMMA Stays ==
    ASSUME Inv, EffectInv, NEW c \in Calls, Open(c), file' = file,
           \A b \in Calls : b # c => call'[b] = call[b],
           call'[c].record = call[c].record, call'[c].answer \notin Settled
    PROVE  NobodyCertain'
<1>1. NobodyCertain
  BY OpenIsQuiet
<1> QED
  BY <1>1, StaysQuiet DEF NobodyCertain

LEMMA SyncEffect == ASSUME Inv, EffectInv, NEW c \in Calls, Sync(c) PROVE EffectInv'
<1>1. Claims(c) /\ Open(c) /\ call[c].at = "syncing" /\ file' = file /\ effects' = effects
  BY DEF Sync, Claims, Open
<1>2. /\ call[c] \in CallRecord /\ call \in [Calls -> CallRecord] /\ file # Absent
      /\ Confirmed(file) /\ call[c].record = file /\ call[c].answer \notin Settled
  BY <1>1, KnownClaim DEF EffectCall, NobodyCertain
<1>3. /\ call'[c].at \in {"yielded", "finishing", "ended"}
      /\ call'[c].record = call[c].record
      /\ call'[c].answer \in {call[c].answer, "refused", "error"}
      /\ \A b \in Calls : b # c => call'[b] = call[b]
  BY <1>1, <1>2 DEF Sync, Ended, CallRecord
<1>4. NobodyCertain'
  BY <1>1, <1>2, <1>3, Stays DEF Settled
<1>5. Confirmed(file)' /\ EffectCall(c)'
  BY <1>1, <1>2, <1>3 DEF EffectCall, Confirmed
<1> QED
  BY <1>1, <1>2, <1>3, <1>4, <1>5, Executes

LEMMA GenerateEffect == ASSUME Inv, EffectInv, NEW c \in Calls, Generate(c) PROVE EffectInv'
<1>1. /\ Claims(c) /\ Open(c) /\ call[c].at \in {"generating", "called", "acting"}
      /\ file' = file /\ effects' = effects
  BY DEF Generate, Claims, Open, Executing
<1>2. /\ call[c] \in CallRecord /\ call \in [Calls -> CallRecord] /\ file # Absent
      /\ EffectCall(c) /\ call[c].answer \notin Settled
  BY <1>1, KnownClaim DEF NobodyCertain
<1>3. \E type, uncertain :
         /\ Yielding(c, type, uncertain)
         /\ call[c].at = "acting" =>
               \/ type = "tool.completed"
               \/ type \in {"run.failed", "run.cancelled"} /\ uncertain = TRUE
  <2>1. CASE call[c].at \in {"generating", "called"}
    BY <2>1 DEF Generate
  <2>2. CASE call[c].at = "acting"
    BY <2>2 DEF Generate
  <2> QED
    BY <1>1, <2>1, <2>2
<1>4. /\ call'[c].at = "yielded" /\ call'[c].record = call[c].record
      /\ call'[c].answer = call[c].answer
      /\ \A b \in Calls : b # c => call'[b] = call[b]
      /\ call[c].at = "acting" =>
            \/ call'[c].event.type = "tool.completed"
            \/ call'[c].event.type \in Closing /\ call'[c].event.uncertain = TRUE
  BY <1>1, <1>2, <1>3 DEF Yielding, CallRecord, Closing
<1>5. NobodyCertain'
  BY <1>1, <1>2, <1>4, Stays
<1>6. EffectCall(c)'
  BY <1>1, <1>2, <1>4 DEF EffectCall, Confirmed
<1> QED
  BY <1>1, <1>2, <1>4, <1>5, <1>6, Executes

LEMMA ActEffect == ASSUME Inv, EffectInv, NEW c \in Calls, Act(c) PROVE EffectInv'
<1>1. /\ Claims(c) /\ Open(c) /\ call[c].at = "called" /\ file' = file
      /\ effects' = effects + 1
  BY DEF Act, Claims, Open, Executing
<1>2. /\ call[c] \in CallRecord /\ call \in [Calls -> CallRecord] /\ file # Absent
      /\ Confirmed(file) /\ call[c].answer \notin Settled
      /\ Count(file.log) \in Nat /\ effects \in Nat
  BY <1>1, KnownClaim DEF EffectCall, NobodyCertain
<1>3. /\ call'[c].at = "acting" /\ call'[c].record = call[c].record
      /\ call'[c].answer = call[c].answer
      /\ \A b \in Calls : b # c => call'[b] = call[b]
  BY <1>1, <1>2 DEF Act, Moved, CallRecord
<1>4. NobodyCertain'
  BY <1>1, <1>2, <1>3, Stays
<1>5. effects' <= Count(file'.log) + 1
  BY <1>1, <1>2 DEF Confirmed
<1>6. EffectCall(c)'
  BY <1>1, <1>3, <1>5 DEF EffectCall
<1> QED
  BY <1>1, <1>2, <1>3, <1>4, <1>6, Executes

LEMMA ConsumeEffect == ASSUME Inv, EffectInv, NEW c \in Calls, Consume(c) PROVE EffectInv'
<1>1. /\ Claims(c) /\ call[c].at = "handed" /\ file' = file /\ effects' = effects
  BY DEF Consume, Claims, Executing
<1>2. /\ call[c] \in CallRecord /\ call \in [Calls -> CallRecord] /\ file # Absent
      /\ EffectCall(c)
      /\ Confirmed(file) \/ NobodyCertain
  BY <1>1, KnownClaim
<1>3. /\ call'[c].at \in {"finishing", "called", "generating"}
      /\ call'[c].at # "finishing" => call[c].event.type \notin Closing
      /\ call'[c].record = call[c].record
      /\ call'[c].answer = call[c].answer \/ call'[c].answer = "closed"
      /\ \A b \in Calls : b # c => call'[b] = call[b]
  BY <1>1, <1>2 DEF Consume, CallRecord
<1>4. NobodyCertain => NobodyCertain'
  BY <1>1, <1>3, StaysQuiet DEF NobodyCertain, Settled
<1>5. Confirmed(file)' \/ NobodyCertain'
  BY <1>1, <1>2, <1>4 DEF Confirmed
<1>6. call'[c].at = "finishing" => Confirmed(call[c].record)' \/ NobodyCertain'
  BY <1>1, <1>2, <1>3, <1>4 DEF EffectCall, Confirmed
<1>7. call'[c].at # "finishing" => Confirmed(file)'
  <2> SUFFICES ASSUME call'[c].at # "finishing" PROVE Confirmed(file)'
    OBVIOUS
  <2>1. call[c].event.type \notin Closing
    BY <1>3
  <2>2. Confirmed(file)
    BY <1>1, <1>2, <2>1 DEF EffectCall
  <2> QED
    BY <1>1, <2>2 DEF Confirmed
<1>8. EffectCall(c)'
  BY <1>3, <1>6, <1>7 DEF EffectCall
<1> QED
  BY <1>1, <1>2, <1>3, <1>5, <1>8, Executes

LEMMA SaveEffect == ASSUME Inv, EffectInv, NEW c \in Calls, Save(c) PROVE EffectInv'
<1> DEFINE record == call[c].record
           e == call[c].event
           next == Recorded(record, e)
           gained == IF e.type = "tool.completed" THEN 1 ELSE 0
<1>1. Claims(c) /\ Open(c) /\ call[c].at = "yielded" /\ effects' = effects
  BY DEF Save, Claims, Open, Executing
<1>2. /\ call[c] \in CallRecord /\ call \in [Calls -> CallRecord] /\ file # Absent
      /\ EffectCall(c) /\ NobodyCertain /\ record = file /\ record \in Record
      /\ record.state = "running" /\ Count(record.log) \in Nat /\ effects \in Nat
      /\ e \in Event
  BY <1>1, KnownClaim, KnownCall DEF CallInv
<1>3. /\ next # Absent
      /\ Certain(next) <=> e.type \in Closing /\ ~e.uncertain
      /\ Count(next.log) = Count(record.log) + gained
  BY <1>2, RecordedRecord, CertainRecorded, CountRecorded
<1>4. /\ e.type \in Closing => gained = 0
      /\ gained \in Nat
  BY DEF Closing
<1>5. \/ effects <= Count(record.log)
      \/ e.type \in Closing /\ e.uncertain
      \/ gained = 1 /\ effects <= Count(record.log) + 1
  BY <1>1, <1>2 DEF EffectCall, Confirmed
\* A certain outcome is told of confirmed effects only.
<1>6. /\ Certain(next) => effects <= Count(record.log)
      /\ ~Certain(next) => e.type \notin Closing \/ e.uncertain
      /\ e.type \notin Closing => effects <= Count(next.log)
      /\ effects <= Count(record.log) => effects <= Count(next.log)
  <2> HIDE DEF record, e, next, gained
  <2>1. e.type \in Closing => gained # 1
    BY <1>4
  <2> QED
    BY <1>2, <1>3, <1>4, <1>5, <2>1
<1>7. CASE /\ file' = next \/ file' = file
           /\ call' = [call EXCEPT ![c].at = "finishing", ![c].answer = "uncertain"]
  <2>1. /\ call'[c].at = "finishing" /\ call'[c].record = record
        /\ call'[c].answer = "uncertain"
        /\ \A b \in Calls : b # c => call'[b] = call[b]
    BY <1>2, <1>7 DEF CallRecord
  <2> HIDE DEF record, e, next, gained
  <2>2. CASE file' = next /\ Certain(next)
    <3>1. Confirmed(file)' /\ Confirmed(call[c].record)'
      BY <1>1, <1>6, <2>1, <2>2 DEF Confirmed
    <3>2. EffectCall(c)'
      BY <2>1, <3>1 DEF EffectCall
    <3> QED
      BY <1>1, <1>3, <2>1, <2>2, <3>1, <3>2, Executes
  <2>3. CASE ~Certain(file')
    <3>1. NobodyCertain'
      BY <1>2, <2>1, <2>3, StaysQuiet DEF NobodyCertain, Settled, record
    <3>2. EffectCall(c)'
      BY <2>1, <3>1 DEF EffectCall
    <3> QED
      BY <1>1, <1>2, <1>3, <1>7, <2>1, <3>1, <3>2, Executes
  <2> QED
    BY <1>2, <1>7, <2>2, <2>3 DEF NobodyCertain
<1>8. CASE /\ file' = next
           /\ call' = [call EXCEPT ![c].at = "handed", ![c].record = next,
                                   ![c].answer = IF e.type \in Closing THEN Said(e) ELSE @]
  <2> DEFINE answer == IF e.type \in Closing THEN Said(e) ELSE call[c].answer
  <2>1. call' = [call EXCEPT ![c].at = "handed", ![c].record = next, ![c].answer = answer]
    BY <1>8
  <2>2. ~Certain(next) => answer \notin Settled
    <3>1. e.uncertain => Said(e) = "uncertain"
      BY DEF Said
    <3> QED
      BY <1>2, <1>6, <3>1 DEF NobodyCertain, Settled
  <2> HIDE DEF answer
  <2>3. /\ call'[c].at = "handed" /\ call'[c].record = next /\ call'[c].answer = answer
        /\ call'[c].event = e
        /\ \A b \in Calls : b # c => call'[b] = call[b]
    BY <1>2, <2>1 DEF CallRecord
  <2> HIDE DEF record, e, next, gained
  <2>4. Confirmed(file)' \/ NobodyCertain'
    <3>1. CASE Certain(next)
      BY <1>1, <1>6, <1>8, <3>1 DEF Confirmed
    <3>2. CASE ~Certain(next)
      BY <1>2, <1>8, <2>2, <2>3, <3>2, StaysQuiet
    <3> QED
      BY <3>1, <3>2
  <2>5. EffectCall(c)'
    BY <1>1, <1>6, <1>8, <2>3, <2>4 DEF EffectCall, Confirmed
  <2> QED
    BY <1>1, <1>3, <1>8, <2>3, <2>4, <2>5, Executes
<1> QED
  BY <1>7, <1>8 DEF Save

LEMMA FinishEffect == ASSUME Inv, EffectInv, NEW c \in Calls, Finish(c) PROVE EffectInv'
<1> DEFINE record == call[c].record
           next == Interrupted(record)
<1>1. Claims(c) /\ call[c].at = "finishing" /\ effects' = effects
  BY DEF Finish, Claims, Executing
<1>2. /\ call[c] \in CallRecord /\ call \in [Calls -> CallRecord] /\ file # Absent
      /\ record \in Record /\ WellClosed(record)
      /\ Confirmed(record) \/ NobodyCertain
      /\ Confirmed(file) \/ NobodyCertain
  BY <1>1, KnownClaim, KnownCall DEF EffectCall
<1>3. /\ call'[c].at = "ended" /\ call'[c].record = record
      /\ call'[c].answer = call[c].answer
      /\ \A b \in Calls : b # c => call'[b] = call[b]
  BY <1>1, <1>2 DEF Finish, Moved, CallRecord
<1>4. ~Claims(c)'
  BY <1>3 DEF Claims, Executing
<1>5. CASE file' = file
  <2>1. NobodyCertain => NobodyCertain'
    BY <1>3, <1>5, StaysQuiet DEF NobodyCertain, record
  <2> QED
    BY <1>1, <1>2, <1>3, <1>4, <1>5, <2>1, Executes DEF Confirmed
<1>6. CASE record.state = "running" /\ file' = next
  <2>1. /\ next # Absent /\ next.state = "uncertain"
        /\ Count(next.log) = Count(record.log)
    <3>1. next # Absent /\ next.state = "uncertain"
      BY <1>2, <1>6, InterruptedRecord
    <3> QED
      BY <1>2, <3>1, CountRecorded
  <2>c. ~Certain(next)
    BY <2>1 DEF Certain, Settled
  <2> HIDE DEF next
  <2>2. NobodyCertain => NobodyCertain'
    BY <1>3, <1>6, <2>c, StaysQuiet DEF NobodyCertain, record
  <2>3. Confirmed(record) => Confirmed(file)'
    BY <1>1, <1>6, <2>1 DEF Confirmed
  <2> QED
    BY <1>1, <1>2, <1>3, <1>4, <1>6, <2>1, <2>2, <2>3, Executes
<1> QED
  BY <1>5, <1>6 DEF Finish

LEMMA CrashEffect == ASSUME Inv, EffectInv, NEW d \in Drivers, Crash(d) PROVE EffectInv'
<1>1. file' = file /\ effects' = effects
  BY DEF Crash
<1>2. ASSUME NEW c \in Calls
      PROVE  /\ call'[c].record = call[c].record
             /\ \/ call'[c] = call[c]
                \/ call'[c].at = "ended" /\ call'[c].answer = "lost"
  BY KnownCall DEF Crash, CallRecord
<1>3. NobodyCertain => NobodyCertain'
  BY <1>1, <1>2 DEF NobodyCertain, Certain, OutcomeOf, Settled
<1>4. ASSUME NEW c \in Calls, Claims(c)' PROVE EffectCall(c)'
  <2>1. call'[c] = call[c] /\ Claims(c)
    BY <1>2, <1>4 DEF Claims, Executing
  <2>2. EffectCall(c)
    BY <2>1 DEF EffectInv
  <2> QED
    BY <1>1, <1>3, <2>1, <2>2 DEF EffectCall, Confirmed
<1> QED
  BY <1>1, <1>3, <1>4 DEF EffectInv, Confirmed

LEMMA EffectStep == ASSUME Inv, EffectInv, [Next]_vars PROVE EffectInv'
<1>1. ASSUME UNCHANGED <<file, call, effects>> PROVE EffectInv'
  BY <1>1 DEF EffectInv, EffectCall, Confirmed, NobodyCertain, Certain, OutcomeOf, Claims
<1> QED
  BY <1>1, StreamEffect, LoadEffect, LinkEffect, SyncEffect, AnswerEffect,
     ReauthorizeEffect, GenerateEffect, ActEffect, SaveEffect, ConsumeEffect, FinishEffect, CrashEffect
  DEF Next, Restart, vars

\* "A tool effect followed by connection loss yields a recoverable recorded
\* outcome or explicit uncertainty": while an effect is not confirmed in the
\* record no call is told a certain outcome, whichever saves fail and whichever
\* processes die (append, interrupt, recoveryEvents).
THEOREM EffectNeverSilent == Spec => []NoSilentEffect
<1>1. Init => EffectInv
  BY DEF Init, Fresh, EffectInv, NobodyCertain, Certain, Claims, Executing, Settled, Absent
<1>2. Inv /\ EffectInv => NoSilentEffect
  <2> SUFFICES ASSUME Inv, EffectInv, effects > Logged("tool.completed")
               PROVE  NobodyCertain
    BY DEF NoSilentEffect, NobodyCertain
  <2>1. Logged("tool.completed") = Count(file.log)
    BY DEF Logged, Count
  <2>2. Count(file.log) \in Nat /\ effects \in Nat
    BY CountRecorded DEF Inv, TypeInv
  <2> QED
    BY <2>1, <2>2 DEF EffectInv, Confirmed
<1> QED
  BY <1>1, <1>2, EffectStep, InvHolds, PTL DEF Spec

=============================================================================
