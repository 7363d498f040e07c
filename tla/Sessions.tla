------------------------------ MODULE Sessions ------------------------------
(***************************************************************************)
(* Stored conversations: SessionManager and the turns that driver.execute  *)
(* runs in them.                                                           *)
(*                                                                         *)
(* A turn is one execute() of a request with a session handle.  It begins  *)
(* by taking the record, waits for a slot, and then checks the session,    *)
(* calls the model and runs tools, step after step, until an answer is     *)
(* committed.  A turn stands still at every event it yields for as long as *)
(* its consumer likes; its abort listener runs all the same and gives the  *)
(* record back.  Manager calls are synchronous, so each is one action.     *)
(*                                                                         *)
(* A message history is the sequence of the turns that wrote it.  What a   *)
(* turn is refused without a change of state (permission, another account, *)
(* capability, a schema) is a guard that need not hold.                    *)
(***************************************************************************)
EXTENDS Naturals, Sequences, FiniteSets

CONSTANTS
    Ids,            \* the ids that sessions get, each once
    Turns,          \* executions with a session handle
    None,           \* no turn or session
    MaxEntries,     \* options.maxEntries
    MaxTurns        \* options.maxMessages, as a number of turns

ASSUME SessionsAssumption ==
    /\ None \notin Ids \cup Turns
    /\ IsFiniteSet(Ids)
    /\ MaxEntries \in Nat /\ MaxTurns \in Nat

VARIABLES
    record,     \* the manager's records, by id
    turn        \* the turns

vars == <<record, turn>>

-----------------------------------------------------------------------------
(* Records.  Names with an underscore are faulty variants of the definition
   that follows them. *)

\* timer: the expiry timer is armed; due: the record's idle time has passed.
Record == [state : {"unused", "ready", "running", "interrupted", "removed"},
           revision : 0 .. MaxTurns, history : Seq(Turns),
           active : Turns \cup {None}, timer : BOOLEAN, due : BOOLEAN]

Unused == [state |-> "unused", revision |-> 0, history |-> <<>>,
           active |-> None, timer |-> FALSE, due |-> FALSE]
Created == [Unused EXCEPT !.state = "ready", !.timer = TRUE]
Removed == [Unused EXCEPT !.state = "removed"]

Held(id) == record[id].state \notin {"unused", "removed"}

\* What create and lookup remove on the way: records idle for too long.
Stale(id) == Held(id) /\ record[id].active = None /\ record[id].due

\* expireLater after a turn.
Idle(r, state) ==
    [r EXCEPT !.state = state, !.active = None, !.timer = TRUE, !.due = FALSE]

-----------------------------------------------------------------------------
(* Turns *)

\* base, seen: the revision and the history the turn began with.
Working == {"waiting", "checked", "model", "answered"}
Turn == [at : {"new", "committed", "failing", "ended"} \cup Working,
         session : Ids \cup {None}, base : 0 .. MaxTurns, seen : Seq(Turns),
         started : BOOLEAN, settled : BOOLEAN, aborted : BOOLEAN]

NewTurn == [at |-> "new", session |-> None, base |-> 0, seen |-> <<>>,
            started |-> FALSE, settled |-> FALSE, aborted |-> FALSE]

Executing(t) == turn[t].at \notin {"new", "ended"}

Moved(t, place) == turn' = [turn EXCEPT ![t].at = place]

Init ==
    /\ record = [id \in Ids |-> Unused]
    /\ turn = [t \in Turns |-> NewTurn]

-----------------------------------------------------------------------------
(* The manager *)

\* remove: the record goes, and its active turn is aborted.
Discard(id) ==
    /\ record' = [record EXCEPT ![id] = Removed]
    /\ turn' = [t \in Turns |-> IF record[id].active = t
                                THEN [turn[t] EXCEPT !.aborted = TRUE] ELSE turn[t]]

\* create: stale records go first, whether or not there is room then.
Create(id) ==
    LET kept == {i \in Ids : Held(i) /\ ~Stale(i)}
        swept == [i \in Ids |-> IF Stale(i) THEN Removed ELSE record[i]]
    IN  /\ record[id].state = "unused"
        /\ \/ /\ Cardinality(kept) < MaxEntries
              /\ record' = [swept EXCEPT ![id] = Created]
           \/ record' = swept
        /\ UNCHANGED turn

\* The retention time passes.
Lapse(id) ==
    /\ record[id].timer /\ ~record[id].due
    /\ record' = [record EXCEPT ![id].due = TRUE]
    /\ UNCHANGED turn

\* The timer fires.
Expire(id) ==
    /\ record[id].timer /\ record[id].due
    /\ Discard(id)

\* lookup, by a read, a replay or a refused turn, finds the record stale.
Touch(id) ==
    /\ Stale(id)
    /\ Discard(id)

Delete(id) ==
    /\ Held(id)
    /\ Discard(id)

-----------------------------------------------------------------------------
(* The lease of a turn *)

Released_AlwaysReady(r, tn) == Idle(r, "ready")

\* The record when its turn gives it back without a commit.
Released(r, tn) == Idle(r, IF tn.started THEN "interrupted" ELSE "ready")

\* release, with the turn's other fields already at their new values in tn.
Release(t, tn) ==
    IF ~tn.settled /\ Held(tn.session)
    THEN /\ record' = [record EXCEPT ![tn.session] = Released(@, tn)]
         /\ turn' = [turn EXCEPT ![t] = [tn EXCEPT !.settled = TRUE]]
    ELSE /\ turn' = [turn EXCEPT ![t] = tn]
         /\ UNCHANGED record

\* available: the lease is open and the conversation is still there.
Available(t) == ~turn[t].settled /\ Held(turn[t].session)

\* The record while a turn has it.
Taken(r, t) ==
    [r EXCEPT !.state = "running", !.active = t, !.timer = FALSE, !.due = FALSE]

Begin_AnyState(t, id, revision) ==
    /\ turn[t].at = "new" /\ ~turn[t].aborted
    /\ Held(id) /\ ~Stale(id)
    /\ record[id].revision = revision
    /\ Len(record[id].history) < MaxTurns
    /\ record' = [record EXCEPT ![id] = Taken(@, t)]
    /\ turn' = [turn EXCEPT ![t].at = "waiting", ![t].session = id,
                            ![t].base = revision, ![t].seen = record[id].history]

\* begin, and the release that follows at once when the run is aborted.
Begin(t, id, revision) ==
    /\ turn[t].at = "new"
    /\ Held(id) /\ ~Stale(id)
    /\ record[id].revision = revision
    /\ record[id].state = "ready"
    /\ Len(record[id].history) < MaxTurns
    /\ record' = [record EXCEPT ![id] = IF turn[t].aborted THEN Idle(@, "ready")
                                        ELSE Taken(@, t)]
    /\ turn' = [turn EXCEPT ![t].at = "waiting", ![t].session = id,
                            ![t].base = revision, ![t].seen = record[id].history,
                            ![t].settled = turn[t].aborted]

\* The caller, a timeout or a full buffer aborts the run: the listener gives
\* the record back wherever the turn stands.
Abort(t) ==
    /\ ~turn[t].aborted
    /\ \/ turn[t].at = "new" /\ turn' = [turn EXCEPT ![t].aborted = TRUE]
                             /\ UNCHANGED record
       \/ Executing(t) /\ Release(t, [turn[t] EXCEPT !.aborted = TRUE])

\* The slot and the step are granted; session.check; step.started is yielded.
Check(t) ==
    /\ turn[t].at = "waiting" /\ ~turn[t].aborted
    /\ Available(t)
    /\ Moved(t, "checked")
    /\ UNCHANGED record

\* session.started, then provider.complete.
Start(t) ==
    /\ turn[t].at = "checked" /\ ~turn[t].aborted
    /\ turn' = [turn EXCEPT ![t].started = TRUE, ![t].at = "model"]
    /\ UNCHANGED record

\* The model answers: with tool calls, after which the next step follows, or
\* with the final text.
Respond(t) ==
    /\ turn[t].at = "model" /\ ~turn[t].aborted
    /\ \E place \in {"waiting", "answered"} : Moved(t, place)
    /\ UNCHANGED record

\* The record after a commit.
Committed(r, t) ==
    [Idle(r, "ready") EXCEPT !.history = Append(@, t), !.revision = @ + 1]

\* commit, then run.completed is yielded.
Commit(t) ==
    /\ turn[t].at = "answered" /\ ~turn[t].aborted
    /\ Available(t)
    /\ record' = [record EXCEPT ![turn[t].session] = Committed(@, t)]
    /\ turn' = [turn EXCEPT ![t].at = "committed", ![t].settled = TRUE]

\* Anything throws: the model, a tool, a check, a commit, the abort signal.
Fail(t) ==
    /\ turn[t].at \in Working
    /\ Moved(t, "failing")
    /\ UNCHANGED record

\* finally, once the consumer has read the last event.
Finish(t) ==
    /\ turn[t].at \in {"committed", "failing"}
    /\ Release(t, [turn[t] EXCEPT !.at = "ended", !.aborted = TRUE])

TurnStep(t) == Check(t) \/ Start(t) \/ Respond(t) \/ Commit(t) \/ Fail(t) \/ Finish(t)

Next ==
    \/ \E id \in Ids : Create(id) \/ Lapse(id) \/ Expire(id) \/ Touch(id) \/ Delete(id)
    \/ \E t \in Turns :
          \/ \E id \in Ids, revision \in 0 .. MaxTurns : Begin(t, id, revision)
          \/ Abort(t) \/ TurnStep(t)

Spec == Init /\ [][Next]_vars

\* The clock and its timers go on.
FairSpec == Spec /\ \A id \in Ids : WF_vars(Lapse(id)) /\ WF_vars(Expire(id))

-----------------------------------------------------------------------------
(* Properties *)

\* Records and leases have their types, and a revision counts the turns.
TypeOK ==
    /\ record \in [Ids -> Record]
    /\ turn \in [Turns -> Turn]
    /\ \A id \in Ids : record[id].revision = Len(record[id].history)

\* "Only one turn may run in a session at a time", and the session is taken for
\* exactly as long: it is running if and only if one turn holds an open lease on
\* it.  No aborted turn does, however long its consumer pauses (driver.ts:903),
\* and a turn whose session was deleted is aborted.
OneTurn ==
    \A id \in Ids :
        LET open == {t \in Turns : turn[t].session = id /\ ~turn[t].settled}
        IN  IF Held(id)
            THEN /\ open = IF record[id].active = None THEN {} ELSE {record[id].active}
                 /\ (record[id].state = "running") <=> (record[id].active # None)
                 /\ \A t \in open : Executing(t) /\ ~turn[t].aborted
            ELSE \A t \in open : turn[t].aborted

\* "Neither starts another model call": no two turns ever call the model on the
\* same revision of a session, whatever was cancelled, lost or deleted.
OneModelPerRevision ==
    \A t, u \in Turns :
        /\ turn[t].started /\ turn[u].started
        /\ turn[t].session = turn[u].session /\ turn[t].base = turn[u].base
        => t = u

\* "Failure after model work starts marks a session interrupted": a turn whose
\* model was called and whose lease closed without a commit leaves the session
\* at its revision and interrupted, for good.
WorkIsNotForgotten ==
    \A t \in Turns :
        LET r == record[turn[t].session]
        IN  turn[t].started /\ turn[t].settled /\ Held(turn[t].session) =>
              \/ turn[t].base < r.revision /\ r.history[turn[t].base + 1] = t
              \/ r.state = "interrupted" /\ r.revision = turn[t].base

\* One turn at a time, one model call per revision, and no work that is forgotten,
\* whatever was aborted, deleted or expired at any point of a turn.
TurnsAreSafe == TypeOK /\ OneTurn /\ OneModelPerRevision /\ WorkIsNotForgotten

\* "Its last successful visible history remains": a session's history changes
\* only when a turn that is not aborted appends itself to exactly the history it
\* began with, one revision later, or when the session goes.
CommitExtends ==
    [][\A id \in Ids :
          record'[id].history # record[id].history =>
              \/ record'[id] = Removed
              \/ \E t \in Turns :
                    /\ record[id].active = t /\ ~turn[t].aborted
                    /\ record'[id].history = Append(turn[t].seen, t)
                    /\ record'[id].revision = turn[t].base + 1]_vars

\* "Retention is suspended throughout an active run": time alone never takes a
\* session away from its turn.
RetentionSuspended ==
    [][\A id \in Ids : Expire(id) \/ Touch(id) => record[id].active = None]_vars

\* "Idle records expire automatically": a session nobody takes goes away, also
\* when a turn gave it back.
IdleExpires ==
    \A id \in Ids :
        (Held(id) /\ record[id].active = None) ~>
            (record[id].state = "removed" \/ record[id].active # None)

=============================================================================
