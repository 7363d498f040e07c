---------------------------- MODULE Connections -----------------------------
(***************************************************************************)
(* The private connection store of a host (hostConnections).               *)
(*                                                                         *)
(* Several processes share one file.  A change takes a lock file, reads    *)
(* the state, computes the next one, writes a temporary file and renames   *)
(* it; requests are authenticated without the lock.  The mutations of one  *)
(* process wait for each other; another process finds the store busy.  A   *)
(* process may die between any two steps and leaves its lock behind.       *)
(*                                                                         *)
(* A connection is named by the invitation it came from and the process    *)
(* that exchanged it; a state of the file is a function from invitations   *)
(* and connections to the time they expire, 0 for those it does not hold.  *)
(***************************************************************************)
EXTENDS Integers, SequencesExt, FiniteSetsExt

CONSTANTS
    Processes,
    Ids,            \* invitations
    MaxTime,        \* bound on the clock
    MaxQueue,       \* bound: mutations of a process that wait
    Capacity        \* the store's limit, of invitations and of connections

VARIABLES
    now,
    file,           \* what the store's file says
    lock,           \* who created the lock file; "free": it does not exist
    process,        \* per process: the mutation it runs, and those that wait
    token,          \* per invitation: the tokens handed out for it; -1: not created
    revoked         \* what a caller was told is revoked

connectionVars == <<now, file, lock, process, token, revoked>>

Pairs == Ids \X Processes
Names == Ids \cup Pairs
Operations == [type : {"create"}, id : Ids]
              \cup [type : {"exchange"}, id : Ids]
              \cup [type : {"revoke"}, id : Names]
NoOperation == [type |-> "none", id |-> CHOOSE i \in Ids : TRUE]

Empty == [n \in Names |-> 0]
Idle == [at |-> "idle", op |-> NoOperation, state |-> Empty, queue |-> <<>>]

Init ==
    /\ now = 1
    /\ file = Empty
    /\ lock = "free"
    /\ process = [p \in Processes |-> Idle]
    /\ token = [i \in Ids |-> -1]
    /\ revoked = {}

\* current: what has expired is not there.
Current(state) == [n \in Names |-> IF state[n] > now THEN state[n] ELSE 0]

\* authenticate, resolve and list: a request is admitted by what the file says.
Authenticated(n) == Current(file)[n] # 0

Held(state, among) == {n \in among : state[n] # 0}

\* mutate: it waits for the mutations before it.  The id that create adds is
\* new; a code or an id is used by those who were told it.
Known(op) ==
    /\ op.type = "create" =>
          /\ token[op.id] = -1 /\ file[op.id] = 0
          /\ \A q \in Processes : op \notin {process[q].op} \cup ToSet(process[q].queue)
    /\ op.type # "create" /\ op.id \in Ids => token[op.id] >= 0
    /\ op.id \in Pairs => token[op.id[1]] > 0

Mutate(p, op) ==
    /\ Len(process[p].queue) < MaxQueue
    /\ Known(op)
    /\ process' = [process EXCEPT ![p].queue = Append(@, op)]
    /\ UNCHANGED <<now, file, lock, token, revoked>>

\* The lock file is created, or it exists: CONNECTION_STORE_BUSY.
Begin(p) ==
    /\ process[p].at = "idle" /\ process[p].queue # <<>>
    /\ IF lock = "free"
       THEN /\ lock' = p
            /\ process' = [process EXCEPT ![p] = [at |-> "locked", op |-> Head(@.queue),
                                                  state |-> Empty, queue |-> Tail(@.queue)]]
       ELSE /\ process' = [process EXCEPT ![p].queue = Tail(@)]
            /\ UNCHANGED lock
    /\ UNCHANGED <<now, file, token, revoked>>

\* What the operation makes of the state, by its type; the lifetimes are choices.
Create(state, id, lifetime) == [state EXCEPT ![id] = now + lifetime]
Exchange_Kept(state, id, p, lifetime) == [state EXCEPT ![<<id, p>>] = now + lifetime]
Exchange(state, id, p, lifetime) ==
    [state EXCEPT ![id] = 0, ![<<id, p>>] = now + lifetime]
Revoke(state, id) == [state EXCEPT ![id] = 0]

\* What it may be refused for: the capacity, or a code that no invitation has.
Refused(state, op) ==
    CASE op.type = "create" -> Cardinality(Held(state, Ids)) >= Capacity
      [] op.type = "exchange" -> \/ state[op.id] = 0
                                 \/ Cardinality(Held(state, Pairs)) >= Capacity
      [] OTHER -> FALSE

\* The state is read, and the operation is applied to what has not expired.
Apply(p, lifetime) ==
    LET op == process[p].op
        state == Current(file)
        next == CASE op.type = "create" -> Create(state, op.id, lifetime)
                  [] op.type = "exchange" -> Exchange(state, op.id, p, lifetime)
                  [] OTHER -> Revoke(state, op.id)
    IN
    /\ process[p].at = "locked"
    /\ process' = [process EXCEPT ![p].at = IF Refused(state, op) THEN "refused" ELSE "writing",
                                  ![p].state = IF Refused(state, op) THEN Empty ELSE next]
    /\ UNCHANGED <<now, file, lock, token, revoked>>

\* The temporary file is on disk and renamed, or one of the two fails.
Save(p) ==
    /\ process[p].at = "writing"
    /\ \/ file' = process[p].state /\ process' = [process EXCEPT ![p].at = "saved"]
       \/ file' = file /\ process' = [process EXCEPT ![p].at = "refused"]
    /\ UNCHANGED <<now, lock, token, revoked>>

Idled(p) == [process EXCEPT ![p] = [Idle EXCEPT !.queue = process[p].queue]]

\* The lock file is removed and the caller has its answer: the token of a new
\* connection, or what was revoked.  Nothing catches a lock that cannot be closed or
\* removed: the caller is told of an error then, although its change may be saved,
\* and the lock may stay.
Unlock(p) ==
    LET op == process[p].op IN
    /\ process[p].at \in {"saved", "refused"}
    /\ \/ /\ lock' = "free"
          /\ token' = IF process[p].at = "saved" /\ op.type \in {"create", "exchange"}
                      THEN [token EXCEPT ![op.id] = @ + 1] ELSE token
          /\ revoked' = IF process[p].at = "saved" /\ op.type = "revoke"
                        THEN revoked \cup {op.id} ELSE revoked
       \/ lock' \in {"free", lock} /\ UNCHANGED <<token, revoked>>
    /\ process' = Idled(p)
    /\ UNCHANGED <<now, file>>

\* The process dies and another takes its place: its lock stays.
Crash(p) ==
    /\ process[p] # Idle
    /\ process' = [process EXCEPT ![p] = Idle]
    /\ UNCHANGED <<now, file, lock, token, revoked>>

\* An operator who finds the lock of a process that is gone removes it.
RemoveLock ==
    /\ lock # "free"
    /\ \A p \in Processes : process[p].at = "idle"
    /\ lock' = "free"
    /\ UNCHANGED <<now, file, process, token, revoked>>

Tick ==
    /\ now < MaxTime
    /\ now' = now + 1
    /\ UNCHANGED <<file, lock, process, token, revoked>>

Next ==
    \/ Tick \/ RemoveLock
    \/ \E p \in Processes :
          \/ \E op \in Operations : Mutate(p, op)
          \/ Begin(p) \/ Save(p) \/ Unlock(p) \/ Crash(p)
          \/ \E lifetime \in 1 .. 2 : Apply(p, lifetime)

Spec == Init /\ [][Next]_connectionVars

-----------------------------------------------------------------------------
(* Properties *)

\* Every variable has its type.
TypeOK ==
    /\ file \in [Names -> 0 .. MaxTime + 2]
    /\ lock \in Processes \cup {"free"}
    /\ \A p \in Processes : process[p].at \in {"idle", "locked", "writing", "saved", "refused"}

\* An invitation is good for one connection, whichever processes exchange its code
\* at the same time and wherever one of them dies: nobody is handed a second token,
\* and no two connections of it authenticate a request.
InvitationsAreSingleUse ==
    \A i \in Ids :
       /\ token[i] <= 1
       /\ Cardinality({p \in Processes : Authenticated(<<i, p>>)}) <= 1
       /\ file[i] # 0 => \A p \in Processes : file[<<i, p>>] = 0

\* What a caller was told is revoked never authenticates a request again: no
\* change that was computed from an older state puts it back.
RevokedStaysRevoked ==
    \A n \in revoked : ~Authenticated(n)

=============================================================================
