---------------------------- MODULE HostContext ----------------------------
(***************************************************************************)
(* Context of a run: the host's MemoryContextStore and resolveContext.     *)
(*                                                                         *)
(* A run names its inputs, inline or by reference.  References are         *)
(* resolved one after the other, by the store (at once) or by the          *)
(* application (which may answer late, after the run is gone, and whose    *)
(* leases must be given back).  The store forgets an entry when it         *)
(* expires.  A content is a number; its bytes are the content itself.      *)
(***************************************************************************)
EXTENDS Integers, Sequences, FiniteSetsExt

CONSTANTS
    Runs,
    Ids,            \* sources in the store
    Subjects,       \* subjects the application stores for; "stranger" is another
    Contents,       \* positive numbers
    Selections,     \* what runs select: sequences of inputs, see Inputs
    MaxTime,        \* bound on the clock
    MaxRevision,    \* bound: revisions of a source
    MaxEntries,     \* the store's limits
    MaxBytes,
    Budget          \* policy.maxBytes of a run

VARIABLES
    now,
    entries,        \* MemoryContextStore.entries
    timer,          \* when expiryTimer fires; 0: none
    run,            \* every call of resolveContext and the run around it
    lease           \* per run and input: what became of the application's lease

contextVars == <<now, entries, timer, run, lease>>
store == <<entries, timer>>

Times == 1 .. MaxTime + 1
Entry == [revision : 1 .. MaxRevision, content : Contents,
          subjects : (SUBSET Subjects) \ {{}}, expires : Times]
NoEntry == [revision |-> 0, content |-> 0, subjects |-> {}, expires |-> 0]

\* An input: inline content, or a reference to a revision, in the store or not.
Inputs == [type : {"inline"}, content : Contents]
          \cup [type : {"store"}, id : Ids, revision : 1 .. MaxRevision]
          \cup [type : {"application"}]

MaxInputs == Max({Len(inputs) : inputs \in Selections})

Fresh == [at |-> "idle", subject |-> "none", inputs |-> <<>>, next |-> 1,
          total |-> 0, closed |-> FALSE, aborted |-> FALSE, found |-> 0, expires |-> 0]

\* A lease: not asked for, asked for, in hand, given back, or given back twice.
NoLease == [i \in 1 .. MaxInputs |-> "none"]

Init ==
    /\ now = 1
    /\ entries = [id \in Ids |-> NoEntry]
    /\ timer = 0
    /\ run = [r \in Runs |-> Fresh]
    /\ lease = [r \in Runs |-> NoLease]

-----------------------------------------------------------------------------
(* The store *)

Present(e) == {id \in Ids : e[id] # NoEntry}

\* purge.
Purged == [id \in Ids |-> IF entries[id].expires <= now THEN NoEntry ELSE entries[id]]

\* schedule: one timer, for the entry that expires first, at least 1 ms away.
Schedule_Once(e) == IF timer # 0 THEN timer
                    ELSE IF Present(e) = {} THEN 0
                    ELSE Max({now + 1, Min({e[id].expires : id \in Present(e)})})
Schedule(e) == IF Present(e) = {} THEN 0
               ELSE Max({now + 1, Min({e[id].expires : id \in Present(e)})})

Bytes(e) == MapThenSumSet(LAMBDA id : e[id].content, Ids)

\* The limits of put: the entry it replaces is not counted.
Room(kept, id, entry) ==
    /\ Cardinality(Present(kept)) < MaxEntries \/ kept[id] # NoEntry
    /\ Bytes([kept EXCEPT ![id] = entry]) <= MaxBytes

\* put: expired entries go even when it throws, the timer is set only when it
\* does not.  A revision has one content.
Put(id, entry) ==
    LET kept == Purged
        stored == /\ entry.expires > now
                  /\ kept[id].revision = entry.revision => kept[id].content = entry.content
                  /\ Room(kept, id, entry)
        after == IF stored THEN [kept EXCEPT ![id] = entry] ELSE kept
    IN
    /\ entries' = after
    /\ timer' = IF stored THEN Schedule(after) ELSE timer
    /\ UNCHANGED <<now, run, lease>>

\* delete, and clear.
Forget(gone) ==
    /\ entries' = [id \in Ids |-> IF id \in gone THEN NoEntry ELSE entries[id]]
    /\ timer' = Schedule(entries')
    /\ UNCHANGED <<now, run, lease>>

Fire ==
    /\ timer # 0 /\ timer <= now
    /\ entries' = Purged
    /\ timer' = Schedule(entries')
    /\ UNCHANGED <<now, run, lease>>

\* A timer that is due fires before the clock goes on.
Tick ==
    /\ now < MaxTime
    /\ timer # 0 => timer > now
    /\ now' = now + 1
    /\ UNCHANGED <<store, run, lease>>

-----------------------------------------------------------------------------
(* Runs *)

Input(r) == run[r].inputs[run[r].next]

\* releaseOne of every lease in hand.
Released(of) == [i \in 1 .. MaxInputs |->
                    CASE of[i] = "held" -> "released"
                      [] of[i] = "released" -> "released"
                      [] OTHER -> of[i]]

\* release: closed first, then every lease that was pushed so far.
Release(r) ==
    /\ run' = [run EXCEPT ![r] = [Fresh EXCEPT !.at = "ended", !.closed = TRUE]]
    /\ lease' = [lease EXCEPT ![r] = Released(@)]

Start(r, subject, inputs) ==
    /\ run[r].at = "idle"
    /\ run' = [run EXCEPT ![r] = [Fresh EXCEPT !.at = "resolving", !.subject = subject,
                                               !.inputs = inputs]]
    /\ UNCHANGED <<now, store, lease>>

\* The next input.  The store answers at once: MemoryContextStore.resolve purges
\* and throws for an entry of another subject or revision.
Resolve(r) ==
    LET input == Input(r)
        entry == IF input.type = "store" THEN Purged[input.id] ELSE NoEntry
        Has(content, expires) ==
            /\ run' = [run EXCEPT ![r].at = "checking", ![r].found = content,
                                  ![r].expires = expires]
            /\ UNCHANGED lease
    IN
    /\ run[r].at = "resolving" /\ run[r].next <= Len(run[r].inputs)
    /\ CASE run[r].aborted -> Release(r) /\ UNCHANGED entries
         [] ~run[r].aborted /\ input.type = "inline" ->
               Has(input.content, 0) /\ UNCHANGED entries
         [] ~run[r].aborted /\ input.type = "store" ->
               /\ entries' = Purged
               /\ IF run[r].subject \in entry.subjects /\ entry.revision = input.revision
                  THEN Has(entry.content, entry.expires) ELSE Release(r)
         [] OTHER ->
               /\ run' = [run EXCEPT ![r].at = "waiting"]
               /\ lease' = [lease EXCEPT ![r][run[r].next] = "asked"]
               /\ UNCHANGED entries
    /\ UNCHANGED <<now, timer>>

\* The application's resolver answers, however late: a run that was closed gives
\* the lease back at once.
Answer(r, i, content, expires) ==
    /\ lease[r][i] = "asked"
    /\ lease' = [lease EXCEPT ![r][i] = IF run[r].closed THEN "released" ELSE "held"]
    /\ run' = IF run[r].at = "waiting" /\ run[r].next = i
              THEN [run EXCEPT ![r].at = "checking", ![r].found = content,
                               ![r].expires = expires]
              ELSE run
    /\ UNCHANGED <<now, store>>

\* It throws: there is no lease, and a run that waits for it fails.
Refuse(r, i) ==
    /\ lease[r][i] = "asked"
    /\ IF run[r].at = "waiting" /\ run[r].next = i
       THEN /\ run' = [run EXCEPT ![r] = [Fresh EXCEPT !.at = "ended", !.closed = TRUE]]
            /\ lease' = [lease EXCEPT ![r] = [Released(@) EXCEPT ![i] = "none"]]
       ELSE run' = run /\ lease' = [lease EXCEPT ![r][i] = "none"]
    /\ UNCHANGED <<now, store>>

\* The rest of the loop: the signal, the expiry and the budget.
Check(r) ==
    /\ run[r].at = "checking"
    /\ IF \/ run[r].aborted
          \/ run[r].expires # 0 /\ run[r].expires <= now
          \/ run[r].total + run[r].found > Budget
       THEN Release(r)
       ELSE /\ run' = [run EXCEPT ![r].at = "resolving", ![r].next = @ + 1,
                                  ![r].total = @ + run[r].found]
            /\ UNCHANGED lease
    /\ UNCHANGED <<now, store>>

\* Every input is resolved: the run goes on with its leases, and gives them back
\* in the end, however it ends.
Resolved(r) ==
    /\ run[r].at = "resolving" /\ run[r].next > Len(run[r].inputs)
    /\ run' = [run EXCEPT ![r].at = "running"]
    /\ UNCHANGED <<now, store, lease>>

Finish(r) ==
    /\ run[r].at = "running"
    /\ Release(r)
    /\ UNCHANGED <<now, store>>

\* The signal: a run that waits leaves at once.
Abort(r) ==
    /\ run[r].at \in {"resolving", "waiting", "checking"} /\ ~run[r].aborted
    /\ IF run[r].at = "waiting" THEN Release(r)
       ELSE run' = [run EXCEPT ![r].aborted = TRUE] /\ UNCHANGED lease
    /\ UNCHANGED <<now, store>>

Next ==
    \/ Tick \/ Fire
    \/ \E id \in Ids : \E entry \in Entry : Put(id, entry)
    \/ \E gone \in SUBSET Ids : Forget(gone)
    \/ \E r \in Runs :
          \/ \E subject \in Subjects \cup {"stranger"} : \E inputs \in Selections :
                Start(r, subject, inputs)
          \/ Resolve(r) \/ Check(r) \/ Resolved(r) \/ Finish(r) \/ Abort(r)
          \/ \E i \in 1 .. MaxInputs :
                \/ \E content \in Contents : \E expires \in {0} \cup Times :
                      Answer(r, i, content, expires)
                \/ Refuse(r, i)

Spec == Init /\ [][Next]_contextVars

-----------------------------------------------------------------------------
(* Properties *)

\* Every variable has its type.
TypeOK ==
    /\ Selections \subseteq Seq(Inputs)
    /\ now \in 1 .. MaxTime
    /\ entries \in [Ids -> Entry \cup {NoEntry}]
    /\ timer \in 0 .. MaxTime + 1
    /\ \A r \in Runs : run[r].at \in {"idle", "resolving", "waiting", "checking", "running", "ended"}

\* A lease is given back when its run has ended, and not before: also a lease that
\* arrives after the run was aborted, and the leases of the inputs before the one
\* that failed.
LeasesReturned ==
    \A r \in Runs : \A i \in 1 .. MaxInputs :
       /\ run[r].at = "ended" => lease[r][i] # "held"
       /\ lease[r][i] = "released" => run[r].at = "ended"

\* The store forgets content when it was told to, and keeps its limits: whatever was
\* put, replaced or deleted, in whatever order, a timer is set that fires when the first
\* entry expires, or within a millisecond if one has.
StoreForgets ==
    /\ \A id \in Present(entries) :
          timer # 0 /\ timer <= Max({entries[id].expires, now + 1})
    /\ Cardinality(Present(entries)) <= MaxEntries /\ Bytes(entries) <= MaxBytes

=============================================================================
