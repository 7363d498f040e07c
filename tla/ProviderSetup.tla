--------------------------- MODULE ProviderSetup ----------------------------
(***************************************************************************)
(* Provider accounts of a host: the sign-in attempts of providerSetup and  *)
(* the configuration they end in (managedHost.configure).                  *)
(*                                                                         *)
(* An attempt signs in with a native process in a new directory of its     *)
(* own; what happens to it (a status request, its timer, the end of the    *)
(* process, a cancel, a connect, the close of the host) waits in the       *)
(* attempt's queue.  A connect configures a provider that names the        *)
(* directory.  The configuration is a file other processes write too; its  *)
(* revision is a digest of its contents, so here it is its contents: what  *)
(* each provider is, "none", "plain" or the attempt whose directory it     *)
(* uses.                                                                   *)
(***************************************************************************)
EXTENDS Integers, SequencesExt, FiniteSetsExt

CONSTANTS
    Attempts,
    Providers,      \* instance ids
    MaxActive,      \* attempts that are not over (4, and 2 of one caller)
    MaxStarts,      \* bounds: starts, and what waits in another queue
    MaxQueue

VARIABLES
    disk, config,   \* the configuration on disk, and the one the host serves
    lock,           \* "free", "host", "other", or "left" when nobody will remove it
    writer,         \* the call of configure that runs, and those that wait
    attempt,        \* per attempt: its entry
    starts,         \* the start that runs, and those that wait
    closed          \* the host shuts down

setupVars == <<disk, config, lock, writer, attempt, starts, closed>>
settings == <<disk, config, lock, writer>>

\* A failed, a cancelled and an expired attempt end alike.
Over == {"succeeded", "ended"}
Configs == [Providers -> {"none", "plain"} \cup Attempts]

\* An entry: its phase, its provider and revision, its process, its directory,
\* its queue, what its running operation waits for, and how it stands: unheard when
\* its provider was saved but its connect failed, since the lock could not be given
\* back, and littered when its directory could not be removed.
NoEntry == [phase |-> "idle", provider |-> CHOOSE p \in Providers : TRUE,
            revision |-> [p \in Providers |-> "none"], native |-> "none", dir |-> FALSE,
            queue |-> <<>>, awaits |-> "nothing", late |-> FALSE, published |-> FALSE,
            verified |-> FALSE, unheard |-> FALSE, littered |-> FALSE]
NoWriter == [at |-> "idle", next |-> [p \in Providers |-> "none"],
             base |-> [p \in Providers |-> "none"], queue |-> <<>>]

Init ==
    /\ disk = [p \in Providers |-> "none"]
    /\ config = disk
    /\ lock = "free"
    /\ writer = NoWriter
    /\ attempt = [a \in Attempts |-> NoEntry]
    /\ starts = <<>>
    /\ closed = FALSE

Entered(a) == attempt[a].phase \notin {"idle", "lost"}
Terminal(a) == attempt[a].phase \in Over
Active == {a \in Attempts : Entered(a) /\ ~Terminal(a)}

-----------------------------------------------------------------------------
(* Starting an attempt *)

Request(a, provider) ==
    /\ ~closed /\ attempt[a].phase = "idle" /\ Len(starts) < MaxStarts
    /\ \A i \in DOMAIN starts : starts[i].attempt # a
    /\ starts' = Append(starts, [attempt |-> a, provider |-> provider,
                                 revision |-> config, at |-> "waiting"])
    /\ UNCHANGED <<settings, attempt, closed>>

\* start: one after the other.  It is refused, or goes on to preflight.
Startable(s) ==
    /\ ~closed
    /\ s.revision = config
    /\ config[s.provider] = "none"
    /\ \A a \in Active : attempt[a].provider # s.provider
    /\ Cardinality(Active) < MaxActive

Check(i) ==
    /\ i = 1 /\ i \in DOMAIN starts /\ starts[i].at = "waiting"
    /\ starts' = IF Startable(starts[i]) THEN [starts EXCEPT ![i].at = "preflight"]
                 ELSE RemoveAt(starts, i)
    /\ UNCHANGED <<settings, attempt, closed>>

\* preflight has read the disk; the directory and the entry are made, and the native
\* process starts; or something of it fails.
Start(i) ==
    /\ i \in DOMAIN starts /\ starts[i].at = "preflight"
    /\ starts' = RemoveAt(starts, i)
    /\ \/ UNCHANGED attempt
       \/ /\ ~closed /\ disk = starts[i].revision /\ config = starts[i].revision
          /\ attempt' = [attempt EXCEPT ![starts[i].attempt] =
                 [NoEntry EXCEPT !.phase = "starting", !.provider = starts[i].provider,
                                 !.revision = starts[i].revision, !.native = "asking",
                                 !.dir = TRUE]]
    /\ UNCHANGED <<settings, closed>>

-----------------------------------------------------------------------------
(* The native process: codexDeviceSignIn *)

Show(entry, phase) == IF entry.phase \in Over THEN entry ELSE [entry EXCEPT !.phase = phase]

\* The login was started: the code is shown.  The login was completed, perhaps
\* before that: the account is read.
Native(a) ==
    /\ attempt[a].native \in {"asking", "waiting"}
    /\ \/ attempt[a].native = "asking"
          /\ attempt' = [attempt EXCEPT ![a] = Show([@ EXCEPT !.native = "waiting"], "waiting")]
       \/ attempt' = [attempt EXCEPT ![a] = Show([@ EXCEPT !.native = "reading"], "verifying")]
    /\ UNCHANGED <<settings, starts, closed>>

\* It ends: the account was verified, or anything else, its abort included.
NativeEnd(a, outcome) ==
    /\ attempt[a].native \in {"asking", "waiting", "reading"}
    /\ outcome = "verified" => attempt[a].native = "reading"
    /\ attempt' = [attempt EXCEPT ![a].native = "ended", ![a].verified = (outcome = "verified"),
                      ![a].queue = IF Terminal(a) THEN @ ELSE Append(@, outcome)]
    /\ UNCHANGED <<settings, starts, closed>>

-----------------------------------------------------------------------------
(* An entry's queue *)

\* finish: the phase and the abort at once; the directory goes when the process
\* has ended.
Finished(entry) ==
    IF entry.phase \in Over THEN entry
    ELSE [entry EXCEPT !.phase = "ended", !.awaits = "native"]

\* current: the time is up, or the configuration has changed.
Currently(entry) ==
    IF entry.late THEN Finished(entry)
    ELSE IF entry.revision # config THEN Finished(entry)
    ELSE entry

Kinds == {"status", "cancel", "connect"}

\* A request of the caller, the timer (until it is cleared), and close.
Enqueue(a, kind) ==
    /\ a \in Active /\ Len(attempt[a].queue) < MaxQueue
    /\ kind \in Kinds /\ ~closed
    /\ attempt' = [attempt EXCEPT ![a].queue = Append(@, kind)]
    /\ UNCHANGED <<settings, starts, closed>>

Expire(a) ==
    /\ a \in Active /\ ~attempt[a].late /\ Len(attempt[a].queue) < MaxQueue
    /\ attempt' = [attempt EXCEPT ![a].late = TRUE, ![a].queue = Append(@, "expire")]
    /\ UNCHANGED <<settings, starts, closed>>

Do(entry, kind) ==
    LET now == Currently(entry) IN
    CASE kind = "verified" -> IF now.phase \in Over THEN now ELSE [now EXCEPT !.phase = "ready"]
      [] kind = "failed" -> Finished(entry)
      [] kind = "expire" -> Finished(entry)
      [] kind = "close" -> Finished(entry)
      [] kind = "status" -> now
      [] kind = "cancel" -> Finished(now)
      [] OTHER -> IF now.phase # "ready" THEN now
                  ELSE [now EXCEPT !.phase = "verifying", !.awaits = "configure"]

\* The next operation of the queue runs, once the one before it is over.  A
\* connect asks configure for a provider with this attempt's directory.
Step(a) ==
    LET kind == Head(attempt[a].queue)
        entry == Do(attempt[a], kind)
    IN
    /\ attempt[a].queue # <<>> /\ attempt[a].awaits = "nothing"
    /\ attempt' = [attempt EXCEPT ![a] = [entry EXCEPT !.queue = Tail(@)]]
    /\ writer' = IF entry.awaits = "configure"
                 THEN [writer EXCEPT !.queue =
                         Append(@, [from |-> a, provider |-> entry.provider, value |-> a,
                                    revision |-> entry.revision])]
                 ELSE writer
    /\ UNCHANGED <<disk, config, lock, starts, closed>>

\* What is left of an entry that is over: what still waits in its queue, or comes
\* to it, changes nothing.
Rest(entry) == [NoEntry EXCEPT !.phase = entry.phase, !.native = entry.native,
                               !.verified = entry.verified, !.published = entry.published,
                               !.unheard = entry.unheard, !.littered = entry.littered,
                               !.dir = entry.published \/ entry.littered]

\* The end of finish: the directory goes, or cannot be removed.
Removed(a) ==
    /\ attempt[a].awaits = "native" /\ attempt[a].native = "ended"
    /\ \E littered \in BOOLEAN :
          attempt' = [attempt EXCEPT ![a] = Rest([@ EXCEPT !.littered = littered])]
    /\ UNCHANGED <<settings, starts, closed>>

\* close: no more starts, and every entry is cancelled in its turn.
Close ==
    /\ ~closed
    /\ closed' = TRUE
    /\ UNCHANGED <<settings, attempt, starts>>
Shut(a) ==
    /\ closed /\ starts = <<>> /\ Entered(a)
    /\ "close" \notin ToSet(attempt[a].queue) /\ ~Terminal(a)
    /\ attempt' = [attempt EXCEPT ![a].queue = Append(@, "close")]
    /\ UNCHANGED <<settings, starts, closed>>

-----------------------------------------------------------------------------
(* The configuration: configure *)

\* The caller of configure has its answer: that the change is saved, or an error,
\* saved or not.
Answered(from, answer) ==
    IF from \notin Attempts THEN attempt
    ELSE [attempt EXCEPT ![from] =
            IF answer = "saved" THEN Rest([@ EXCEPT !.published = TRUE, !.phase = "succeeded"])
            ELSE Finished([@ EXCEPT !.awaits = "nothing", !.unheard = (answer = "unheard")])]

\* The operator's own changes: a provider is added, replaced or removed.
Administer(provider, value) ==
    /\ ~closed /\ Len(writer.queue) < MaxQueue
    /\ writer' = [writer EXCEPT !.queue =
                    Append(@, [from |-> "operator", provider |-> provider,
                               value |-> value, revision |-> config])]
    /\ UNCHANGED <<disk, config, lock, attempt, starts, closed>>

\* One change at a time, under the lock file or not at all.
Lock ==
    LET change == Head(writer.queue) IN
    /\ writer.at = "idle" /\ writer.queue # <<>>
    /\ IF lock = "free"
       THEN lock' = "host" /\ writer' = [writer EXCEPT !.at = "locked"] /\ UNCHANGED attempt
       ELSE /\ writer' = [NoWriter EXCEPT !.queue = Tail(writer.queue)]
            /\ attempt' = Answered(change.from, "failed")
            /\ UNCHANGED lock
    /\ UNCHANGED <<disk, config, starts, closed>>

\* The revisions of the change, the host and the disk must be one.
Agreed_Memory(change) == change.revision = config
Agreed(change) == change.revision = config /\ disk = config

Read ==
    LET change == Head(writer.queue) IN
    /\ writer.at = "locked"
    /\ writer' = IF Agreed(change)
                 THEN [writer EXCEPT !.at = "writing", !.base = disk,
                         !.next = [config EXCEPT ![change.provider] = change.value]]
                 ELSE [writer EXCEPT !.at = "refused"]
    /\ UNCHANGED <<disk, config, lock, attempt, starts, closed>>

\* The new file is renamed over the old one and served at once, or it cannot be.
Save ==
    /\ writer.at = "writing"
    /\ \/ disk' = writer.next /\ config' = writer.next /\ writer' = [writer EXCEPT !.at = "saved"]
       \/ UNCHANGED <<disk, config>> /\ writer' = [writer EXCEPT !.at = "refused"]
    /\ UNCHANGED <<lock, attempt, starts, closed>>

\* finally: the lock file is closed and removed.  When that fails configure throws,
\* also after the rename, and the lock stays.
Unlock ==
    /\ writer.at \in {"saved", "refused"}
    /\ lock' \in {"free", "left"}
    /\ \E answer \in {"saved", "failed", "unheard"} :
          /\ answer = "failed" <=> writer.at = "refused"
          /\ answer = "saved" => lock' = "free"
          /\ answer = "unheard" => lock' = "left"
          /\ attempt' = Answered(Head(writer.queue).from, answer)
    /\ writer' = [NoWriter EXCEPT !.queue = Tail(writer.queue)]
    /\ UNCHANGED <<disk, config, starts, closed>>

\* Another process changes the file under the same lock.
OtherLock ==
    /\ \/ lock = "free" /\ lock' = "other" /\ UNCHANGED disk
       \/ lock = "other" /\ lock' = "free"
          /\ \E p \in Providers : \E v \in {"none", "plain"} : disk' = [disk EXCEPT ![p] = v]
    /\ UNCHANGED <<config, writer, attempt, starts, closed>>

\* The host dies and starts again: the entries are gone, the directories and the
\* lock are not.  An operator removes a lock that stays.
Restart ==
    /\ config' = disk
    /\ lock' = IF lock = "host" THEN "left" ELSE lock
    /\ writer' = NoWriter
    /\ attempt' = [a \in Attempts |->
                      IF attempt[a].phase = "idle" THEN NoEntry
                      ELSE [NoEntry EXCEPT !.phase = "lost", !.dir = attempt[a].dir,
                                           !.verified = attempt[a].verified,
                                           !.unheard = attempt[a].unheard]]
    /\ starts' = <<>>
    /\ closed' = FALSE
    /\ UNCHANGED disk
RemoveLock == lock = "left" /\ lock' = "free"
              /\ UNCHANGED <<disk, config, writer, attempt, starts, closed>>

Next ==
    \/ Lock \/ Read \/ Save \/ Unlock \/ OtherLock \/ Restart \/ RemoveLock \/ Close
    \/ \E p \in Providers : \E v \in {"none", "plain"} : Administer(p, v)
    \/ \E i \in 1 .. MaxStarts : Check(i) \/ Start(i)
    \/ \E a \in Attempts :
          \/ \E p \in Providers : Request(a, p)
          \/ \E kind \in Kinds : Enqueue(a, kind)
          \/ \E outcome \in {"verified", "failed"} : NativeEnd(a, outcome)
          \/ Native(a) \/ Expire(a) \/ Step(a) \/ Removed(a) \/ Shut(a)

Spec == Init /\ [][Next]_setupVars

-----------------------------------------------------------------------------
(* Properties *)

\* Every variable has its type.
TypeOK ==
    /\ disk \in Configs /\ config \in Configs
    /\ lock \in {"free", "host", "other", "left"}
    /\ \A a \in Attempts : attempt[a].phase \in Over \cup
          {"idle", "lost", "starting", "waiting", "verifying", "ready"}

\* A provider that is configured with the account of an attempt has an account: it was
\* verified and its directory is there, whatever happened to the attempt meanwhile (its
\* timer, a cancel, a close, a change of the configuration, a restart).  The directory
\* may only be missing when the connect failed after its provider was saved, because
\* the lock could not be given back: then the code removes a directory that is in use.
AccountsAreKept ==
    \A p \in Providers :
       disk[p] \in Attempts =>
          LET entry == attempt[disk[p]] IN entry.verified /\ (entry.dir \/ entry.unheard)

\* An attempt that is over without an account leaves nothing but what could not be
\* removed: its process has ended and its directory is gone once its operation is over;
\* and there are never more attempts than the host allows.
NothingIsLeft ==
    /\ \A a \in Attempts : Terminal(a) /\ attempt[a].awaits = "nothing" =>
          /\ attempt[a].native = "ended"
          /\ attempt[a].dir = (attempt[a].published \/ attempt[a].littered)
    /\ Cardinality(Active) <= MaxActive

\* A change of the configuration is computed from what is on disk: it never undoes
\* the change of another process.
NoChangeIsLost == writer.at = "writing" => writer.base = disk /\ config = disk

=============================================================================
