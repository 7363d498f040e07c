------------------------------ MODULE Runtimes ------------------------------
(***************************************************************************)
(* The installation of a managed runtime (providerRuntimes).               *)
(*                                                                         *)
(* Host processes share one directory.  An install downloads an archive    *)
(* into a stage of its own, extracts and verifies it and renames the stage *)
(* to the target; a lock file is held meanwhile.  It runs behind the       *)
(* requests, which are served one at a time; a status request does not     *)
(* wait.  A process may die at any point.                                  *)
(***************************************************************************)
EXTENDS Integers, Sequences, FiniteSets

CONSTANTS
    Processes,
    Callers,
    MaxQueue        \* bound: requests that wait

VARIABLES
    target,         \* the directory of the runtime: "none", "whole", or "damaged"
    lock,           \* who made .install-lock, "left" when nobody will remove it, or "free"
    host            \* per process: its attempt, its requests

runtimeVars == <<target, lock, host>>

Phases == {"none", "downloading", "verifying", "installed", "cancelled", "failed"}

\* The attempt: its phase, owner, abort signal, and whether its work is over; what
\* is in its stage, which is "moving" while it is renamed and "kept" when it cannot be
\* removed; the request that is served and those that wait; and whether a cancel or a
\* close was told that the attempt is over.  A caller or a signal that is not asked
\* for again is forgotten.
Nobody == "nobody"
Fresh == [phase |-> "none", owner |-> Nobody, aborted |-> FALSE,
          working |-> FALSE, stage |-> "none", serving |-> "nothing", by |-> Nobody,
          queue |-> <<>>, closed |-> FALSE, told |-> FALSE]

Init ==
    /\ target = "none"
    /\ lock = "free"
    /\ host = [p \in Processes |-> Fresh]

Active(h) == h.phase \in {"downloading", "verifying"}

\* install and cancel wait for each other.
Request(p, action, caller) ==
    /\ ~host[p].closed /\ Len(host[p].queue) < MaxQueue
    /\ host' = [host EXCEPT ![p].queue = Append(@, [action |-> action, by |-> caller])]
    /\ UNCHANGED <<target, lock>>

\* The next request: an install when none is active, or a cancel of its owner's
\* attempt.  Anything else is refused, or answered with a view.
Serve(p) ==
    LET h == host[p]
        next == Head(h.queue)
        rest == [h EXCEPT !.queue = Tail(@)]
    IN
    /\ h.serving = "nothing" /\ h.queue # <<>>
    /\ host' = [host EXCEPT ![p] =
         CASE next.action = "install" /\ ~h.closed /\ ~Active(h) ->
                 [rest EXCEPT !.serving = "settling", !.by = next.by]
           [] next.action = "cancel" /\ h.owner = next.by /\ Active(h) ->
                 [rest EXCEPT !.serving = "cancelling", !.aborted = TRUE]
           [] OTHER -> rest]
    /\ UNCHANGED <<target, lock>>

Served(p) == [host EXCEPT ![p].serving = "nothing", ![p].by = Nobody]

\* The cleanup of the attempt before is over.  A runtime that is there, whole or
\* damaged, or a full disk, ends the request.
Settled(p) ==
    /\ host[p].serving = "settling" /\ ~host[p].working
    /\ \/ target = "none" /\ host' = [host EXCEPT ![p].serving = "locking"]
       \/ host' = Served(p)
    /\ UNCHANGED <<target, lock>>

\* The lock and the stage are made, the attempt begins and the request is over.  Without
\* a stage the lock goes again, or cannot be removed.
Begin(p) ==
    /\ host[p].serving = "locking"
    /\ \/ lock # "free" /\ host' = Served(p) /\ UNCHANGED lock
       \/ lock = "free" /\ host' = Served(p) /\ lock' \in {"free", "left"}
       \/ /\ lock = "free" /\ lock' = p
          /\ host' = [host EXCEPT ![p] = [@ EXCEPT !.serving = "nothing", !.phase = "downloading",
                        !.owner = host[p].by, !.by = Nobody, !.aborted = FALSE, !.working = TRUE,
                        !.stage = "empty", !.told = FALSE]]
    /\ UNCHANGED target

\* A cancel is answered when the work it aborted is over.
Cancelled_AtOnce(p) ==
    /\ host[p].serving = "cancelling"
    /\ host' = [host EXCEPT ![p].serving = "nothing", ![p].told = TRUE]
    /\ UNCHANGED <<target, lock>>
Cancelled(p) ==
    /\ host[p].serving = "cancelling" /\ ~host[p].working
    /\ host' = [host EXCEPT ![p].serving = "nothing", ![p].told = TRUE]
    /\ UNCHANGED <<target, lock>>

-----------------------------------------------------------------------------
(* The work *)

\* An archive of the right length and digest, or any other; redirects are
\* followed to known hosts only.
Download(p, archive) ==
    /\ host[p].phase = "downloading" /\ ~host[p].aborted
    /\ host' = [host EXCEPT ![p].stage = archive,
                            ![p].phase = IF archive = "archive" THEN "verifying" ELSE "failed"]
    /\ UNCHANGED <<target, lock>>

\* The binary is extracted, then its bytes, digest and version are checked.
Extract(p) ==
    /\ host[p].phase = "verifying" /\ host[p].stage = "archive" /\ ~host[p].aborted
    /\ host' = [host EXCEPT ![p].stage = "extracted"]
    /\ UNCHANGED <<target, lock>>

Verify(p, good) ==
    /\ host[p].phase = "verifying" /\ host[p].stage = "extracted" /\ ~host[p].aborted
    /\ host' = IF good THEN [host EXCEPT ![p].stage = "whole"]
               ELSE [host EXCEPT ![p].phase = "failed", ![p].stage = "bad"]
    /\ UNCHANGED <<target, lock>>

\* The last look at the signal.  The rename comes after it, and takes its time: an
\* abort that comes meanwhile is too late.
Check(p) ==
    /\ host[p].phase = "verifying" /\ host[p].stage = "whole" /\ ~host[p].aborted
    /\ host' = [host EXCEPT ![p].stage = "moving"]
    /\ UNCHANGED <<target, lock>>

\* A rename onto a directory that is not empty fails, as any step may: Stop.
Publish(p) ==
    /\ host[p].phase = "verifying" /\ host[p].stage = "moving" /\ target = "none"
    /\ target' = "whole"
    /\ host' = [host EXCEPT ![p].phase = "installed", ![p].stage = "none"]
    /\ UNCHANGED lock

\* The signal, or an error of any step.
Stop(p) ==
    /\ Active(host[p])
    /\ host' = [host EXCEPT ![p].phase = IF host[p].aborted THEN "cancelled" ELSE "failed"]
    /\ UNCHANGED <<target, lock>>

\* finally: the stage goes, then the lock, each or neither; an attempt that has not
\* installed has failed when anything of it stays (or its file could not be closed).
Clean(p) ==
    /\ host[p].working /\ ~Active(host[p]) /\ host[p].stage \notin {"none", "kept"}
    /\ \E stage \in {"none", "kept"} : host' = [host EXCEPT ![p].stage = stage]
    /\ UNCHANGED <<target, lock>>

Unlock(p) ==
    /\ host[p].working /\ ~Active(host[p]) /\ host[p].stage \in {"none", "kept"}
    /\ lock' \in {"free", "left"}
    /\ \E clean \in BOOLEAN :
          /\ clean => host[p].stage = "none" /\ lock' = "free"
          /\ host' = [host EXCEPT ![p] = [@ EXCEPT !.working = FALSE, !.owner = Nobody, !.aborted = FALSE,
                        !.phase = IF host[p].phase = "installed" \/ clean THEN host[p].phase ELSE "failed"]]
    /\ UNCHANGED target

\* close: it waits for the queue, aborts the attempt and waits for its work.
Close(p) ==
    /\ ~host[p].closed
    /\ host' = [host EXCEPT ![p].closed = TRUE]
    /\ UNCHANGED <<target, lock>>
CloseAttempt(p) ==
    /\ host[p].closed /\ host[p].queue = <<>> /\ host[p].serving = "nothing"
    /\ Active(host[p]) /\ ~host[p].aborted
    /\ host' = [host EXCEPT ![p].aborted = TRUE]
    /\ UNCHANGED <<target, lock>>
Closed(p) ==
    /\ host[p].closed /\ host[p].queue = <<>> /\ host[p].serving = "nothing"
    /\ ~host[p].working
    /\ host' = [host EXCEPT ![p].told = TRUE]
    /\ UNCHANGED <<target, lock>>

\* The process dies and starts again; its stage is garbage.  A lock that stays, of a
\* dead process or of one that could not remove it, is removed by an operator.
Restart(p) ==
    /\ host' = [host EXCEPT ![p] = Fresh]
    /\ lock' = IF lock = p THEN "left" ELSE lock
    /\ UNCHANGED target
RemoveLock == lock = "left" /\ lock' = "free" /\ UNCHANGED <<target, host>>

\* What installed finds, on every view: the bytes have changed behind the host.
Damage == target = "whole" /\ target' = "damaged" /\ UNCHANGED <<lock, host>>

Next ==
    \/ RemoveLock \/ Damage
    \/ \E p \in Processes :
          \/ \E action \in {"install", "cancel"} : \E c \in Callers : Request(p, action, c)
          \/ Serve(p) \/ Settled(p) \/ Begin(p) \/ Cancelled(p)
          \/ \E archive \in {"archive", "short"} : Download(p, archive)
          \/ Extract(p) \/ \E good \in BOOLEAN : Verify(p, good)
          \/ Check(p) \/ Publish(p) \/ Stop(p) \/ Clean(p) \/ Unlock(p)
          \/ Close(p) \/ CloseAttempt(p) \/ Closed(p) \/ Restart(p)

Spec == Init /\ [][Next]_runtimeVars

-----------------------------------------------------------------------------
(* Properties *)

\* Every variable has its type.
TypeOK ==
    /\ target \in {"none", "whole", "damaged"}
    /\ lock \in Processes \cup {"free", "left"}
    /\ \A p \in Processes : host[p].phase \in Phases

\* One process works at a time: nothing of an attempt goes on, and nothing is in its
\* stage, without its process holding the lock.  Once a cancel or a close is answered
\* the attempt is over, and a stage that is left behind is owned up to as a failure.
InstallsAreExclusive ==
    \A p \in Processes :
       /\ host[p].working => lock = p
       /\ Active(host[p]) \/ host[p].stage \notin {"none", "kept"} => host[p].working
       /\ host[p].told => ~host[p].working
       /\ ~host[p].working /\ host[p].stage = "kept" => host[p].phase = "failed"

\* A runtime that is there is never replaced, and a damaged one is left to the operator:
\* the target is only made, whole, by the process that holds the lock.  An attempt that
\* was aborted before its last look at the signal is not published; one that is aborted
\* during the rename may be.
NeverOverwritten ==
    /\ [][\/ UNCHANGED target
          \/ target = "whole" /\ target' = "damaged"
          \/ /\ target = "none" /\ target' = "whole"
             /\ \E p \in Processes :
                   host[p].stage = "moving" /\ host[p].working /\ lock = p]_runtimeVars
    /\ [][\A p \in Processes :
             host[p].aborted /\ host[p].stage # "moving" => host'[p].stage # "moving"]_runtimeVars

=============================================================================
