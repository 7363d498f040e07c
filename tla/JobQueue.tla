------------------------------ MODULE JobQueue ------------------------------
(***************************************************************************)
(* What the JobStore interface promises (job-store.ts): one fenced worker  *)
(* owns the store; an accepted job is started at most once, by the worker; *)
(* ownership that ends interrupts the running jobs and never requeues      *)
(* them; a recorded outcome is final.                                      *)
(***************************************************************************)
CONSTANTS Slots, Owners, NoOwner

VARIABLES phase,    \* the state of each accepted job, "free" before acceptance
          worker    \* the owner, or NoOwner

queueVars == <<phase, worker>>

Outcomes == {"completed", "failed", "cancelled", "interrupted"}

Init ==
    /\ phase = [j \in Slots |-> "free"]
    /\ worker = NoOwner

Interrupted ==
    [j \in Slots |-> IF phase[j] = "running" THEN "interrupted" ELSE phase[j]]

\* The ownership a step works under: the worker's, or none when the step finds
\* that the worker's time is over.  before is the phase of the jobs then.
Under(w, before) ==
    \/ w = worker /\ before = phase
    \/ w = NoOwner /\ before = Interrupted

\* Moves of one job that need no worker: acceptance, and an end before the start.
Move(before, after) ==
    \/ after = before
    \/ \E j \in Slots :
          \/ before[j] = "free" /\ after = [before EXCEPT ![j] = "queued"]
          \/ before[j] = "queued" /\ after = [before EXCEPT ![j] = "cancelled"]

\* Moves that only the worker makes.
Work(before, after) ==
    \E j \in Slots :
       \/ before[j] = "queued" /\ after = [before EXCEPT ![j] = "running"]
       \/ before[j] = "queued" /\ after = [before EXCEPT ![j] = "failed"]
       \/ \E o \in Outcomes :
             before[j] = "running" /\ after = [before EXCEPT ![j] = o]

\* A client's operation, whoever is the worker.
Client ==
    \E before \in {phase, Interrupted} :
       /\ Under(worker', before)
       /\ Move(before, phase')

\* An operation of the worker.
Operate ==
    /\ worker # NoOwner /\ worker' = worker
    /\ Work(phase, phase')

\* A worker takes the store, which is free or whose owner has run out of time,
\* or gives it up.
Take ==
    /\ worker' \in Owners
    /\ phase' = Interrupted

Leave ==
    /\ worker # NoOwner /\ worker' = NoOwner
    /\ phase' = Interrupted

Next == Client \/ Operate \/ Take \/ Leave

Spec == Init /\ [][Next]_queueVars

=============================================================================
