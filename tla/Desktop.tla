-------------------------------- MODULE Desktop --------------------------------
(***************************************************************************)
(* The desktop application's worker: its private profile on disk, the host *)
(* it runs, and the SSH tunnel that leads to that host.  What changes      *)
(* something runs one at a time; checks of a connection run beside it.     *)
(* The worker may crash at any moment and be started again.                *)
(***************************************************************************)
EXTENDS Integers, FiniteSets

CONSTANTS
    Hosts,        \* remote hosts the user is paired with
    MaxNames      \* bound: the files that are ever created

VARIABLES
    desk,         \* the worker, and its lock on the profile
    disk,         \* settings.json and the files beside it
    names,        \* how many file names were drawn
    server,       \* the local host: is it up, and is a paired request active
    op,           \* the operation in progress, one at a time
    check,        \* a check in progress, and the results that are shown
    tunnel        \* the tunnel as the worker sees it, and its supervisor

desktopVars == <<desk, disk, names, server, op, check, tunnel>>

\* settings: the profile file of each host and the token of the usage service, 0 for
\* none; files: the names in use.
EmptyDisk == [hosts |-> [h \in Hosts |-> 0], usage |-> 0, files |-> {}]
NoOp == [kind |-> "none", step |-> 0, host |-> CHOOSE h \in Hosts : TRUE, name |-> 0,
         interrupt |-> FALSE]
NoCheck == [host |-> CHOOSE h \in Hosts : TRUE, name |-> 0, shown |-> [h \in Hosts |-> 0]]
\* supervisor: the detached process that owns the ssh processes.
NoTunnel == [status |-> "stopped", supervisor |-> "none", ssh |-> FALSE]
NoServer == [up |-> FALSE, active |-> FALSE]

Init ==
    /\ desk = [at |-> "down", lock |-> FALSE]
    /\ disk = EmptyDisk /\ names = 0
    /\ server = NoServer /\ op = NoOp /\ check = NoCheck /\ tunnel = NoTunnel

Up == desk.at \in {"up", "closing"}
Idle == Up /\ op.kind = "none"
Go(kind) == op' = [NoOp EXCEPT !.kind = kind, !.step = 1]
Advance == op' = [op EXCEPT !.step = 2]
Done == op' = NoOp
In(kind, step) == Up /\ op.kind = kind /\ op.step = step

-----------------------------------------------------------------------------
(* The worker *)

\* A lock whose owner is gone is taken over.
Launch ==
    /\ desk.at = "down"
    /\ desk' = [at |-> "up", lock |-> TRUE]
    /\ UNCHANGED <<disk, names, server, op, check, tunnel>>

\* The supervisor notices that its channel is closed.
Orphaned(t) == [t EXCEPT !.status = "stopped",
                         !.supervisor = IF @ = "none" THEN @ ELSE "ending"]
Crash ==
    /\ Up
    /\ desk' = [desk EXCEPT !.at = "down"]
    /\ server' = NoServer /\ op' = NoOp /\ check' = NoCheck
    /\ tunnel' = Orphaned(tunnel)
    /\ UNCHANGED <<disk, names>>

\* close: no new operation is taken; the ones before it finish, then the host stops.
Close(interrupt) ==
    /\ Idle /\ desk.at = "up"
    /\ desk' = [desk EXCEPT !.at = "closing"]
    /\ op' = [NoOp EXCEPT !.kind = "stop", !.step = 1, !.interrupt = interrupt]
    /\ UNCHANGED <<disk, names, server, check, tunnel>>
Closed ==
    /\ Idle /\ desk.at = "closing"
    /\ desk' = IF server.up THEN [desk EXCEPT !.at = "up"] ELSE [at |-> "down", lock |-> FALSE]
    /\ check' = IF server.up THEN check ELSE NoCheck
    /\ UNCHANGED <<disk, names, server, op, tunnel>>

-----------------------------------------------------------------------------
(* The local host *)

StartHost ==
    /\ Idle /\ desk.at = "up" /\ ~server.up
    /\ server' = [server EXCEPT !.up = TRUE]
    /\ UNCHANGED <<desk, disk, names, op, check, tunnel>>
Request ==
    /\ server.up /\ ~server.active
    /\ server' = [server EXCEPT !.active = TRUE]
    /\ UNCHANGED <<desk, disk, names, op, check, tunnel>>
Respond ==
    /\ server.active
    /\ server' = [server EXCEPT !.active = FALSE]
    /\ UNCHANGED <<desk, disk, names, op, check, tunnel>>

Stop(interrupt) ==
    /\ Idle /\ desk.at = "up" /\ server.up
    /\ op' = [NoOp EXCEPT !.kind = "stop", !.step = 1, !.interrupt = interrupt]
    /\ UNCHANGED <<desk, disk, names, server, check, tunnel>>

\* The tunnel is told to stop.
Stopping(t) == [t EXCEPT !.supervisor = IF @ = "none" THEN @ ELSE "ending"]

\* A host with active requests is not stopped unless it is to be interrupted; then
\* the tunnels are closed, then the host.
StopChecked ==
    /\ In("stop", 1)
    /\ IF server.active /\ ~op.interrupt THEN Done /\ UNCHANGED tunnel
       ELSE Advance /\ tunnel' = Stopping(tunnel)
    /\ UNCHANGED <<desk, disk, names, server, check>>
Stopped ==
    /\ In("stop", 2) /\ tunnel.supervisor = "none"
    /\ server' = NoServer
    /\ tunnel' = [tunnel EXCEPT !.status = "stopped"]
    /\ Done
    /\ UNCHANGED <<desk, disk, names, check>>

-----------------------------------------------------------------------------
(* Connections to remote hosts *)

\* connect and reconnect: the invitation is exchanged for a profile in a new file,
\* then the settings refer to it; the old file stays for those who read it.
Connect(h) ==
    /\ Idle /\ desk.at = "up" /\ names < MaxNames
    /\ names' = names + 1
    /\ op' = [NoOp EXCEPT !.kind = "connect", !.step = 1, !.host = h, !.name = names + 1]
    /\ UNCHANGED <<desk, disk, server, check, tunnel>>
Exchanged ==
    /\ In("connect", 1)
    /\ \/ disk' = [disk EXCEPT !.files = @ \cup {op.name}] /\ Advance
       \/ Done /\ UNCHANGED disk
    /\ UNCHANGED <<desk, names, server, check, tunnel>>
Paired ==
    /\ In("connect", 2)
    /\ \/ /\ disk' = [disk EXCEPT !.hosts[op.host] = op.name]
          /\ check' = [check EXCEPT !.shown[op.host] = 0]
       \/ UNCHANGED <<disk, check>>
    /\ Done
    /\ UNCHANGED <<desk, names, server, tunnel>>

Forget(h) ==
    /\ Idle /\ desk.at = "up" /\ disk.hosts[h] # 0
    /\ op' = [NoOp EXCEPT !.kind = "forget", !.step = 1, !.host = h, !.name = disk.hosts[h]]
    /\ UNCHANGED <<desk, disk, names, server, check, tunnel>>
Forgotten_FilesFirst ==
    /\ \/ /\ In("forget", 1) /\ Advance
          /\ disk' = [disk EXCEPT !.files = @ \ {op.name}]
          /\ UNCHANGED check
       \/ /\ In("forget", 2) /\ Done
          /\ disk' = [disk EXCEPT !.hosts[op.host] = 0]
          /\ check' = [check EXCEPT !.shown[op.host] = 0]
    /\ UNCHANGED <<desk, names, server, tunnel>>
\* The settings forget the host first, if they can be saved, then its files are
\* removed, if they can be.
Forgotten ==
    /\ \/ /\ In("forget", 1) /\ Advance
          /\ disk' = [disk EXCEPT !.hosts[op.host] = 0]
          /\ check' = [check EXCEPT !.shown[op.host] = 0]
       \/ /\ In("forget", 2) /\ Done
          /\ disk' = [disk EXCEPT !.files = @ \ {op.name}]
          /\ UNCHANGED check
       \/ /\ op.kind = "forget" /\ Up /\ Done
          /\ UNCHANGED <<disk, check>>
    /\ UNCHANGED <<desk, names, server, tunnel>>

\* A check reads the credential now and applies its result later, unless the
\* credential was replaced or forgotten meanwhile.
CheckHost(h) ==
    /\ desk.at = "up" /\ check.name = 0 /\ disk.hosts[h] # 0
    /\ check' = [check EXCEPT !.host = h, !.name = disk.hosts[h]]
    /\ UNCHANGED <<desk, disk, names, server, op, tunnel>>
Checked ==
    /\ Up /\ check.name # 0
    /\ check' = [check EXCEPT !.name = 0,
                   !.shown[check.host] = IF disk.hosts[check.host] = check.name
                                         THEN check.name ELSE @]
    /\ UNCHANGED <<desk, disk, names, server, op, tunnel>>

\* usage-settings: a new token is written, or the token is cleared; the settings are
\* saved, then the old token is removed; the new one is removed if they cannot be
\* saved.  A request that keeps the token changes nothing of this.
UsageSettings ==
    /\ Idle /\ desk.at = "up"
    /\ \/ /\ names < MaxNames
          /\ names' = names + 1
          /\ op' = [NoOp EXCEPT !.kind = "usage", !.step = 1, !.name = names + 1]
          /\ disk' = [disk EXCEPT !.files = @ \cup {names + 1}]
       \/ /\ disk.usage # 0
          /\ op' = [NoOp EXCEPT !.kind = "usage", !.step = 1]
          /\ UNCHANGED <<disk, names>>
    /\ UNCHANGED <<desk, server, check, tunnel>>
UsageSaved ==
    /\ In("usage", 1)
    /\ \/ /\ disk' = [disk EXCEPT !.usage = op.name]
          /\ op' = [op EXCEPT !.step = 2, !.name = disk.usage]
       \/ /\ disk' \in {disk, [disk EXCEPT !.files = @ \ {op.name}]}
          /\ Done
    /\ UNCHANGED <<desk, names, server, check, tunnel>>
UsageCleared ==
    /\ In("usage", 2)
    /\ disk' \in {disk, [disk EXCEPT !.files = @ \ {op.name}]}
    /\ Done
    /\ UNCHANGED <<desk, names, server, check, tunnel>>

-----------------------------------------------------------------------------
(* The tunnel *)

\* A failed session is stopped before another is launched.
StartTunnel ==
    /\ Idle /\ desk.at = "up" /\ server.up /\ tunnel.status # "running"
    /\ tunnel.supervisor = "none"
    /\ tunnel' = [tunnel EXCEPT !.status = "starting", !.supervisor = "starting"]
    /\ Go("tunnel")
    /\ UNCHANGED <<desk, disk, names, server, check>>

\* The supervisor starts ssh and has it forward the port, or fails.
Master ==
    /\ tunnel.supervisor = "starting" /\ ~tunnel.ssh
    /\ tunnel' = [tunnel EXCEPT !.ssh = TRUE]
    /\ UNCHANGED <<desk, disk, names, server, op, check>>
Forwarded ==
    /\ tunnel.supervisor = "starting" /\ tunnel.ssh
    /\ tunnel' = [tunnel EXCEPT !.supervisor = "ready", !.status = "running"]
    /\ Done
    /\ UNCHANGED <<desk, disk, names, server, check>>
\* ssh ends, cannot sign in or cannot forward, or the deadline passes.
Fails ==
    /\ tunnel.supervisor \in {"starting", "ready"}
    /\ tunnel' = [tunnel EXCEPT !.supervisor = "ending", !.status = "failed"]
    /\ UNCHANGED <<desk, disk, names, server, op, check>>
\* terminate: what is left of ssh is killed, then the supervisor exits; whoever waits
\* for a start learns that it failed.
Ended ==
    /\ tunnel.supervisor = "ending"
    /\ tunnel' = [tunnel EXCEPT !.supervisor = "none", !.ssh = FALSE,
                    !.status = IF @ = "failed" THEN @ ELSE "stopped"]
    /\ IF op.kind = "tunnel" THEN Done ELSE UNCHANGED op
    /\ UNCHANGED <<desk, disk, names, server, check>>

\* stop-tunnel and forget-tunnel refuse while the host has active requests.
StopTunnel(interrupt) ==
    /\ Idle /\ desk.at = "up" /\ tunnel.supervisor # "none"
    /\ interrupt \/ ~server.active \/ tunnel.status # "running"
    /\ tunnel' = Stopping(tunnel)
    /\ Go("tunnel")
    /\ UNCHANGED <<desk, disk, names, server, check>>

Next ==
    \/ Launch \/ Crash \/ Closed \/ StartHost \/ Request \/ Respond
    \/ StopChecked \/ Stopped
    \/ \E interrupt \in BOOLEAN : Close(interrupt) \/ Stop(interrupt) \/ StopTunnel(interrupt)
    \/ \E h \in Hosts : Connect(h) \/ Forget(h) \/ CheckHost(h)
    \/ Exchanged \/ Paired \/ Forgotten \/ Checked
    \/ UsageSettings \/ UsageSaved \/ UsageCleared
    \/ StartTunnel \/ Master \/ Forwarded \/ Fails \/ Ended

\* The supervisor acts on its own; ssh has a deadline and is killed.
Fairness == WF_desktopVars(Ended) /\ WF_desktopVars(Master)

Spec == Init /\ [][Next]_desktopVars /\ Fairness

-----------------------------------------------------------------------------
(* Properties *)

\* Every variable has its type.
TypeOK ==
    /\ desk.at \in {"down", "up", "closing"}
    /\ disk.files \subseteq 1 .. MaxNames
    /\ op.kind \in {"none", "stop", "connect", "forget", "usage", "tunnel"}
    /\ tunnel.status \in {"stopped", "starting", "running", "failed"}
    /\ tunnel.supervisor \in {"none", "starting", "ready", "ending"}

\* Whenever the worker crashes, the settings it finds again refer only to files that
\* exist: no paired host loses its credential to a half-done operation.
SettingsAreUsable ==
    /\ \A h \in Hosts : disk.hosts[h] # 0 => disk.hosts[h] \in disk.files
    /\ disk.usage # 0 => disk.usage \in disk.files

\* What the user is shown of a connection was observed with the credential that is
\* saved for it, never with one that was replaced while the check was running.
ChecksAreCurrent == \A h \in Hosts : check.shown[h] # 0 => check.shown[h] = disk.hosts[h]

\* A tunnel leads to a host that is up, and no ssh is left without its supervisor.
TunnelsLeadToTheHost ==
    /\ tunnel.status = "running" => server.up
    /\ tunnel.ssh => tunnel.supervisor # "none"

\* The tunnel of a worker that is gone ends.
TunnelsEnd == desk.at = "down" ~> desk.at # "down" \/ tunnel.supervisor = "none"

=============================================================================
