-------------------------- MODULE MCAdministration --------------------------
(***************************************************************************)
(* Small instances, side by side, of the parts by which a host is          *)
(* administered: connections, provider sign-in, managed runtimes, quota    *)
(* and usage, and the pairing of a device.  They share no state, so in a   *)
(* behaviour only one of them moves.                                       *)
(***************************************************************************)
EXTENDS Naturals, FiniteSets, TLC

CONSTANTS Processes, Ids, Capacity, MaxQueue, Attempts, Providers, MaxActive, MaxStarts,
          Callers, Accounts, Subjects, Instances, Calls, Records, Minimum, MaxAge,
          MaxBindings, Interval, Slower, Lifetime, Timeout,
          ConnectionTime, UsageTime, PairingTime

VARIABLES part,
          connectionNow, file, connectionLock, process, token, revoked,
          disk, config, lock, writer, attempt, starts, closed,
          target, installLock, host,
          usageNow, bindings, left, enough, snapshot, call, capture, stored, wire,
          now, server, wait, polls, held, refreshing

ASSUME AdministrationAssumption ==
    /\ Processes \cap {"free", "left"} = {}
    /\ Ids \cap (Ids \X Processes) = {}
    /\ {ConnectionTime, UsageTime} \subseteq Nat \ {0}
    /\ {Minimum, MaxAge, Interval, Slower, Lifetime, MaxActive} \subseteq Nat
    /\ IsFiniteSet(Callers)
    /\ Attempts \cap {"none", "plain", "operator"} = {}

Grants == INSTANCE Connections
    WITH now <- connectionNow, lock <- connectionLock, MaxTime <- ConnectionTime
SignIn == INSTANCE ProviderSetup
Installs == INSTANCE Runtimes WITH lock <- installLock
Quotas == INSTANCE UsageStat WITH now <- usageNow, MaxTime <- UsageTime
Devices == INSTANCE Pairing WITH MaxTime <- PairingTime

grantVars == <<connectionNow, file, connectionLock, process, token, revoked>>
signInVars == <<disk, config, lock, writer, attempt, starts, closed>>
installVars == <<target, installLock, host>>
quotaVars == <<usageNow, bindings, left, enough, snapshot, call, capture, stored, wire>>
deviceVars == <<now, server, wait, polls, held, refreshing>>

Parts == {"connections", "sign-in", "runtimes", "usage", "pairing"}

\* A part that does not move rests in one initial state.
AdministrationInit ==
    /\ part \in Parts
    /\ Grants!Init /\ SignIn!Init /\ Installs!Init /\ Quotas!Init /\ Devices!Init
    /\ part # "usage" => bindings = {} /\ left = [u \in Instances |-> 0]

AdministrationNext ==
    /\ UNCHANGED part
    /\ \/ part = "connections" /\ Grants!Next
       \/ part # "connections" /\ UNCHANGED grantVars
    /\ \/ part = "sign-in" /\ SignIn!Next
       \/ part # "sign-in" /\ UNCHANGED signInVars
    /\ \/ part = "runtimes" /\ Installs!Next
       \/ part # "runtimes" /\ UNCHANGED installVars
    /\ \/ part = "usage" /\ Quotas!Next
       \/ part # "usage" /\ UNCHANGED quotaVars
    /\ \/ part = "pairing" /\ Devices!Next
       \/ part # "pairing" /\ UNCHANGED deviceVars

AdministrationSpec ==
    /\ AdministrationInit
    /\ [][AdministrationNext]_<<part, grantVars, signInVars, installVars, quotaVars,
                                deviceVars>>

\* Processes run the same program; attempts and callers are told apart only by what is
\* known of them.
Interchangeable ==
    Permutations(Processes) \cup Permutations(Attempts) \cup Permutations(Callers)

\* An invitation is exchanged once, whichever processes race for it, and what was
\* revoked is never accepted again.
GrantsAreExact ==
    Grants!TypeOK /\ Grants!InvitationsAreSingleUse /\ Grants!RevokedStaysRevoked

\* The configuration refers only to accounts whose sign-in directory exists, no
\* change of it is lost, and an attempt that is over leaves nothing behind.
AccountsAreKept ==
    SignIn!TypeOK /\ SignIn!AccountsAreKept /\ SignIn!NothingIsLeft /\ SignIn!NoChangeIsLost

\* One process installs at a time, and an installed runtime is never written over.
InstallsAreSound ==
    /\ [](Installs!TypeOK /\ Installs!InstallsAreExclusive)
    /\ Installs!NeverOverwritten

\* A quota decision is about the account that runs, as it was observed recently, and a
\* usage record that is called captured is in the service.
QuotasAreTrue == Quotas!TypeOK /\ Quotas!QuotaIsOwn /\ Quotas!CaptureIsTrue

\* A device polls no faster than it was told, never believes in an expired code or
\* token, and presents every refresh token once.
DevicesAreHonest ==
    /\ Devices!TypeOK /\ Devices!PollsKeepTime /\ Devices!ExpiryIsHonest
    /\ Devices!TokensAreUsedOnce

=============================================================================
