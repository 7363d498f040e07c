------------------------ MODULE AdministrationProofs ------------------------
(***************************************************************************)
(* Proofs about the parts by which a host is administered, for every value *)
(* of the constants that AdministrationAssumption admits.  The parts share *)
(* no state: each has an inductive invariant of its own variables, which   *)
(* the steps of every other part leave alone.                              *)
(*                                                                         *)
(*   GrantInv    connections: what a process holds at each of its places,  *)
(*               beside the file it has read and will write                *)
(*   InstallInv  managed runtimes: who holds the lock, and who may rename  *)
(*   QuotaInv    quota and usage: where a snapshot and a record came from  *)
(*   DeviceInv   pairing: the clock, the code and the tokens that pass     *)
(*               between a device and its host                             *)
(*   SetupInv    provider sign-in: an entry at each of its phases, the     *)
(*               changes that wait, and whom the configuration names       *)
(***************************************************************************)
EXTENDS MCAdministration, Integers, Sequences, FiniteSetTheorems, SequenceTheorems, TLAPS

-----------------------------------------------------------------------------
(* Connections: what is known of the operations under way, and of every state of *)
(* the store that is, or is about to be, in the file                             *)

GrantPlaces == {"idle", "locked", "writing", "saved", "refused"}

\* The states of the store: when each invitation and connection expires.
StoreStates == [Grants!Names -> 0 .. ConnectionTime + 2]

GrantTypes ==
    /\ connectionNow \in 1 .. ConnectionTime
    /\ file \in StoreStates
    /\ connectionLock \in Processes \cup {"free"}
    /\ process \in [Processes -> [at : GrantPlaces,
                                  op : Grants!Operations \cup {Grants!NoOperation},
                                  state : StoreStates,
                                  queue : Seq(Grants!Operations)]]
    /\ token \in [Ids -> Int]
    /\ \A i \in Ids : -1 <= token[i] /\ token[i] <= 1
    /\ revoked \subseteq Grants!Names

\* The process that runs a mutation created the lock file, so only one runs.
LockInv ==
    \A p \in Processes :
       /\ process[p].at = "idle" => process[p].op = Grants!NoOperation
       /\ process[p].at # "idle" => connectionLock = p /\ process[p].op \in Grants!Operations

\* What an operation names was told to its caller, and is still what it was told.
Told(op) ==
    /\ op.type = "create" => token[op.id] = -1
    /\ op.type # "create" /\ op.id \in Ids => token[op.id] >= 0
    /\ op.type # "create" /\ op.id \notin Ids => token[op.id[1]] > 0

ToldInv ==
    \A p \in Processes :
       /\ process[p].at # "idle" => Told(process[p].op)
       /\ \A k \in DOMAIN process[p].queue : Told(process[p].queue[k])

\* The id of a new invitation is chosen once.
FreshInv ==
    \A p \in Processes : \A k \in DOMAIN process[p].queue :
       process[p].queue[k].type = "create" =>
          \A q \in Processes :
             /\ process[q].op # process[p].queue[k]
             /\ \A l \in DOMAIN process[q].queue :
                   process[q].queue[l] = process[p].queue[k] => q = p /\ l = k

\* A state the file may have: an invitation whose token is out is not in it, no
\* invitation has two connections or stands beside one, and nothing that a caller
\* was told is revoked is in it.
Sound(state) ==
    /\ \A i \in Ids :
          /\ state[i] # 0 => token[i] < 1
          /\ \A p \in Processes :
                state[<<i, p>>] # 0 =>
                   /\ token[i] >= 0 /\ state[i] = 0
                   /\ \A q \in Processes : state[<<i, q>>] # 0 => q = p
    /\ \A n \in revoked : state[n] = 0

\* The state that holds the outcome of the mutation of p.
Outcome(p) == IF process[p].at = "saved" THEN file ELSE process[p].state

StateInv ==
    /\ Sound(file)
    /\ \A p \in Processes : process[p].at = "writing" => Sound(process[p].state)

\* The code that is being exchanged has no token yet, and it is used up; what is
\* being revoked is gone.
OutcomeInv ==
    \A p \in Processes : process[p].at \in {"writing", "saved"} =>
       /\ process[p].op.type = "exchange" =>
             token[process[p].op.id] = 0 /\ Outcome(p)[process[p].op.id] = 0
       /\ process[p].op.type = "revoke" => Outcome(p)[process[p].op.id] = 0

\* What was revoked had been handed out, so it is never created anew.
RevokedInv ==
    \A n \in revoked :
       /\ n \in Ids => token[n] >= 0
       /\ n \notin Ids => token[n[1]] > 0

GrantInv ==
    /\ GrantTypes /\ LockInv /\ ToldInv /\ FreshInv /\ StateInv /\ OutcomeInv /\ RevokedInv

-----------------------------------------------------------------------------
(* Lemmas about names and operations *)

LEMMA Counting == ASSUME NEW S PROVE Grants!Cardinality(S) = Cardinality(S)
  BY DEF Grants!Cardinality, Cardinality

LEMMA NamesApart ==
    /\ \A i \in Ids : i \in Grants!Names
    /\ \A i \in Ids, p \in Processes :
          <<i, p>> \in Grants!Names /\ <<i, p>> \notin Ids /\ <<i, p>>[1] = i
    /\ \A n \in Grants!Names : n \notin Ids => \E i \in Ids, p \in Processes : n = <<i, p>>
  BY AdministrationAssumption DEF Grants!Names, Grants!Pairs

LEMMA OperationShape ==
    /\ \A op \in Grants!Operations :
          /\ op.type \in {"create", "exchange", "revoke"}
          /\ op.id \in Grants!Names
          /\ op.type # "revoke" => op.id \in Ids
    /\ Grants!NoOperation.type = "none"
    /\ Grants!NoOperation \notin Grants!Operations
<1>1. \A op \in Grants!Operations :
          /\ op.type \in {"create", "exchange", "revoke"}
          /\ op.id \in Grants!Names
          /\ op.type # "revoke" => op.id \in Ids
  BY DEF Grants!Operations, Grants!Names
<1>2. Grants!NoOperation.type = "none"
  BY DEF Grants!NoOperation
<1> QED
  BY <1>1, <1>2

LEMMA EmptyState ==
    Grants!Empty \in StoreStates /\ \A n \in Grants!Names : Grants!Empty[n] = 0
  BY AdministrationAssumption DEF Grants!Empty, StoreStates

LEMMA IdleShape ==
    /\ Grants!Idle.at = "idle" /\ Grants!Idle.op = Grants!NoOperation
    /\ Grants!Idle.state = Grants!Empty /\ Grants!Idle.queue = <<>>
    /\ Grants!Idle \in [at : GrantPlaces,
                        op : Grants!Operations \cup {Grants!NoOperation},
                        state : StoreStates, queue : Seq(Grants!Operations)]
  BY EmptyState DEF Grants!Idle, GrantPlaces

\* A state that holds no more than a sound one is sound.
LEMMA SoundBelow ==
    ASSUME NEW s, NEW t, Sound(s), revoked \subseteq Grants!Names,
           \A n \in Grants!Names : t[n] # 0 => s[n] # 0
    PROVE  Sound(t)
<1>1. ASSUME NEW i \in Ids PROVE t[i] # 0 => token[i] < 1
  BY NamesApart DEF Sound
<1>2. ASSUME NEW i \in Ids, NEW p \in Processes, t[<<i, p>>] # 0
      PROVE  /\ token[i] >= 0 /\ t[i] = 0
             /\ \A q \in Processes : t[<<i, q>>] # 0 => q = p
  BY <1>2, NamesApart DEF Sound
<1>3. \A n \in revoked : t[n] = 0
  BY DEF Sound
<1> QED
  BY <1>1, <1>2, <1>3 DEF Sound

LEMMA SoundKept ==
    ASSUME NEW s, Sound(s), UNCHANGED <<token, revoked>> PROVE Sound(s)'
  BY DEF Sound

-----------------------------------------------------------------------------
(* Connections: the steps *)

LEMMA GrantInit == Grants!Init => GrantInv
<1> SUFFICES ASSUME Grants!Init PROVE GrantInv
  OBVIOUS
<1>1. /\ connectionNow = 1 /\ file = Grants!Empty /\ connectionLock = "free"
      /\ process = [p \in Processes |-> Grants!Idle]
      /\ token = [i \in Ids |-> -1] /\ revoked = {}
  BY DEF Grants!Init
<1>2. GrantTypes
  BY <1>1, EmptyState, IdleShape, AdministrationAssumption DEF GrantTypes
<1>3. LockInv
  BY <1>1, IdleShape DEF LockInv
<1>4. ToldInv /\ FreshInv
  BY <1>1, IdleShape DEF ToldInv, FreshInv
<1>5. StateInv
  BY <1>1, IdleShape, EmptyState, NamesApart DEF StateInv, Sound
<1>6. OutcomeInv /\ RevokedInv
  BY <1>1, IdleShape DEF OutcomeInv, RevokedInv
<1> QED
  BY <1>2, <1>3, <1>4, <1>5, <1>6 DEF GrantInv

LEMMA GrantTick ==
    ASSUME GrantInv, Grants!Tick \/ Grants!RemoveLock PROVE GrantInv'
<1>1. UNCHANGED <<file, process, token, revoked>>
  BY DEF Grants!Tick, Grants!RemoveLock
<1>2. connectionNow' \in 1 .. ConnectionTime
  BY AdministrationAssumption DEF Grants!Tick, Grants!RemoveLock, GrantInv, GrantTypes
<1>3. connectionLock' \in Processes \cup {"free"}
  BY DEF Grants!Tick, Grants!RemoveLock, GrantInv, GrantTypes
<1>4. \A p \in Processes : process[p].at # "idle" => connectionLock' = connectionLock
  BY DEF Grants!Tick, Grants!RemoveLock
<1>5. GrantTypes'
  BY <1>1, <1>2, <1>3 DEF GrantInv, GrantTypes
<1>6. LockInv'
  BY <1>1, <1>4 DEF GrantInv, LockInv
<1>7. ToldInv' /\ FreshInv'
  BY <1>1 DEF GrantInv, ToldInv, FreshInv, Told
<1>8. StateInv'
  BY <1>1 DEF GrantInv, StateInv, Sound
<1>9. OutcomeInv' /\ RevokedInv'
  BY <1>1 DEF GrantInv, OutcomeInv, RevokedInv, Outcome
<1> QED
  BY <1>5, <1>6, <1>7, <1>8, <1>9 DEF GrantInv

LEMMA GrantMutate ==
    ASSUME GrantInv, NEW p \in Processes, NEW op \in Grants!Operations, Grants!Mutate(p, op)
    PROVE  GrantInv'
<1>1. /\ Grants!Known(op) /\ UNCHANGED <<connectionNow, file, connectionLock, token, revoked>>
      /\ process' = [process EXCEPT ![p].queue = Append(@, op)]
  BY DEF Grants!Mutate
<1> DEFINE line(q) == process[q].queue
<1>2. /\ \A q \in Processes : /\ process'[q].at = process[q].at
                              /\ process'[q].op = process[q].op
                              /\ process'[q].state = process[q].state
                              /\ q # p => process'[q].queue = line(q)
      /\ process'[p].queue = Append(line(p), op)
  BY <1>1 DEF GrantInv, GrantTypes
<1>3. \A q \in Processes : line(q) \in Seq(Grants!Operations) /\ DOMAIN line(q) = 1..Len(line(q))
                           /\ Len(line(q)) \in Nat
  BY DEF GrantInv, GrantTypes
<1>4. /\ DOMAIN process'[p].queue = 1 .. Len(line(p)) + 1
      /\ \A k \in 1..Len(line(p)) : process'[p].queue[k] = line(p)[k]
      /\ process'[p].queue[Len(line(p)) + 1] = op
  BY <1>2, <1>3
<1>5. GrantTypes'
  <2>1. Append(line(p), op) \in Seq(Grants!Operations)
    BY <1>3
  <2>2. process' \in [Processes -> [at : GrantPlaces,
                                   op : Grants!Operations \cup {Grants!NoOperation},
                                   state : StoreStates,
                                   queue : Seq(Grants!Operations)]]
    BY <1>1, <2>1 DEF GrantInv, GrantTypes
  <2> QED
    BY <1>1, <2>2 DEF GrantInv, GrantTypes
<1>6. Told(op)
  BY <1>1, OperationShape DEF Grants!Known, Told, Grants!Names
<1>7. op.type = "create" => \A q \in Processes : /\ process[q].op # op
                                                 /\ \A k \in DOMAIN line(q) : line(q)[k] # op
  <2>1. op.type = "create" => \A q \in Processes :
           op # process[q].op /\ op \notin Grants!ToSet(line(q))
    BY <1>1 DEF Grants!Known
  <2> QED
    BY <2>1 DEF Grants!ToSet
<1>8. LockInv'
  BY <1>1, <1>2 DEF GrantInv, LockInv
<1>9. ToldInv'
  <2>1. \A q \in Processes : process'[q].at # "idle" => Told(process'[q].op)
    BY <1>2 DEF GrantInv, ToldInv
  <2>2. \A q \in Processes : \A k \in DOMAIN process'[q].queue : Told(process'[q].queue[k])
    <3>1. ASSUME NEW k \in DOMAIN process'[p].queue PROVE Told(process'[p].queue[k])
      <4>1. CASE k = Len(line(p)) + 1
        BY <1>4, <1>6, <4>1
      <4>2. CASE k # Len(line(p)) + 1
        <5>1. k \in DOMAIN line(p) /\ process'[p].queue[k] = line(p)[k]
          BY <1>3, <1>4, <4>2
        <5> QED
          BY <5>1 DEF GrantInv, ToldInv
      <4> QED
        BY <4>1, <4>2
    <3>2. \A q \in Processes : q # p =>
             \A k \in DOMAIN process'[q].queue : Told(process'[q].queue[k])
      BY <1>2 DEF GrantInv, ToldInv
    <3> QED
      BY <3>1, <3>2
  <2> QED
    BY <1>1, <2>1, <2>2 DEF ToldInv, Told
<1>10. FreshInv'
  <2> DEFINE there(q, k) == IF q = p /\ k = Len(line(p)) + 1 THEN op ELSE line(q)[k]
  <2>1. ASSUME NEW q \in Processes, NEW k \in DOMAIN process'[q].queue
        PROVE  /\ process'[q].queue[k] = there(q, k)
               /\ k \in DOMAIN line(q) \/ (q = p /\ k = Len(line(p)) + 1)
    <3>1. CASE q = p
      BY <1>3, <1>4, <3>1
    <3>2. CASE q # p
      BY <1>2, <3>2
    <3> QED
      BY <3>1, <3>2
  <2>2. \A q \in Processes : \A k \in DOMAIN line(q) : there(q, k) = line(q)[k]
    BY <1>3
  <2> SUFFICES ASSUME NEW q \in Processes, NEW k \in DOMAIN process'[q].queue,
                      process'[q].queue[k].type = "create", NEW r \in Processes
               PROVE  /\ process'[r].op # process'[q].queue[k]
                      /\ \A l \in DOMAIN process'[r].queue :
                            process'[r].queue[l] = process'[q].queue[k] => r = q /\ l = k
    BY DEF FreshInv
  <2>3. CASE q = p /\ k = Len(line(p)) + 1
    <3>1. process'[q].queue[k] = op /\ op.type = "create"
      BY <2>1, <2>3
    <3>2. ASSUME NEW l \in DOMAIN process'[r].queue, process'[r].queue[l] = op
          PROVE  r = q /\ l = k
      BY <1>7, <2>1, <2>3, <3>1, <3>2
    <3> QED
      BY <1>2, <1>7, <3>1, <3>2
  <2>4. CASE k \in DOMAIN line(q) /\ ~(q = p /\ k = Len(line(p)) + 1)
    <3>1. process'[q].queue[k] = line(q)[k]
      BY <2>1, <2>4
    <3>2. process[r].op # line(q)[k]
      BY <2>4, <3>1 DEF GrantInv, FreshInv
    <3>3. ASSUME NEW l \in DOMAIN process'[r].queue, process'[r].queue[l] = line(q)[k]
          PROVE  r = q /\ l = k
      <4>1. CASE r = p /\ l = Len(line(p)) + 1
        BY <1>7, <2>1, <2>4, <3>1, <3>3, <4>1
      <4>2. CASE l \in DOMAIN line(r) /\ ~(r = p /\ l = Len(line(p)) + 1)
        BY <2>1, <2>4, <3>1, <3>3, <4>2 DEF GrantInv, FreshInv
      <4> QED
        BY <2>1, <4>1, <4>2
    <3> QED
      BY <1>2, <3>1, <3>2, <3>3
  <2> QED
    BY <2>1, <2>3, <2>4
<1>11. StateInv'
  BY <1>1, <1>2 DEF GrantInv, StateInv, Sound
<1>12. OutcomeInv' /\ RevokedInv'
  BY <1>1, <1>2 DEF GrantInv, OutcomeInv, RevokedInv, Outcome
<1> QED
  BY <1>5, <1>8, <1>9, <1>10, <1>11, <1>12 DEF GrantInv

\* While p runs a mutation, or could begin one, every other process is idle.
LEMMA Alone ==
    ASSUME GrantInv, NEW p \in Processes, process[p].at # "idle" \/ connectionLock = "free"
    PROVE  /\ connectionLock \in {p, "free"}
           /\ \A q \in Processes : q # p => process[q].at = "idle" /\ process[q].op = Grants!NoOperation
  BY AdministrationAssumption DEF GrantInv, LockInv

LEMMA GrantBegin ==
    ASSUME GrantInv, NEW p \in Processes, Grants!Begin(p) PROVE GrantInv'
<1> DEFINE line(q) == process[q].queue
           was(q, k) == IF q = p THEN k + 1 ELSE k
<1>1. /\ process[p].at = "idle" /\ line(p) # <<>>
      /\ UNCHANGED <<connectionNow, file, token, revoked>>
  BY DEF Grants!Begin
<1>2. \A q \in Processes : line(q) \in Seq(Grants!Operations) /\ DOMAIN line(q) = 1..Len(line(q))
                           /\ Len(line(q)) \in Nat
  BY DEF GrantInv, GrantTypes
<1>3. \/ /\ connectionLock = "free" /\ connectionLock' = p
         /\ process' = [process EXCEPT ![p] = [at |-> "locked", op |-> Head(line(p)),
                              state |-> Grants!Empty, queue |-> Tail(line(p))]]
      \/ /\ connectionLock' = connectionLock
         /\ process' = [process EXCEPT ![p].queue = Tail(line(p))]
  BY DEF Grants!Begin, GrantInv, GrantTypes
<1>4. \A q \in Processes : q # p => process'[q] = process[q]
  BY <1>3 DEF GrantInv, GrantTypes
<1>5. process'[p].queue = Tail(line(p))
  <2>1. process \in [Processes -> [at : GrantPlaces,
                                  op : Grants!Operations \cup {Grants!NoOperation},
                                  state : StoreStates, queue : Seq(Grants!Operations)]]
    BY DEF GrantInv, GrantTypes
  <2>2. CASE process' = [process EXCEPT ![p] = [at |-> "locked", op |-> Head(line(p)),
                              state |-> Grants!Empty, queue |-> Tail(line(p))]]
    BY <2>1, <2>2
  <2>3. CASE process' = [process EXCEPT ![p].queue = Tail(line(p))]
    BY <2>1, <2>3
  <2> QED
    BY <1>3, <2>2, <2>3
<1>6. \/ /\ connectionLock = "free" /\ connectionLock' = p
         /\ process'[p].at = "locked" /\ process'[p].op = Head(line(p))
      \/ /\ connectionLock' = connectionLock
         /\ process'[p].at = "idle" /\ process'[p].op = process[p].op
  BY <1>1, <1>3 DEF GrantInv, GrantTypes
<1>7. /\ Head(line(p)) = line(p)[1] /\ 1 \in DOMAIN line(p) /\ line(p)[1] \in Grants!Operations
      /\ Tail(line(p)) \in Seq(Grants!Operations)
      /\ DOMAIN Tail(line(p)) = 1 .. Len(line(p)) - 1
      /\ \A k \in 1 .. Len(line(p)) - 1 : Tail(line(p))[k] = line(p)[k + 1]
  BY <1>1, <1>2
<1>7a. /\ DOMAIN process'[p].queue = 1 .. Len(line(p)) - 1
       /\ \A k \in 1 .. Len(line(p)) - 1 : process'[p].queue[k] = line(p)[k + 1]
  BY <1>5, <1>7
<1>8. ASSUME NEW q \in Processes, NEW k \in DOMAIN process'[q].queue
      PROVE  was(q, k) \in DOMAIN line(q) /\ process'[q].queue[k] = line(q)[was(q, k)]
  <2>1. CASE q = p
    <3>1. k \in 1 .. Len(line(p)) - 1
      BY <1>7a, <2>1
    <3>2. k + 1 \in DOMAIN line(p)
      BY <1>2, <3>1
    <3> QED
      BY <1>7a, <2>1, <3>1, <3>2
  <2>2. CASE q # p
    BY <1>4, <2>2
  <2> QED
    BY <2>1, <2>2
<1>9. GrantTypes'
  <2>1. process'[p] \in [at : GrantPlaces, op : Grants!Operations \cup {Grants!NoOperation},
                         state : StoreStates, queue : Seq(Grants!Operations)]
    <3>1. process \in [Processes -> [at : GrantPlaces,
                                    op : Grants!Operations \cup {Grants!NoOperation},
                                    state : StoreStates, queue : Seq(Grants!Operations)]]
      BY DEF GrantInv, GrantTypes
    <3>2. CASE process' = [process EXCEPT ![p] = [at |-> "locked", op |-> Head(line(p)),
                                state |-> Grants!Empty, queue |-> Tail(line(p))]]
      <4>1. process'[p] = [at |-> "locked", op |-> Head(line(p)),
                           state |-> Grants!Empty, queue |-> Tail(line(p))]
        BY <3>1, <3>2
      <4> QED
        BY <1>7, <4>1, EmptyState DEF GrantPlaces
    <3>3. CASE process' = [process EXCEPT ![p].queue = Tail(line(p))]
      BY <1>7, <3>1, <3>3
    <3> QED
      BY <1>3, <3>2, <3>3
  <2>2. process' \in [Processes -> [at : GrantPlaces,
                                   op : Grants!Operations \cup {Grants!NoOperation},
                                   state : StoreStates,
                                   queue : Seq(Grants!Operations)]]
    BY <1>3, <2>1 DEF GrantInv, GrantTypes
  <2>3. connectionLock' \in Processes \cup {"free"}
    BY <1>3 DEF GrantInv, GrantTypes
  <2> QED
    BY <1>1, <2>2, <2>3 DEF GrantInv, GrantTypes
<1>10. LockInv'
  <2>1. \A q \in Processes : q # p =>
           /\ process'[q].at = "idle" => process'[q].op = Grants!NoOperation
           /\ process'[q].at # "idle" => connectionLock' = q /\ process'[q].op \in Grants!Operations
    BY <1>4, <1>6, Alone, AdministrationAssumption DEF GrantInv, LockInv
  <2>2. /\ process'[p].at = "idle" => process'[p].op = Grants!NoOperation
        /\ process'[p].at # "idle" => connectionLock' = p /\ process'[p].op \in Grants!Operations
    BY <1>1, <1>6, <1>7 DEF GrantInv, LockInv
  <2> QED
    BY <2>1, <2>2 DEF LockInv
<1>11. ToldInv'
  <2>1. \A q \in Processes : process'[q].at # "idle" => Told(process'[q].op)
    BY <1>4, <1>6, <1>7 DEF GrantInv, ToldInv
  <2>2. \A q \in Processes : \A k \in DOMAIN process'[q].queue : Told(process'[q].queue[k])
    BY <1>8 DEF GrantInv, ToldInv
  <2> QED
    BY <1>1, <2>1, <2>2 DEF ToldInv, Told
<1>12. FreshInv'
  <2> SUFFICES ASSUME NEW q \in Processes, NEW k \in DOMAIN process'[q].queue,
                      process'[q].queue[k].type = "create", NEW r \in Processes
               PROVE  /\ process'[r].op # process'[q].queue[k]
                      /\ \A l \in DOMAIN process'[r].queue :
                            process'[r].queue[l] = process'[q].queue[k] => r = q /\ l = k
    BY DEF FreshInv
  <2> DEFINE x == line(q)[was(q, k)]
  <2>1. was(q, k) \in DOMAIN line(q) /\ process'[q].queue[k] = x /\ x.type = "create"
    BY <1>8
  <2>2. \A s \in Processes : /\ process[s].op # x
                             /\ \A l \in DOMAIN line(s) : line(s)[l] = x => s = q /\ l = was(q, k)
    BY <2>1 DEF GrantInv, FreshInv
  <2>3. k \in Nat \ {0}
    <3>1. CASE q = p
      BY <1>2, <1>7a, <3>1
    <3>2. CASE q # p
      BY <1>2, <1>4, <3>2
    <3> QED
      BY <3>1, <3>2
  <2>4. process'[r].op # x
    <3>1. CASE r = p /\ process'[p].op = Head(line(p))
      <4>1. line(p)[1] # x
        BY <1>7, <2>2, <2>3
      <4> QED
        BY <1>7, <3>1, <4>1
    <3>2. CASE process'[r].op = process[r].op
      BY <2>2, <3>2
    <3> QED
      BY <1>4, <1>6, <3>1, <3>2
  <2>5. ASSUME NEW l \in DOMAIN process'[r].queue, process'[r].queue[l] = x
        PROVE  r = q /\ l = k
    <3>1. was(r, l) \in DOMAIN line(r) /\ line(r)[was(r, l)] = x
      BY <1>8, <2>5
    <3>2. r = q /\ was(r, l) = was(q, k)
      BY <2>2, <3>1
    <3>3. l \in Nat
      <4>1. CASE r = p
        BY <1>2, <1>7a, <4>1
      <4>2. CASE r # p
        BY <1>2, <1>4, <4>2
      <4> QED
        BY <4>1, <4>2
    <3> QED
      BY <2>3, <3>2, <3>3
  <2> QED
    BY <2>1, <2>4, <2>5
<1>13. StateInv'
  BY <1>1, <1>4, <1>6 DEF GrantInv, StateInv, Sound
<1>14. OutcomeInv' /\ RevokedInv'
  BY <1>1, <1>4, <1>6 DEF GrantInv, OutcomeInv, RevokedInv, Outcome
<1> QED
  BY <1>9, <1>10, <1>11, <1>12, <1>13, <1>14 DEF GrantInv

LEMMA GrantCrash ==
    ASSUME GrantInv, NEW p \in Processes, Grants!Crash(p) PROVE GrantInv'
<1>1. /\ UNCHANGED <<connectionNow, file, connectionLock, token, revoked>>
      /\ process' = [process EXCEPT ![p] = Grants!Idle]
  BY DEF Grants!Crash
<1>2. process'[p] = Grants!Idle /\ \A q \in Processes : q # p => process'[q] = process[q]
  BY <1>1 DEF GrantInv, GrantTypes
<1>3. GrantTypes'
  BY <1>1, IdleShape DEF GrantInv, GrantTypes
<1>4. LockInv'
  BY <1>1, <1>2, IdleShape DEF GrantInv, LockInv
<1>5. ToldInv'
  BY <1>1, <1>2, IdleShape DEF GrantInv, ToldInv, Told
<1>6. FreshInv'
  <2>1. DOMAIN process'[p].queue = {} /\ process'[p].op = Grants!NoOperation
    BY <1>2, IdleShape
  <2>2. \A q \in Processes : \A k \in DOMAIN process'[q].queue :
           /\ k \in DOMAIN process[q].queue /\ process'[q].queue[k] = process[q].queue[k]
           /\ process'[q].queue[k] \in Grants!Operations
    <3>1. \A q \in Processes : \A k \in DOMAIN process[q].queue :
             process[q].queue[k] \in Grants!Operations
      BY DEF GrantInv, GrantTypes
    <3> QED
      BY <1>2, <2>1, <3>1
  <2>3. \A q \in Processes : process'[q].op \in {process[q].op, Grants!NoOperation}
    BY <1>2, <2>1
  <2> QED
    BY <2>2, <2>3, OperationShape DEF GrantInv, FreshInv
<1>7. StateInv'
  BY <1>1, <1>2, IdleShape DEF GrantInv, StateInv, Sound
<1>8. OutcomeInv' /\ RevokedInv'
  BY <1>1, <1>2, IdleShape DEF GrantInv, OutcomeInv, RevokedInv, Outcome
<1> QED
  BY <1>3, <1>4, <1>5, <1>6, <1>7, <1>8 DEF GrantInv

LEMMA CurrentState ==
    ASSUME GrantInv
    PROVE  /\ Grants!Current(file) \in StoreStates /\ Sound(Grants!Current(file))
           /\ \A n \in Grants!Names : Grants!Current(file)[n] # 0 => file[n] # 0
<1>1. Grants!Current(file) \in StoreStates
  BY AdministrationAssumption DEF Grants!Current, StoreStates, GrantInv, GrantTypes
<1>2. \A n \in Grants!Names : Grants!Current(file)[n] # 0 => file[n] # 0
  BY DEF Grants!Current
<1> QED
  BY <1>1, <1>2, SoundBelow DEF GrantInv, GrantTypes, StateInv

\* What an operation that is not refused makes of the state is sound, and does what the
\* operation is for.
LEMMA Computed ==
    ASSUME GrantInv, NEW p \in Processes, NEW op \in Grants!Operations, Told(op),
           NEW lifetime \in 1 .. 2, ~Grants!Refused(Grants!Current(file), op),
           NEW next,
           next = CASE op.type = "create" ->
                          Grants!Create(Grants!Current(file), op.id, lifetime)
                    [] op.type = "exchange" ->
                          Grants!Exchange(Grants!Current(file), op.id, p, lifetime)
                    [] OTHER -> Grants!Revoke(Grants!Current(file), op.id)
    PROVE  /\ next \in StoreStates /\ Sound(next)
           /\ op.type = "exchange" => token[op.id] = 0 /\ next[op.id] = 0
           /\ op.type = "revoke" => next[op.id] = 0
<1> DEFINE s == Grants!Current(file)
<1>1. /\ s \in StoreStates /\ Sound(s) /\ revoked \subseteq Grants!Names
      /\ token \in [Ids -> Int]
      /\ connectionNow + lifetime \in 0 .. ConnectionTime + 2 /\ connectionNow + lifetime # 0
  BY CurrentState, AdministrationAssumption DEF GrantInv, GrantTypes
<1> HIDE DEF s
<1>2. CASE op.type = "create"
  <2>1. op.id \in Ids /\ token[op.id] = -1 /\ op.id \in Grants!Names
    BY <1>2, OperationShape DEF Told
  <2>2. next = [s EXCEPT ![op.id] = connectionNow + lifetime]
    BY <1>2 DEF Grants!Create, s
  <2>3. /\ next \in StoreStates /\ next[op.id] # 0
        /\ \A n \in Grants!Names : n # op.id => next[n] = s[n]
    BY <1>1, <2>1, <2>2 DEF StoreStates
  <2>4. \A q \in Processes : s[<<op.id, q>>] = 0
    BY <1>1, <2>1 DEF Sound
  <2>5. op.id \notin revoked
    BY <2>1 DEF GrantInv, RevokedInv
  <2>6. ASSUME NEW i \in Ids PROVE next[i] # 0 => token[i] < 1
    BY <1>1, <2>1, <2>3, NamesApart DEF Sound
  <2>7. ASSUME NEW i \in Ids, NEW q \in Processes, next[<<i, q>>] # 0
        PROVE  /\ token[i] >= 0 /\ next[i] = 0
               /\ \A r \in Processes : next[<<i, r>>] # 0 => r = q
    <3>1. \A r \in Processes : next[<<i, r>>] = s[<<i, r>>]
      BY <2>1, <2>3, NamesApart
    <3>2. i # op.id
      BY <2>4, <2>7, <3>1
    <3>3. next[i] = s[i]
      BY <2>3, <3>2, NamesApart
    <3> QED
      BY <1>1, <2>7, <3>1, <3>3 DEF Sound
  <2>8. \A n \in revoked : next[n] = 0
    BY <1>1, <2>3, <2>5 DEF Sound
  <2>9. Sound(next)
    BY <2>6, <2>7, <2>8 DEF Sound
  <2> QED
    BY <1>2, <2>3, <2>9
<1>3. CASE op.type = "exchange"
  <2>1. op.id \in Ids /\ op.id \in Grants!Names /\ s[op.id] # 0
    BY <1>3, OperationShape DEF Grants!Refused, s
  <2>2. token[op.id] = 0
    BY <1>1, <1>3, <2>1 DEF Told, Sound
  <2>3. next = [s EXCEPT ![op.id] = 0, ![<<op.id, p>>] = connectionNow + lifetime]
    BY <1>3 DEF Grants!Exchange, s
  <2>4. /\ next \in StoreStates /\ next[op.id] = 0
        /\ \A n \in Grants!Names : n # op.id /\ n # <<op.id, p>> => next[n] = s[n]
    <3>1. <<op.id, p>> \in Grants!Names /\ <<op.id, p>> # op.id
      BY <2>1, NamesApart
    <3>2. s \in [Grants!Names -> 0 .. ConnectionTime + 2]
      BY <1>1 DEF StoreStates
    <3>3. next \in StoreStates
      <4> DEFINE used == [s EXCEPT ![op.id] = 0]
      <4>1. used \in [Grants!Names -> 0 .. ConnectionTime + 2]
        <5>1. 0 \in 0 .. ConnectionTime + 2
          BY AdministrationAssumption
        <5> QED
          BY <3>2, <5>1
      <4>2. next = [used EXCEPT ![<<op.id, p>>] = connectionNow + lifetime]
        BY <2>3
      <4> HIDE DEF used
      <4> QED
        BY <1>1, <4>1, <4>2 DEF StoreStates
    <3>4. next[op.id] = 0
      BY <2>1, <2>3, <3>1, <3>2
    <3>5. \A n \in Grants!Names : n # op.id /\ n # <<op.id, p>> => next[n] = s[n]
      BY <2>3, <3>2
    <3> QED
      BY <3>3, <3>4, <3>5
  <2>5. \A q \in Processes : s[<<op.id, q>>] = 0
    BY <1>1, <2>1 DEF Sound
  <2>6. op.id \notin revoked /\ <<op.id, p>> \notin revoked
    <3>1. <<op.id, p>> \notin revoked
      BY <2>1, <2>2, NamesApart DEF GrantInv, RevokedInv
    <3>2. op.id \notin revoked
      BY <1>1, <2>1 DEF Sound
    <3> QED
      BY <3>1, <3>2
  <2>7. ASSUME NEW i \in Ids PROVE next[i] # 0 => token[i] < 1
    BY <1>1, <2>1, <2>4, NamesApart DEF Sound
  <2>8. ASSUME NEW i \in Ids, NEW q \in Processes, next[<<i, q>>] # 0
        PROVE  /\ token[i] >= 0 /\ next[i] = 0
               /\ \A r \in Processes : next[<<i, r>>] # 0 => r = q
    <3>1. CASE i = op.id
      <4>1. \A r \in Processes : next[<<i, r>>] # 0 => r = p
        <5>1. ASSUME NEW r \in Processes, r # p PROVE next[<<i, r>>] = 0
          <6>1. <<i, r>> # op.id /\ <<i, r>> # <<op.id, p>> /\ <<i, r>> \in Grants!Names
            BY <2>1, <5>1, NamesApart
          <6> QED
            BY <2>4, <2>5, <3>1, <6>1
        <5> QED
          BY <5>1
      <4> QED
        BY <2>2, <2>4, <2>8, <3>1, <4>1
    <3>2. CASE i # op.id
      <4>1. \A r \in Processes : next[<<i, r>>] = s[<<i, r>>]
        <5>1. ASSUME NEW r \in Processes PROVE next[<<i, r>>] = s[<<i, r>>]
          <6>1. <<i, r>> # op.id /\ <<i, r>> # <<op.id, p>> /\ <<i, r>> \in Grants!Names
            BY <2>1, <3>2, NamesApart
          <6> QED
            BY <2>4, <6>1
        <5> QED
          BY <5>1
      <4>2. next[i] = s[i]
        BY <2>1, <2>4, <3>2, NamesApart
      <4> QED
        BY <1>1, <2>8, <4>1, <4>2 DEF Sound
    <3> QED
      BY <3>1, <3>2
  <2>9. \A n \in revoked : next[n] = 0
    BY <1>1, <2>4, <2>6 DEF Sound
  <2>10. Sound(next)
    BY <2>7, <2>8, <2>9 DEF Sound
  <2> QED
    BY <1>3, <2>2, <2>4, <2>10
<1>4. CASE op.type = "revoke"
  <2>1. next = [s EXCEPT ![op.id] = 0]
    BY <1>4 DEF Grants!Revoke, s
  <2>2. next \in StoreStates /\ next[op.id] = 0
    BY <1>1, <2>1, OperationShape, AdministrationAssumption DEF StoreStates
  <2>3. \A n \in Grants!Names : next[n] # 0 => s[n] # 0
    BY <1>1, <2>1 DEF StoreStates
  <2>4. Sound(next)
    BY <1>1, <2>3, SoundBelow
  <2> QED
    BY <1>4, <2>2, <2>4
<1> QED
  BY <1>2, <1>3, <1>4, OperationShape

LEMMA GrantApply ==
    ASSUME GrantInv, NEW p \in Processes, NEW lifetime \in 1 .. 2, Grants!Apply(p, lifetime)
    PROVE  GrantInv'
<1> DEFINE op == process[p].op
           s == Grants!Current(file)
           next == CASE op.type = "create" -> Grants!Create(s, op.id, lifetime)
                     [] op.type = "exchange" -> Grants!Exchange(s, op.id, p, lifetime)
                     [] OTHER -> Grants!Revoke(s, op.id)
<1>1. /\ process[p].at = "locked"
      /\ UNCHANGED <<connectionNow, file, connectionLock, token, revoked>>
      /\ process' = [process EXCEPT
            ![p].at = IF Grants!Refused(s, op) THEN "refused" ELSE "writing",
            ![p].state = IF Grants!Refused(s, op) THEN Grants!Empty ELSE next]
  BY DEF Grants!Apply
<1>2. op \in Grants!Operations /\ Told(op)
  BY <1>1 DEF GrantInv, LockInv, ToldInv
<1>3. process \in [Processes -> [at : GrantPlaces,
                                op : Grants!Operations \cup {Grants!NoOperation},
                                state : StoreStates, queue : Seq(Grants!Operations)]]
  BY DEF GrantInv, GrantTypes
<1> HIDE DEF next, s
<1>4. /\ \A q \in Processes : /\ process'[q].op = process[q].op
                              /\ process'[q].queue = process[q].queue
                              /\ q # p => process'[q] = process[q]
      /\ process'[p].at = IF Grants!Refused(s, op) THEN "refused" ELSE "writing"
      /\ process'[p].state = IF Grants!Refused(s, op) THEN Grants!Empty ELSE next
  BY <1>1, <1>3
<1>5. process'[p].at \in {"refused", "writing"}
  BY <1>4
<1>6. process'[p].at = "writing" =>
         /\ process'[p].state \in StoreStates /\ Sound(process'[p].state)
         /\ op.type = "exchange" => token[op.id] = 0 /\ process'[p].state[op.id] = 0
         /\ op.type = "revoke" => process'[p].state[op.id] = 0
  <2> SUFFICES ASSUME ~Grants!Refused(s, op) PROVE
         /\ next \in StoreStates /\ Sound(next)
         /\ op.type = "exchange" => token[op.id] = 0 /\ next[op.id] = 0
         /\ op.type = "revoke" => next[op.id] = 0
    BY <1>4
  <2> HIDE DEF op
  <2> QED
    BY <1>2, Computed DEF next, s
<1>7. GrantTypes'
  <2>1. process'[p].state \in StoreStates
    BY <1>4, <1>5, <1>6, EmptyState
  <2>2. process'[p] = [process[p] EXCEPT !.at = process'[p].at, !.state = process'[p].state]
    BY <1>1, <1>3
  <2>3. process'[p] \in [at : GrantPlaces, op : Grants!Operations \cup {Grants!NoOperation},
                         state : StoreStates, queue : Seq(Grants!Operations)]
    BY <1>3, <1>5, <2>1, <2>2 DEF GrantPlaces
  <2>4. process' = [process EXCEPT ![p] = process'[p]]
    BY <1>1, <1>3
  <2>5. process' \in [Processes -> [at : GrantPlaces,
                                   op : Grants!Operations \cup {Grants!NoOperation},
                                   state : StoreStates, queue : Seq(Grants!Operations)]]
    BY <1>3, <2>3, <2>4
  <2> QED
    BY <1>1, <2>5 DEF GrantInv, GrantTypes
<1>8. LockInv'
  BY <1>1, <1>2, <1>4, <1>5 DEF GrantInv, LockInv
<1>9. ToldInv'
  <2>1. \A q \in Processes : process'[q].at # "idle" => Told(process'[q].op)
    BY <1>1, <1>2, <1>4 DEF GrantInv, ToldInv
  <2>2. \A q \in Processes : \A k \in DOMAIN process'[q].queue : Told(process'[q].queue[k])
    BY <1>4 DEF GrantInv, ToldInv
  <2> QED
    BY <1>1, <2>1, <2>2 DEF ToldInv, Told
<1>10. FreshInv'
  BY <1>4 DEF GrantInv, FreshInv
<1>11. StateInv'
  <2>1. \A q \in Processes : process'[q].at = "writing" => Sound(process'[q].state)
    BY <1>4, <1>6 DEF GrantInv, StateInv
  <2>2. Sound(file)
    BY DEF GrantInv, StateInv
  <2>3. ASSUME NEW q \in Processes, (process[q].at = "writing")'
        PROVE  Sound(process[q].state)'
    <3>1. Sound(process'[q].state)
      BY <2>1, <2>3
    <3> QED
      BY <1>1, <3>1 DEF Sound
  <2>4. Sound(file)'
    BY <1>1, <2>2 DEF Sound
  <2> QED
    BY <2>3, <2>4 DEF StateInv
<1>12. OutcomeInv'
  <2>1. \A q \in Processes : q # p => process'[q].at \notin {"writing", "saved"}
    BY <1>1, <1>4, Alone
  <2> QED
    <3>1. ASSUME NEW q \in Processes, (process[q].at \in {"writing", "saved"})'
          PROVE  q = p /\ process'[q].at = "writing" /\ process'[q].op = op
      BY <1>4, <1>5, <2>1, <3>1
    <3>2. process'[p].at = "writing" => Outcome(p)' = process'[p].state
      BY DEF Outcome
    <3> QED
      BY <1>1, <1>6, <3>1, <3>2 DEF OutcomeInv
<1>13. RevokedInv'
  BY <1>1 DEF GrantInv, RevokedInv
<1> QED
  BY <1>7, <1>8, <1>9, <1>10, <1>11, <1>12, <1>13 DEF GrantInv

LEMMA GrantSave ==
    ASSUME GrantInv, NEW p \in Processes, Grants!Save(p) PROVE GrantInv'
<1>1. /\ process[p].at = "writing"
      /\ UNCHANGED <<connectionNow, connectionLock, token, revoked>>
      /\ \/ file' = process[p].state /\ process' = [process EXCEPT ![p].at = "saved"]
         \/ file' = file /\ process' = [process EXCEPT ![p].at = "refused"]
  BY DEF Grants!Save
<1>2. process \in [Processes -> [at : GrantPlaces,
                                op : Grants!Operations \cup {Grants!NoOperation},
                                state : StoreStates, queue : Seq(Grants!Operations)]]
  BY DEF GrantInv, GrantTypes
<1>3. \A q \in Processes : /\ process'[q].op = process[q].op
                           /\ process'[q].queue = process[q].queue
                           /\ process'[q].state = process[q].state
                           /\ q # p => process'[q] = process[q]
  BY <1>1, <1>2
<1>4. \/ file' = process[p].state /\ process'[p].at = "saved"
      \/ file' = file /\ process'[p].at = "refused"
  BY <1>1, <1>2
<1>5. GrantTypes'
  BY <1>1, <1>2 DEF GrantInv, GrantTypes, GrantPlaces
<1>6. LockInv'
  BY <1>1, <1>3, <1>4 DEF GrantInv, LockInv
<1>7. ToldInv'
  BY <1>1, <1>3, <1>4 DEF GrantInv, ToldInv, Told
<1>8. FreshInv'
  BY <1>3 DEF GrantInv, FreshInv
<1>9. \A q \in Processes : q # p => process'[q].at \notin {"writing", "saved"}
  BY <1>1, <1>3, Alone
<1>10. StateInv'
  <2>1. Sound(file')
    BY <1>1, <1>4 DEF GrantInv, StateInv
  <2>2. \A q \in Processes : process'[q].at # "writing"
    BY <1>4, <1>9
  <2> QED
    BY <1>1, <2>1, <2>2 DEF StateInv, Sound
<1>11. OutcomeInv'
  BY <1>1, <1>3, <1>4, <1>9 DEF GrantInv, OutcomeInv, Outcome
<1>12. RevokedInv'
  BY <1>1 DEF GrantInv, RevokedInv
<1> QED
  BY <1>5, <1>6, <1>7, <1>8, <1>10, <1>11, <1>12 DEF GrantInv

LEMMA GrantUnlock ==
    ASSUME GrantInv, NEW p \in Processes, Grants!Unlock(p) PROVE GrantInv'
<1> DEFINE op == process[p].op
<1>1. /\ process[p].at \in {"saved", "refused"} /\ connectionLock' \in {"free", connectionLock}
      /\ \/ token' = token
         \/ /\ process[p].at = "saved" /\ op.type \in {"create", "exchange"}
            /\ token' = [token EXCEPT ![op.id] = @ + 1]
      /\ \/ revoked' = revoked
         \/ /\ process[p].at = "saved" /\ op.type = "revoke"
            /\ revoked' = revoked \cup {op.id}
      /\ process' = [process EXCEPT ![p] = [Grants!Idle EXCEPT !.queue = process[p].queue]]
      /\ UNCHANGED <<connectionNow, file>>
  BY DEF Grants!Unlock, Grants!Idled
<1>2. op \in Grants!Operations /\ Told(op)
  BY <1>1 DEF GrantInv, LockInv, ToldInv
<1>3. process \in [Processes -> [at : GrantPlaces,
                                op : Grants!Operations \cup {Grants!NoOperation},
                                state : StoreStates, queue : Seq(Grants!Operations)]]
  BY DEF GrantInv, GrantTypes
<1>4. /\ \A q \in Processes : /\ process'[q].queue = process[q].queue
                              /\ q # p => process'[q] = process[q]
      /\ process'[p].at = "idle" /\ process'[p].op = Grants!NoOperation
  BY <1>1, <1>3, IdleShape
<1>5. \A q \in Processes : process'[q].at = "idle" /\ process'[q].op = Grants!NoOperation
  BY <1>1, <1>4, Alone
<1>6. /\ token \in [Ids -> Int]
      /\ \A i \in Ids : -1 <= token[i] /\ token[i] <= 1
      /\ revoked \subseteq Grants!Names
  BY DEF GrantInv, GrantTypes
\* A token is handed out for a new invitation, or for one whose code is used up.
<1>7. \/ token' = token
      \/ /\ process[p].at = "saved" /\ op.id \in Ids /\ op.type \in {"create", "exchange"}
         /\ token' = [token EXCEPT ![op.id] = @ + 1]
         /\ \/ op.type = "create" /\ token[op.id] = -1
            \/ op.type = "exchange" /\ token[op.id] = 0 /\ file[op.id] = 0
  <2>1. CASE process[p].at = "saved" /\ op.type = "create"
    BY <1>1, <1>2, <2>1, OperationShape DEF Told
  <2>2. CASE process[p].at = "saved" /\ op.type = "exchange"
    BY <1>1, <1>2, <2>2, OperationShape DEF GrantInv, OutcomeInv, Outcome
  <2> QED
    BY <1>1, <2>1, <2>2
<1> HIDE DEF op
<1>8. /\ token' \in [Ids -> Int]
      /\ \A i \in Ids : /\ -1 <= token'[i] /\ token'[i] <= 1 /\ token[i] <= token'[i]
                        /\ token'[i] # token[i] =>
                              /\ i = op.id
                              /\ token[i] = -1 => op.type = "create"
                              /\ file[i] # 0 => token'[i] < 1
                              /\ token[i] # -1 => file[i] = 0
  BY <1>6, <1>7
<1>9. /\ revoked' \subseteq Grants!Names
      /\ \A n \in revoked' : n \notin revoked =>
            n = op.id /\ op.type = "revoke" /\ file[n] = 0
  <2>1. process[p].at = "saved" /\ op.type = "revoke" => file[op.id] = 0
    BY DEF GrantInv, OutcomeInv, Outcome, op
  <2> QED
    BY <1>1, <1>2, <1>6, <2>1, OperationShape DEF op
<1>10. GrantTypes'
  <2>1. [Grants!Idle EXCEPT !.queue = process[p].queue] \in
           [at : GrantPlaces, op : Grants!Operations \cup {Grants!NoOperation},
            state : StoreStates, queue : Seq(Grants!Operations)]
    BY <1>3, IdleShape
  <2>2. process' \in [Processes -> [at : GrantPlaces,
                                   op : Grants!Operations \cup {Grants!NoOperation},
                                   state : StoreStates, queue : Seq(Grants!Operations)]]
    BY <1>1, <1>3, <2>1
  <2> QED
    BY <1>1, <1>8, <1>9, <2>2 DEF GrantInv, GrantTypes
<1>11. LockInv'
  BY <1>5 DEF LockInv
<1> DEFINE Known(o) == /\ o.type = "create" => token'[o.id] = -1
                       /\ o.type # "create" /\ o.id \in Ids => token'[o.id] >= 0
                       /\ o.type # "create" /\ o.id \notin Ids => token'[o.id[1]] > 0
<1>12. ASSUME NEW o \in Grants!Operations, Told(o), o.type = "create" => o # op
       PROVE  Known(o)
  <2>1. CASE o.type = "create"
    <3>1. op.type = "create" => o.id # op.id
      BY <1>2, <1>12, <2>1 DEF Grants!Operations
    <3>2. token[o.id] = -1 /\ o.id \in Ids
      BY <1>12, <2>1, OperationShape DEF Told
    <3>3. token'[o.id] = token[o.id]
      BY <1>8, <3>1, <3>2
    <3> QED
      BY <2>1, <3>2, <3>3
  <2>2. CASE o.type # "create" /\ o.id \in Ids
    BY <1>6, <1>8, <1>12, <2>2 DEF Told
  <2>3. CASE o.type # "create" /\ o.id \notin Ids
    <3>1. o.id[1] \in Ids
      BY <1>12, <2>3, OperationShape, NamesApart
    <3> QED
      BY <1>6, <1>8, <1>12, <2>3, <3>1 DEF Told
  <2> QED
    BY <2>1, <2>2, <2>3
<1>13. ToldInv'
  <2>1. ASSUME NEW q \in Processes, NEW k \in DOMAIN process[q].queue
        PROVE  Known(process[q].queue[k])
    <3>1. process[q].queue[k] \in Grants!Operations /\ Told(process[q].queue[k])
      BY <1>3 DEF GrantInv, ToldInv
    <3>2. process[q].queue[k].type = "create" => process[q].queue[k] # op
      BY DEF GrantInv, FreshInv, op
    <3> HIDE DEF Known
    <3> QED
      BY <1>12, <3>1, <3>2
  <2> QED
    BY <1>4, <1>5, <2>1 DEF ToldInv, Told
<1>14. FreshInv'
  <2>1. \A q \in Processes : \A k \in DOMAIN process[q].queue :
           process[q].queue[k] # Grants!NoOperation
    BY <1>3, OperationShape
  <2> QED
    BY <1>4, <1>5, <2>1 DEF GrantInv, FreshInv
<1>15. StateInv'
  <2>1. Sound(file)
    BY DEF GrantInv, StateInv
  <2>2. ASSUME NEW i \in Ids PROVE file[i] # 0 => token'[i] < 1
    BY <1>8, <2>1 DEF Sound
  <2>3. ASSUME NEW i \in Ids, NEW q \in Processes, file[<<i, q>>] # 0
        PROVE  /\ token'[i] >= 0 /\ file[i] = 0
               /\ \A r \in Processes : file[<<i, r>>] # 0 => r = q
    BY <1>6, <1>8, <2>1, <2>3 DEF Sound
  <2>4. \A n \in revoked' : file[n] = 0
    BY <1>9, <2>1 DEF Sound
  <2>5. Sound(file)'
    BY <1>1, <2>2, <2>3, <2>4 DEF Sound
  <2> QED
    BY <1>5, <2>5 DEF StateInv
<1>16. OutcomeInv'
  BY <1>5 DEF OutcomeInv
<1>17. RevokedInv'
  <2> SUFFICES ASSUME NEW n \in revoked'
               PROVE  /\ n \in Ids => token'[n] >= 0
                      /\ n \notin Ids => token'[n[1]] > 0
    BY DEF RevokedInv
  <2>1. /\ n \in Ids => token[n] >= 0
        /\ n \notin Ids => token[n[1]] > 0
    <3>1. CASE n \in revoked
      BY <3>1 DEF GrantInv, RevokedInv
    <3>2. CASE n \notin revoked
      BY <1>2, <1>9, <3>2 DEF Told
    <3> QED
      BY <3>1, <3>2
  <2>2. n \notin Ids => n[1] \in Ids
    BY <1>9, NamesApart
  <2> QED
    BY <1>6, <1>8, <2>1, <2>2
<1> QED
  BY <1>10, <1>11, <1>13, <1>14, <1>15, <1>16, <1>17 DEF GrantInv

LEMMA GrantStep ==
    ASSUME GrantInv, Grants!Next \/ UNCHANGED grantVars PROVE GrantInv'
<1>1. CASE UNCHANGED grantVars
  <2>1. UNCHANGED <<connectionNow, file, connectionLock, process, token, revoked>>
    BY <1>1 DEF grantVars
  <2> QED
    BY <2>1 DEF GrantInv, GrantTypes, LockInv, ToldInv, Told, FreshInv, StateInv, Sound,
                OutcomeInv, Outcome, RevokedInv
<1>2. CASE Grants!Next
  BY <1>2, GrantTick, GrantMutate, GrantBegin, GrantSave, GrantUnlock, GrantCrash, GrantApply
     DEF Grants!Next
<1> QED
  BY <1>1, <1>2

\* The clock moved on or not, what authenticates a request is in the file.
LEMMA GrantsFollow ==
    ASSUME GrantInv PROVE GrantsAreExact
<1>1. Grants!TypeOK
  BY DEF GrantInv, GrantTypes, StoreStates, GrantPlaces, Grants!TypeOK
<1>2. \A n \in Grants!Names : Grants!Authenticated(n) => file[n] # 0
  BY DEF Grants!Authenticated, Grants!Current
<1>3. Sound(file) /\ revoked \subseteq Grants!Names
  BY DEF GrantInv, StateInv, GrantTypes
<1>4. Grants!RevokedStaysRevoked
  BY <1>2, <1>3 DEF Grants!RevokedStaysRevoked, Sound
<1>5. ASSUME NEW i \in Ids
      PROVE  Grants!Cardinality({p \in Processes : Grants!Authenticated(<<i, p>>)}) <= 1
  <2> DEFINE S == {p \in Processes : Grants!Authenticated(<<i, p>>)}
  <2>1. \A p, q \in S : p = q
    BY <1>2, <1>3, NamesApart DEF Sound
  <2> HIDE DEF S
  <2>2. Cardinality(S) <= 1
    <3>1. CASE S = {}
      BY <3>1, FS_EmptySet
    <3>2. CASE S # {}
      <4>1. PICK p \in S : TRUE
        BY <3>2
      <4>2. S = {p}
        BY <2>1, <4>1
      <4>3. Cardinality({p}) = 1
        BY FS_Singleton
      <4> QED
        BY <4>2, <4>3
    <3> QED
      BY <3>1, <3>2
  <2>3. Grants!Cardinality(S) <= 1
    BY <2>2, Counting
  <2> QED
    BY <2>3 DEF S
<1>6. \A i \in Ids : token[i] <= 1
  BY DEF GrantInv, GrantTypes
<1>7. \A i \in Ids : file[i] # 0 => \A p \in Processes : file[<<i, p>>] = 0
  BY <1>3 DEF Sound
<1> QED
  BY <1>1, <1>4, <1>5, <1>6, <1>7 DEF GrantsAreExact, Grants!InvitationsAreSingleUse

\* However many processes share the store, and wherever they die: an invitation is good
\* for one connection, and what a caller was told is revoked authenticates nothing again
\* (hostConnections).
THEOREM GrantsHold == AdministrationSpec => []GrantsAreExact
<1>1. AdministrationInit => GrantInv
  BY GrantInit DEF AdministrationInit
<1>2. GrantInv /\ [AdministrationNext]_<<part, grantVars, signInVars, installVars, quotaVars,
                                         deviceVars>> => GrantInv'
  BY GrantStep DEF AdministrationNext
<1>3. GrantInv => GrantsAreExact
  BY GrantsFollow
<1> QED
  BY <1>1, <1>2, <1>3, PTL DEF AdministrationSpec

-----------------------------------------------------------------------------
(* Managed runtimes: what a process that works, and one that does not, has *)

InstallRequests == [action : {"install", "cancel"}, by : Callers]

InstallStages ==
    {"none", "empty", "archive", "short", "extracted", "whole", "bad", "moving", "kept"}

InstallStates ==
    [phase : Installs!Phases, owner : Callers \cup {Installs!Nobody}, aborted : BOOLEAN,
     working : BOOLEAN, stage : InstallStages,
     serving : {"nothing", "settling", "locking", "cancelling"},
     by : Callers \cup {Installs!Nobody}, queue : Seq(InstallRequests),
     closed : BOOLEAN, told : BOOLEAN]

\* Only a process that works has an attempt that goes on, or anything in its stage; one
\* that told a caller that its attempt is over does not work.  A stage that cannot be
\* removed is that of an attempt that has failed, once its work is over.
Orderly(h) ==
    /\ Installs!Active(h) \/ h.stage \notin {"none", "kept"} => h.working
    /\ h.told => ~h.working
    /\ ~h.working /\ h.stage = "kept" => h.phase = "failed"
    /\ h.phase = "installed" => h.stage = "none"

InstallInv ==
    /\ target \in {"none", "whole", "damaged"}
    /\ installLock \in Processes \cup {"free", "left"}
    /\ host \in [Processes -> InstallStates]
    /\ \A p \in Processes : Orderly(host[p]) /\ (host[p].working => installLock = p)

\* A step of one process that keeps it orderly; it takes a free lock to work, and
\* gives back only its own.
LEMMA InstallMove ==
    ASSUME InstallInv, NEW p \in Processes, NEW h \in InstallStates,
           host' = [host EXCEPT ![p] = h],
           target' \in {"none", "whole", "damaged"},
           \/ installLock' = installLock /\ (h.working => host[p].working)
           \/ installLock = "free" /\ installLock' = p
           \/ installLock = "free" /\ installLock' \in {"free", "left"} /\ (h.working => host[p].working)
           \/ /\ installLock = p /\ installLock' \in {"free", "left"} /\ ~h.working,
           Orderly(h)
    PROVE  InstallInv'
<1>1. /\ host' \in [Processes -> InstallStates] /\ host'[p] = h
      /\ \A q \in Processes : q # p => host'[q] = host[q]
  BY DEF InstallInv
<1>2. \A q \in Processes : host[q].working => installLock = q
  BY DEF InstallInv
<1>3. \A q \in Processes : host'[q].working => installLock' = q
  <2>1. "free" \notin Processes /\ "left" \notin Processes
    BY AdministrationAssumption
  <2>2. ASSUME NEW q \in Processes, host'[q].working, q # p PROVE installLock' = q
    BY <1>1, <1>2, <2>1, <2>2
  <2>3. host'[p].working => installLock' = p
    BY <1>1, <1>2, <2>1
  <2> QED
    BY <2>2, <2>3
<1>4. \A q \in Processes : q # p => Orderly(host'[q])
  BY <1>1 DEF InstallInv
<1>5. Orderly(host'[p])
  BY <1>1
<1>6. installLock' \in Processes \cup {"free", "left"}
  BY DEF InstallInv
<1>7. \A q \in Processes : Orderly(host[q])'
  BY <1>4, <1>5 DEF Orderly, Installs!Active
<1> QED
  BY <1>1, <1>3, <1>6, <1>7 DEF InstallInv

LEMMA FreshProcess ==
    /\ Installs!Fresh \in InstallStates /\ ~Installs!Fresh.working /\ Orderly(Installs!Fresh)
<1>1. Installs!Fresh \in InstallStates
  BY DEF Installs!Fresh, InstallStates, InstallStages, Installs!Phases
<1>2. ~Installs!Fresh.working /\ Orderly(Installs!Fresh)
  BY DEF Installs!Fresh, Orderly, Installs!Active
<1> QED
  BY <1>1, <1>2

LEMMA InstallInit == Installs!Init => InstallInv
  BY FreshProcess DEF Installs!Init, InstallInv

\* A request waits, is taken, is refused or is answered.
LEMMA InstallServes ==
    ASSUME InstallInv, NEW p \in Processes,
           \/ \E action \in {"install", "cancel"} : \E c \in Callers : Installs!Request(p, action, c)
           \/ Installs!Serve(p) \/ Installs!Settled(p) \/ Installs!Cancelled(p)
           \/ Installs!Close(p) \/ Installs!CloseAttempt(p) \/ Installs!Closed(p)
    PROVE  InstallInv'
<1> DEFINE g == host[p]
<1>1. g \in InstallStates /\ Orderly(g) /\ UNCHANGED <<target, installLock>>
      /\ target \in {"none", "whole", "damaged"} /\ host \in [Processes -> InstallStates]
  BY DEF InstallInv, Installs!Request, Installs!Serve, Installs!Settled, Installs!Cancelled,
         Installs!Close, Installs!CloseAttempt, Installs!Closed
<1> SUFFICES \E h \in InstallStates :
                /\ host' = [host EXCEPT ![p] = h]
                /\ h.working => g.working
                /\ Orderly(h)
  BY <1>1, InstallMove
<1>2. CASE \E action \in {"install", "cancel"} : \E c \in Callers : Installs!Request(p, action, c)
  <2>1. PICK action \in {"install", "cancel"}, c \in Callers : Installs!Request(p, action, c)
    BY <1>2
  <2> DEFINE r == [action |-> action, by |-> c]
             h == [g EXCEPT !.queue = Append(@, r)]
  <2>2. host' = [host EXCEPT ![p] = h]
    BY <1>1, <2>1 DEF Installs!Request
  <2>3. h \in InstallStates
    <3>1. r \in InstallRequests
      BY DEF InstallRequests
    <3>2. Append(g.queue, r) \in Seq(InstallRequests)
      BY <1>1, <3>1 DEF InstallStates
    <3> HIDE DEF r
    <3> QED
      BY <1>1, <3>2 DEF InstallStates
  <2>4. h.working = g.working /\ Orderly(h)
    BY <1>1 DEF InstallStates, Orderly, Installs!Active
  <2> QED
    BY <2>2, <2>3, <2>4
<1>3. CASE Installs!Serve(p)
  <2> DEFINE next == Head(g.queue)
  <2>1. Tail(g.queue) \in Seq(InstallRequests) /\ next \in InstallRequests
    BY <1>1, <1>3 DEF Installs!Serve, InstallStates
  <2>2. next.by \in Callers
    BY <2>1 DEF InstallRequests
  <2> DEFINE rest == [g EXCEPT !.queue = Tail(g.queue)]
             settling == [rest EXCEPT !.serving = "settling", !.by = next.by]
             cancelling == [rest EXCEPT !.serving = "cancelling", !.aborted = TRUE]
  <2>3. \/ host' = [host EXCEPT ![p] = settling]
        \/ host' = [host EXCEPT ![p] = cancelling]
        \/ host' = [host EXCEPT ![p] = rest]
    BY <1>1, <1>3 DEF Installs!Serve
  <2>4. rest \in InstallStates /\ rest.working = g.working /\ Orderly(rest)
    BY <1>1, <2>1 DEF InstallStates, Orderly, Installs!Active
  <2> HIDE DEF rest, next
  <2>5. settling \in InstallStates /\ settling.working = g.working /\ Orderly(settling)
    BY <2>2, <2>4 DEF InstallStates, Orderly, Installs!Active
  <2>6. cancelling \in InstallStates /\ cancelling.working = g.working /\ Orderly(cancelling)
    BY <2>4 DEF InstallStates, Orderly, Installs!Active
  <2> QED
    BY <2>3, <2>4, <2>5, <2>6
<1>4. CASE Installs!Settled(p)
  <2> DEFINE locking == [g EXCEPT !.serving = "locking"]
             served == [g EXCEPT !.serving = "nothing", !.by = Installs!Nobody]
  <2>1. host' = [host EXCEPT ![p] = locking] \/ host' = [host EXCEPT ![p] = served]
    BY <1>1, <1>4 DEF Installs!Settled, Installs!Served
  <2>2. locking \in InstallStates /\ locking.working = g.working /\ Orderly(locking)
    BY <1>1 DEF InstallStates, Orderly, Installs!Active
  <2>3. served \in InstallStates /\ served.working = g.working /\ Orderly(served)
    BY <1>1 DEF InstallStates, Orderly, Installs!Active
  <2> QED
    BY <2>1, <2>2, <2>3
<1>5. CASE Installs!Cancelled(p)
  <2> DEFINE h == [g EXCEPT !.serving = "nothing", !.told = TRUE]
  <2>1. host' = [host EXCEPT ![p] = h] /\ ~g.working
    BY <1>1, <1>5 DEF Installs!Cancelled
  <2>2. h \in InstallStates /\ h.working = g.working
    BY <1>1 DEF InstallStates
  <2>3. Orderly(h)
    BY <1>1, <2>1 DEF InstallStates, Orderly, Installs!Active
  <2> QED
    BY <2>1, <2>2, <2>3
<1>6. CASE Installs!Close(p)
  <2> DEFINE h == [g EXCEPT !.closed = TRUE]
  <2>1. host' = [host EXCEPT ![p] = h]
    BY <1>1, <1>6 DEF Installs!Close
  <2>2. h \in InstallStates /\ h.working = g.working /\ Orderly(h)
    BY <1>1 DEF InstallStates, Orderly, Installs!Active
  <2> QED
    BY <2>1, <2>2
<1>7. CASE Installs!CloseAttempt(p)
  <2> DEFINE h == [g EXCEPT !.aborted = TRUE]
  <2>1. host' = [host EXCEPT ![p] = h]
    BY <1>1, <1>7 DEF Installs!CloseAttempt
  <2>2. h \in InstallStates /\ h.working = g.working /\ Orderly(h)
    BY <1>1 DEF InstallStates, Orderly, Installs!Active
  <2> QED
    BY <2>1, <2>2
<1>8. CASE Installs!Closed(p)
  <2> DEFINE h == [g EXCEPT !.told = TRUE]
  <2>1. host' = [host EXCEPT ![p] = h] /\ ~g.working
    BY <1>1, <1>8 DEF Installs!Closed
  <2>2. h \in InstallStates /\ h.working = g.working
    BY <1>1 DEF InstallStates
  <2>3. Orderly(h)
    BY <1>1, <2>1 DEF InstallStates, Orderly, Installs!Active
  <2> QED
    BY <2>1, <2>2, <2>3
<1> QED
  BY <1>2, <1>3, <1>4, <1>5, <1>6, <1>7, <1>8

\* The work: a download, what is made of it, and its cleanup.
LEMMA InstallWorks ==
    ASSUME InstallInv, NEW p \in Processes,
           \/ \E archive \in {"archive", "short"} : Installs!Download(p, archive)
           \/ Installs!Extract(p) \/ \E good \in BOOLEAN : Installs!Verify(p, good)
           \/ Installs!Check(p) \/ Installs!Publish(p) \/ Installs!Stop(p) \/ Installs!Clean(p)
    PROVE  InstallInv'
<1> DEFINE g == host[p]
<1>1. /\ g \in InstallStates /\ Orderly(g) /\ installLock' = installLock
      /\ target \in {"none", "whole", "damaged"} /\ host \in [Processes -> InstallStates]
  BY DEF InstallInv, Installs!Download, Installs!Extract, Installs!Verify, Installs!Check, Installs!Publish,
         Installs!Stop, Installs!Clean
<1>2. target' \in {"none", "whole", "damaged"}
  BY <1>1 DEF Installs!Download, Installs!Extract, Installs!Verify, Installs!Check, Installs!Publish,
              Installs!Stop, Installs!Clean
<1>3. g.working /\ ~g.told
  BY <1>1 DEF Installs!Download, Installs!Extract, Installs!Verify, Installs!Check, Installs!Publish,
              Installs!Stop, Installs!Clean, Installs!Active, Orderly
<1>4. \E phase \in Installs!Phases :
         \E stage \in InstallStages :
            /\ host' = [host EXCEPT ![p] = [g EXCEPT !.phase = phase, !.stage = stage]]
            /\ phase = "installed" => stage = "none"
  <2> DEFINE Stages == InstallStages
             new(x, y) == [g EXCEPT !.phase = x, !.stage = y]
  <2>1. /\ g.phase \in Installs!Phases /\ g.stage \in Stages
        /\ \A x : [g EXCEPT !.phase = x] = new(x, g.stage)
        /\ \A y : [g EXCEPT !.stage = y] = new(g.phase, y)
    BY <1>1 DEF InstallStates
  <2> SUFFICES \E x \in Installs!Phases : \E y \in Stages :
                  host' = [host EXCEPT ![p] = new(x, y)] /\ (x = "installed" => y = "none")
    OBVIOUS
  <2> USE DEF InstallStages
  <2>2. CASE \E archive \in {"archive", "short"} : Installs!Download(p, archive)
    <3>1. PICK archive \in {"archive", "short"} : Installs!Download(p, archive)
      BY <2>2
    <3> DEFINE x == IF archive = "archive" THEN "verifying" ELSE "failed"
    <3>2. host' = [host EXCEPT ![p] = new(x, archive)]
      BY <1>1, <3>1 DEF Installs!Download
    <3>3. x \in Installs!Phases \ {"installed"} /\ archive \in Stages
      BY DEF Installs!Phases
    <3> HIDE DEF new, x
    <3> QED
      BY <3>2, <3>3
  <2>3. CASE Installs!Extract(p)
    <3>1. host' = [host EXCEPT ![p] = new(g.phase, "extracted")] /\ g.phase = "verifying"
      BY <1>1, <2>1, <2>3 DEF Installs!Extract
    <3> HIDE DEF new
    <3> QED
      BY <2>1, <3>1
  <2>4. CASE \E good \in BOOLEAN : Installs!Verify(p, good)
    <3>1. \/ host' = [host EXCEPT ![p] = new(g.phase, "whole")]
          \/ host' = [host EXCEPT ![p] = new("failed", "bad")]
      BY <1>1, <2>1, <2>4 DEF Installs!Verify
    <3>3. g.phase = "verifying"
      BY <2>4 DEF Installs!Verify
    <3>2. "failed" \in Installs!Phases
      BY DEF Installs!Phases
    <3> HIDE DEF new
    <3> QED
      BY <2>1, <3>1, <3>2, <3>3
  <2>5. CASE Installs!Publish(p)
    <3>1. host' = [host EXCEPT ![p] = new("installed", "none")]
      BY <1>1, <2>1, <2>5 DEF Installs!Publish
    <3>2. "installed" \in Installs!Phases
      BY DEF Installs!Phases
    <3> HIDE DEF new
    <3> QED
      BY <3>1, <3>2
  <2>6. CASE Installs!Stop(p)
    <3>1. \E x \in {"cancelled", "failed"} : host' = [host EXCEPT ![p] = new(x, g.stage)]
      BY <1>1, <2>1, <2>6 DEF Installs!Stop
    <3>2. {"cancelled", "failed"} \subseteq Installs!Phases
      BY DEF Installs!Phases
    <3> HIDE DEF new
    <3> QED
      BY <2>1, <3>1, <3>2
  <2>7. CASE Installs!Clean(p)
    <3>1. \E y \in {"none", "kept"} : host' = [host EXCEPT ![p] = new(g.phase, y)]
      BY <1>1, <2>1, <2>7 DEF Installs!Clean
    <3>2. g.phase # "installed"
      BY <1>1, <2>7 DEF Installs!Clean, Orderly
    <3> HIDE DEF new
    <3> QED
      BY <2>1, <3>1, <3>2
  <2>8. CASE Installs!Check(p)
    <3>1. host' = [host EXCEPT ![p] = new(g.phase, "moving")] /\ g.phase = "verifying"
      BY <1>1, <2>1, <2>8 DEF Installs!Check
    <3> HIDE DEF new
    <3> QED
      BY <2>1, <3>1
  <2> QED
    BY <2>2, <2>3, <2>4, <2>5, <2>6, <2>7, <2>8
<1>5. PICK phase \in Installs!Phases, stage \in InstallStages :
              /\ host' = [host EXCEPT ![p] = [g EXCEPT !.phase = phase, !.stage = stage]]
              /\ phase = "installed" => stage = "none"
  BY <1>4
<1> DEFINE h == [g EXCEPT !.phase = phase, !.stage = stage]
<1>6. /\ h \in InstallStates /\ h.working = g.working /\ h.told = g.told
      /\ h.phase = phase /\ h.stage = stage
  BY <1>1 DEF InstallStates
<1>7. Orderly(h)
  BY <1>3, <1>5, <1>6 DEF Orderly
<1> HIDE DEF h
<1> QED
  BY <1>1, <1>2, <1>3, <1>5, <1>6, <1>7, InstallMove DEF h

\* The work begins and ends under the lock; a process that dies leaves it behind.
LEMMA InstallLocks ==
    ASSUME InstallInv, NEW p \in Processes,
           Installs!Begin(p) \/ Installs!Unlock(p) \/ Installs!Restart(p)
    PROVE  InstallInv'
<1> DEFINE g == host[p]
<1>1. /\ g \in InstallStates /\ Orderly(g) /\ host \in [Processes -> InstallStates]
      /\ target' \in {"none", "whole", "damaged"}
      /\ g.working => installLock = p
  BY DEF InstallInv, Installs!Begin, Installs!Unlock, Installs!Restart
<1>2. CASE Installs!Begin(p)
  <2> DEFINE served == [g EXCEPT !.serving = "nothing", !.by = Installs!Nobody]
             begun == [g EXCEPT !.serving = "nothing", !.phase = "downloading", !.owner = g.by,
                                !.by = Installs!Nobody, !.aborted = FALSE, !.working = TRUE,
                                !.stage = "empty", !.told = FALSE]
  <2>0. /\ target' = target
        /\ \/ host' = [host EXCEPT ![p] = served] /\ installLock' = installLock
           \/ host' = [host EXCEPT ![p] = served] /\ installLock = "free" /\ installLock' \in {"free", "left"}
           \/ host' = [host EXCEPT ![p] = begun] /\ installLock = "free" /\ installLock' = p
    BY <1>1, <1>2 DEF Installs!Begin, Installs!Served
  <2>1. ASSUME host' = [host EXCEPT ![p] = served],
               \/ installLock' = installLock
               \/ installLock = "free" /\ installLock' \in {"free", "left"}
        PROVE  InstallInv'
    <3>1. served \in InstallStates /\ served.working = g.working /\ Orderly(served)
      BY <1>1 DEF InstallStates, Orderly, Installs!Active
    <3> HIDE DEF served
    <3> QED
      BY <1>1, <2>1, <3>1, InstallMove
  <2>2. ASSUME host' = [host EXCEPT ![p] = begun], installLock = "free", installLock' = p
        PROVE  InstallInv'
    <3>2. begun.working /\ ~begun.told /\ Orderly(begun)
      BY <1>1 DEF InstallStates, Orderly
    <3>3. begun \in InstallStates
      <4>1. "downloading" \in Installs!Phases
        BY DEF Installs!Phases
      <4>2. g \in InstallStates
        BY <1>1
      <4> HIDE DEF g
      <4> QED
        BY <4>1, <4>2 DEF InstallStates, InstallStages
    <3> HIDE DEF begun
    <3> QED
      BY <1>1, <2>2, <3>2, <3>3, InstallMove
  <2> HIDE DEF served, begun
  <2> QED
    BY <2>0, <2>1, <2>2
<1>3. CASE Installs!Unlock(p)
  <2> DEFINE new(x) == [g EXCEPT !.working = FALSE, !.owner = Installs!Nobody, !.aborted = FALSE,
                                 !.phase = x]
  <2>0. \E clean \in BOOLEAN :
           /\ clean => g.stage = "none"
           /\ host' = [host EXCEPT ![p] = new(IF g.phase = "installed" \/ clean THEN g.phase ELSE "failed")]
    BY <1>3 DEF Installs!Unlock
  <2>1. PICK x : /\ host' = [host EXCEPT ![p] = new(x)]
                 /\ x \in {g.phase, "failed"}
                 /\ g.stage = "kept" => x = "failed"
                 /\ x = "installed" => g.phase = "installed"
    <3>1. g.phase = "installed" => g.stage = "none"
      BY <1>1 DEF Orderly
    <3>2. PICK clean \in BOOLEAN :
             /\ clean => g.stage = "none"
             /\ host' = [host EXCEPT ![p] = new(IF g.phase = "installed" \/ clean THEN g.phase ELSE "failed")]
      BY <2>0
    <3>3. CASE g.phase = "installed" \/ clean
      <4>1. host' = [host EXCEPT ![p] = new(g.phase)]
        BY <3>2, <3>3
      <4>2. g.stage # "kept"
        BY <3>1, <3>2, <3>3
      <4> QED
        BY <4>1, <4>2
    <3>4. CASE ~(g.phase = "installed" \/ clean)
      <4>1. host' = [host EXCEPT ![p] = new("failed")]
        BY <3>2, <3>4
      <4> WITNESS "failed"
      <4> QED
        BY <4>1
    <3> QED
      BY <3>3, <3>4
  <2> DEFINE h == new(x)
  <2>2. /\ installLock = p /\ installLock' \in {"free", "left"}
        /\ g.stage \in {"none", "kept"} /\ ~Installs!Active(g) /\ ~g.told
    BY <1>1, <1>3 DEF Installs!Unlock, Orderly
  <2>3. /\ h \in InstallStates /\ ~h.working
        /\ h.stage = g.stage /\ h.phase = x /\ h.told = g.told
    <3>1. x \in Installs!Phases
      BY <1>1, <2>1 DEF InstallStates, Installs!Phases
    <3> QED
      BY <1>1, <3>1 DEF InstallStates
  <2>4. Orderly(h)
    <3>1. ~Installs!Active(h)
      BY <2>1, <2>2, <2>3 DEF Installs!Active
    <3> HIDE DEF h
    <3> QED
      BY <1>1, <2>1, <2>2, <2>3, <3>1 DEF Orderly
  <2> HIDE DEF h
  <2> QED
    BY <1>1, <2>1, <2>2, <2>3, <2>4, InstallMove DEF h
<1>4. CASE Installs!Restart(p)
  <2>1. /\ host' = [host EXCEPT ![p] = Installs!Fresh]
        /\ installLock' = IF installLock = p THEN "left" ELSE installLock
    BY <1>4 DEF Installs!Restart
  <2> QED
    BY <1>1, <2>1, FreshProcess, InstallMove
<1> QED
  BY <1>2, <1>3, <1>4

LEMMA InstallStep ==
    ASSUME InstallInv, Installs!Next \/ UNCHANGED installVars PROVE InstallInv'
<1>1. CASE UNCHANGED installVars
  BY <1>1 DEF installVars, InstallInv, Orderly, Installs!Active
<1>2. CASE Installs!RemoveLock
  BY <1>2, AdministrationAssumption
     DEF Installs!RemoveLock, InstallInv, Orderly, Installs!Active
<1>3. CASE Installs!Damage
  BY <1>3 DEF Installs!Damage, InstallInv, Orderly, Installs!Active
<1> QED
  BY <1>1, <1>2, <1>3, InstallServes, InstallWorks, InstallLocks DEF Installs!Next

\* What changes the runtime that is there: damage from outside, or the process that
\* holds the lock and renames a whole runtime.
LEMMA InstallWrites ==
    ASSUME InstallInv, Installs!Next, target' # target
    PROVE  \/ target = "whole" /\ target' = "damaged"
           \/ /\ target = "none" /\ target' = "whole"
              /\ \E p \in Processes : host[p].stage = "moving" /\ host[p].working /\ installLock = p
<1>1. CASE Installs!Damage
  BY <1>1 DEF Installs!Damage
<1>2. ASSUME NEW p \in Processes, Installs!Publish(p)
      PROVE  /\ target = "none" /\ target' = "whole"
             /\ host[p].stage = "moving" /\ host[p].working /\ installLock = p
  BY <1>2 DEF Installs!Publish, InstallInv, Orderly, Installs!Active
<1>3. ASSUME ~Installs!Damage, \A p \in Processes : ~Installs!Publish(p) PROVE target' = target
  BY <1>3 DEF Installs!Next, Installs!RemoveLock, Installs!Request, Installs!Serve,
       Installs!Settled, Installs!Begin, Installs!Cancelled, Installs!Download, Installs!Extract,
       Installs!Verify, Installs!Check, Installs!Stop, Installs!Clean, Installs!Unlock,
       Installs!Close, Installs!CloseAttempt, Installs!Closed, Installs!Restart
<1> QED
  BY <1>1, <1>2, <1>3

\* An abort that comes before the last look at the signal is in time.
LEMMA InstallAborts ==
    ASSUME InstallInv, Installs!Next \/ UNCHANGED installVars, NEW q \in Processes,
           host[q].aborted, host[q].stage # "moving"
    PROVE  host'[q].stage # "moving"
<1> DEFINE g == host[q]
<1>0. g \in InstallStates /\ host \in [Processes -> InstallStates]
  BY DEF InstallInv
<1>1. CASE UNCHANGED host
  BY <1>1
<1>2. ASSUME NEW p \in Processes, NEW h, host' = [host EXCEPT ![p] = h], p = q => h.stage # "moving"
      PROVE  host'[q].stage # "moving"
  BY <1>0, <1>2
<1>3. CASE UNCHANGED installVars \/ Installs!RemoveLock \/ Installs!Damage
  BY <1>3, <1>1 DEF installVars, Installs!RemoveLock, Installs!Damage
<1>4. ASSUME NEW p \in Processes, NEW action \in {"install", "cancel"}, NEW c \in Callers,
             Installs!Request(p, action, c)
      PROVE  host'[q].stage # "moving"
  BY <1>0, <1>4 DEF Installs!Request, InstallStates
<1>5. ASSUME NEW p \in Processes,
             \/ Installs!Serve(p) \/ Installs!Settled(p) \/ Installs!Begin(p) \/ Installs!Cancelled(p)
             \/ Installs!Close(p) \/ Installs!CloseAttempt(p) \/ Installs!Closed(p) \/ Installs!Restart(p)
      PROVE  host'[q].stage # "moving"
  <2>1. CASE Installs!Serve(p)
    BY <1>0, <2>1 DEF Installs!Serve, InstallStates
  <2>2. CASE Installs!Settled(p)
    BY <1>0, <2>2 DEF Installs!Settled, Installs!Served, InstallStates
  <2>5. CASE Installs!Begin(p)
    <3>1. ASSUME NEW k \in InstallStates
          PROVE  /\ Installs!Served(p)[p] = [host[p] EXCEPT !.serving = "nothing", !.by = Installs!Nobody]
                 /\ [k EXCEPT !.serving = "nothing", !.by = Installs!Nobody].stage = k.stage
      BY <1>0 DEF Installs!Served, InstallStates
    <3>2. ASSUME NEW k \in InstallStates
          PROVE  [k EXCEPT !.serving = "nothing", !.phase = "downloading", !.owner = k.by,
                           !.by = Installs!Nobody, !.aborted = FALSE, !.working = TRUE,
                           !.stage = "empty", !.told = FALSE].stage # "moving"
      BY DEF InstallStates
    <3> QED
      BY <1>0, <1>2, <2>5, <3>1, <3>2 DEF Installs!Begin, Installs!Served
  <2>3. CASE Installs!Cancelled(p) \/ Installs!Close(p) \/ Installs!CloseAttempt(p) \/ Installs!Closed(p)
    BY <1>0, <2>3 DEF Installs!Cancelled, Installs!Close, Installs!CloseAttempt, Installs!Closed,
       InstallStates
  <2>4. CASE Installs!Restart(p)
    BY <1>0, <2>4 DEF Installs!Restart, Installs!Fresh, InstallStates
  <2> QED
    BY <1>5, <2>1, <2>2, <2>3, <2>4, <2>5
<1>6. ASSUME NEW p \in Processes,
             \/ \E archive \in {"archive", "short"} : Installs!Download(p, archive)
             \/ Installs!Extract(p) \/ \E good \in BOOLEAN : Installs!Verify(p, good)
             \/ Installs!Check(p) \/ Installs!Publish(p) \/ Installs!Stop(p)
             \/ Installs!Clean(p) \/ Installs!Unlock(p)
      PROVE  host'[q].stage # "moving"
  <2>1. CASE \E archive \in {"archive", "short"} : Installs!Download(p, archive)
    BY <1>0, <2>1 DEF Installs!Download, InstallStates
  <2>2. CASE Installs!Extract(p) \/ \E good \in BOOLEAN : Installs!Verify(p, good)
    BY <1>0, <2>2 DEF Installs!Extract, Installs!Verify, InstallStates
  <2>3. CASE Installs!Check(p)
    BY <1>0, <2>3 DEF Installs!Check, InstallStates
  <2>4. CASE Installs!Publish(p)
    BY <1>0, <2>4 DEF Installs!Publish, InstallStates
  <2>6. CASE Installs!Stop(p)
    BY <1>0, <2>6 DEF Installs!Stop, InstallStates
  <2>7. CASE Installs!Clean(p)
    BY <1>0, <2>7 DEF Installs!Clean, InstallStates
  <2>5. CASE Installs!Unlock(p)
    BY <1>0, <2>5 DEF Installs!Unlock, InstallStates
  <2> QED
    BY <1>6, <2>1, <2>2, <2>3, <2>4, <2>5, <2>6, <2>7
<1> QED
  BY <1>3, <1>4, <1>5, <1>6 DEF Installs!Next

\* Whatever processes install and die, and whatever cannot be cleaned up: one works at a
\* time, what it told its callers stays true, and a runtime that is there is never
\* replaced (providerRuntimes).
THEOREM InstallsHold == AdministrationSpec => InstallsAreSound
<1>1. AdministrationInit => InstallInv
  BY InstallInit DEF AdministrationInit
<1>2. InstallInv /\ [AdministrationNext]_<<part, grantVars, signInVars, installVars, quotaVars,
                                           deviceVars>> => InstallInv'
  BY InstallStep DEF AdministrationNext
<1>3. InstallInv => Installs!TypeOK /\ Installs!InstallsAreExclusive
  BY DEF InstallInv, InstallStates, Orderly, Installs!TypeOK, Installs!InstallsAreExclusive
<1>4. InstallInv /\ [AdministrationNext]_<<part, grantVars, signInVars, installVars, quotaVars,
                                           deviceVars>>
      => [\/ UNCHANGED target
          \/ target = "whole" /\ target' = "damaged"
          \/ /\ target = "none" /\ target' = "whole"
             /\ \E p \in Processes : host[p].stage = "moving" /\ host[p].working
                                     /\ installLock = p]_<<target, installLock, host>>
  BY InstallWrites DEF AdministrationNext, installVars
<1>5. InstallInv /\ [AdministrationNext]_<<part, grantVars, signInVars, installVars, quotaVars,
                                           deviceVars>>
      => [\A p \in Processes : host[p].aborted /\ host[p].stage # "moving"
                               => host'[p].stage # "moving"]_<<target, installLock, host>>
  BY InstallAborts DEF AdministrationNext, installVars
<1> QED
  BY <1>1, <1>2, <1>3, <1>4, <1>5, PTL
     DEF AdministrationSpec, InstallsAreSound, Installs!NeverOverwritten, Installs!runtimeVars

-----------------------------------------------------------------------------
(* Quota and usage: what an observation was worth when it was made *)

Lookups ==
    [at : {"idle", "asked", "read", "done"}, account : Accounts \cup {"none"},
     instance : Instances \cup {"none"}, read : Nat, left : Int, ok : BOOLEAN,
     verdict : {"none", "unbound", "unknown", "allow", "deny"}, rightly : BOOLEAN]

QuotaTypes ==
    /\ usageNow \in 1 .. UsageTime
    /\ bindings \subseteq Quotas!Bindings /\ Quotas!Valid(bindings)
    /\ left \in [Instances -> Int]
    /\ enough \in [Instances -> Nat]
    /\ snapshot \in [Instances -> [at : Nat, left : Int, ok : BOOLEAN]]
    /\ call \in [Calls -> Lookups]
    /\ capture \in [Records -> {"none", "sent", "unknown", "stored"}]

\* An observation that shows enough was made when there was enough.
ObservedInv ==
    \A i \in Instances :
       /\ enough[i] <= usageNow
       /\ left[i] >= Minimum => enough[i] = usageNow
       /\ snapshot[i].at # 0 /\ snapshot[i].left >= Minimum => enough[i] >= snapshot[i].at

\* A lookup reads the instance that is bound to its account; what it read shows
\* what it says, and a run that was admitted was admitted rightly.
LookupInv ==
    \A c \in Calls :
       /\ call[c].at \in {"asked", "read"} \/ call[c].instance # "none" =>
             \E b \in bindings : b.account = call[c].account /\ b.instance = call[c].instance
       /\ call[c].at = "read" /\ call[c].ok /\ call[c].left >= Minimum =>
             enough[call[c].instance] >= call[c].read
       /\ call[c].verdict = "allow" => call[c].rightly

QuotaInv == QuotaTypes /\ ObservedInv /\ LookupInv /\ Quotas!CaptureIsTrue

LEMMA QuotaInit == Quotas!Init => QuotaInv
<1> SUFFICES ASSUME Quotas!Init PROVE QuotaInv
  OBVIOUS
<1>1. usageNow = 1 /\ 1 \in 1 .. UsageTime
  BY AdministrationAssumption DEF Quotas!Init
<1>2. /\ bindings \subseteq Quotas!Bindings /\ Quotas!Valid(bindings)
      /\ left \in [Instances -> Int]
      /\ enough = [i \in Instances |-> IF left[i] >= Minimum THEN 1 ELSE 0]
      /\ snapshot = [i \in Instances |-> [at |-> 0, left |-> 0, ok |-> FALSE]]
      /\ call = [c \in Calls |-> Quotas!NoCall]
      /\ capture = [r \in Records |-> "none"]
  BY AdministrationAssumption DEF Quotas!Init, Quotas!Remaining
<1>3. /\ Quotas!NoCall \in Lookups /\ Quotas!NoCall.at = "idle"
      /\ Quotas!NoCall.instance = "none" /\ Quotas!NoCall.verdict = "none"
  BY DEF Quotas!NoCall, Lookups
<1>4. QuotaTypes
  BY <1>1, <1>2, <1>3 DEF QuotaTypes
<1>5. ObservedInv
  BY <1>1, <1>2 DEF ObservedInv
<1>6. LookupInv
  BY <1>2, <1>3 DEF LookupInv
<1>7. Quotas!CaptureIsTrue
  BY <1>2 DEF Quotas!CaptureIsTrue
<1> QED
  BY <1>4, <1>5, <1>6, <1>7 DEF QuotaInv

\* Time passes, and what remains changes.
LEMMA QuotaTick == ASSUME QuotaInv, Quotas!Tick PROVE QuotaInv'
<1>1. /\ usageNow' = usageNow + 1 /\ usageNow' \in 1 .. UsageTime /\ usageNow \in Nat
      /\ left' \in [Instances -> Int]
      /\ enough' = [i \in Instances |-> IF left'[i] >= Minimum THEN usageNow' ELSE enough[i]]
      /\ UNCHANGED <<bindings, snapshot, call, capture, stored, wire>>
  BY AdministrationAssumption
     DEF Quotas!Tick, Quotas!Remaining, Quotas!records, QuotaInv, QuotaTypes
<1>2. \A i \in Instances : enough[i] \in Nat /\ enough[i] <= usageNow
  BY DEF QuotaInv, QuotaTypes, ObservedInv
<1>3. \A i \in Instances : /\ enough'[i] \in Nat /\ enough[i] <= enough'[i]
                           /\ enough'[i] <= usageNow'
                           /\ left'[i] >= Minimum => enough'[i] = usageNow'
  BY <1>1, <1>2
<1>4. QuotaTypes'
  BY <1>1, <1>2 DEF QuotaInv, QuotaTypes
<1>5. ObservedInv'
  <2>1. \A i \in Instances : snapshot[i].at \in Nat
    BY DEF QuotaInv, QuotaTypes
  <2>2. ASSUME NEW i \in Instances, snapshot[i].at # 0, snapshot[i].left >= Minimum
        PROVE  enough'[i] >= snapshot[i].at
    <3>1. enough[i] >= snapshot[i].at
      BY <2>2 DEF QuotaInv, ObservedInv
    <3> QED
      BY <1>2, <1>3, <2>1, <3>1
  <2> QED
    BY <1>1, <1>3, <2>2 DEF ObservedInv
<1>6. LookupInv'
  <2>1. ASSUME NEW c \in Calls, call[c].at = "read", call[c].ok, call[c].left >= Minimum
        PROVE  enough'[call[c].instance] >= call[c].read
    <3>1. call[c].instance \in Instances
      BY <2>1 DEF QuotaInv, LookupInv, QuotaTypes, Quotas!Bindings
    <3>2. enough[call[c].instance] >= call[c].read /\ call[c].read \in Nat
      BY <2>1 DEF QuotaInv, LookupInv, QuotaTypes, Lookups
    <3> QED
      BY <1>2, <1>3, <3>1, <3>2
  <2> QED
    BY <1>1, <2>1 DEF QuotaInv, LookupInv
<1>7. Quotas!CaptureIsTrue'
  BY <1>1 DEF QuotaInv, Quotas!CaptureIsTrue
<1> QED
  BY <1>4, <1>5, <1>6, <1>7 DEF QuotaInv

LEMMA QuotaObserve ==
    ASSUME QuotaInv, NEW i \in Instances, NEW ok \in BOOLEAN, Quotas!Observe(i, ok)
    PROVE  QuotaInv'
<1>1. /\ snapshot' = [snapshot EXCEPT ![i] = [at |-> usageNow, left |-> left[i], ok |-> ok]]
      /\ UNCHANGED <<usageNow, bindings, left, enough, call, capture, stored, wire>>
  BY DEF Quotas!Observe, Quotas!records
<1>2. /\ snapshot \in [Instances -> [at : Nat, left : Int, ok : BOOLEAN]]
      /\ usageNow \in Nat /\ left[i] \in Int
  BY AdministrationAssumption DEF QuotaInv, QuotaTypes
<1>3. QuotaTypes'
  BY <1>1, <1>2 DEF QuotaInv, QuotaTypes
<1>4. /\ snapshot'[i].at = usageNow /\ snapshot'[i].left = left[i]
      /\ \A j \in Instances : j # i => snapshot'[j] = snapshot[j]
  BY <1>1, <1>2
<1>5. ObservedInv'
  <2>1. ASSUME NEW j \in Instances
        PROVE  snapshot'[j].at # 0 /\ snapshot'[j].left >= Minimum => enough[j] >= snapshot'[j].at
    <3>1. CASE j = i
      BY <1>2, <1>4, <3>1 DEF QuotaInv, ObservedInv
    <3>2. CASE j # i
      BY <1>4, <3>2 DEF QuotaInv, ObservedInv
    <3> QED
      BY <3>1, <3>2
  <2> QED
    BY <1>1, <2>1 DEF QuotaInv, ObservedInv
<1>6. LookupInv' /\ Quotas!CaptureIsTrue'
  BY <1>1 DEF QuotaInv, LookupInv, Quotas!CaptureIsTrue
<1> QED
  BY <1>3, <1>5, <1>6 DEF QuotaInv

\* A step of one lookup.
LEMMA LookupMove ==
    ASSUME QuotaInv, NEW c \in Calls, NEW d \in Lookups, call' = [call EXCEPT ![c] = d],
           UNCHANGED <<usageNow, bindings, left, enough, snapshot, capture, stored, wire>>,
           d.at \in {"asked", "read"} \/ d.instance # "none" =>
              \E b \in bindings : b.account = d.account /\ b.instance = d.instance,
           d.at = "read" /\ d.ok /\ d.left >= Minimum => enough[d.instance] >= d.read,
           d.verdict = "allow" => d.rightly
    PROVE  QuotaInv'
<1>1. /\ call' \in [Calls -> Lookups] /\ call'[c] = d
      /\ \A e \in Calls : e # c => call'[e] = call[e]
  BY DEF QuotaInv, QuotaTypes
<1>2. QuotaTypes'
  BY <1>1 DEF QuotaInv, QuotaTypes
<1>3. ObservedInv' /\ Quotas!CaptureIsTrue'
  BY DEF QuotaInv, ObservedInv, Quotas!CaptureIsTrue
<1>4. ASSUME NEW e \in Calls
      PROVE  /\ call'[e].at \in {"asked", "read"} \/ call'[e].instance # "none" =>
                \E b \in bindings : b.account = call'[e].account /\ b.instance = call'[e].instance
             /\ call'[e].at = "read" /\ call'[e].ok /\ call'[e].left >= Minimum =>
                   enough[call'[e].instance] >= call'[e].read
             /\ call'[e].verdict = "allow" => call'[e].rightly
  <2>1. CASE e = c
    BY <1>1, <2>1
  <2>2. CASE e # c
    BY <1>1, <2>2 DEF QuotaInv, LookupInv
  <2> QED
    BY <2>1, <2>2
<1>5. LookupInv'
  BY <1>4 DEF LookupInv
<1> QED
  BY <1>2, <1>3, <1>5 DEF QuotaInv

LEMMA QuotaLooks ==
    ASSUME QuotaInv, NEW c \in Calls,
           \/ \E account \in Accounts : \E subject \in Subjects : Quotas!Ask(c, account, subject)
           \/ Quotas!Read(c) \/ Quotas!Decide(c) \/ Quotas!Miss(c)
    PROVE  QuotaInv'
<1> DEFINE g == call[c]
<1>1. /\ g \in Lookups /\ call \in [Calls -> Lookups]
      /\ UNCHANGED <<usageNow, bindings, left, enough, snapshot, capture, stored, wire>>
  BY DEF QuotaInv, QuotaTypes, Quotas!Ask, Quotas!Read, Quotas!Decide, Quotas!Miss,
         Quotas!records
<1>2. /\ g.at \in {"asked", "read"} \/ g.instance # "none" =>
            \E b \in bindings : b.account = g.account /\ b.instance = g.instance
      /\ g.at = "read" /\ g.ok /\ g.left >= Minimum => enough[g.instance] >= g.read
      /\ g.verdict = "allow" => g.rightly
  BY DEF QuotaInv, LookupInv
<1>3. bindings \subseteq Quotas!Bindings
  BY DEF QuotaInv, QuotaTypes
<1> HIDE DEF g
<1>4. ASSUME NEW account \in Accounts, NEW subject \in Subjects, Quotas!Ask(c, account, subject)
      PROVE  QuotaInv'
  <2> DEFINE bound == {b \in bindings : b.account = account /\ b.subject = subject}
             b0 == CHOOSE b \in bound : TRUE
             unbound == [g EXCEPT !.at = "done", !.verdict = "unbound"]
             asked == [g EXCEPT !.at = "asked", !.account = account, !.instance = b0.instance]
  <2>1. /\ g.at = "idle"
        /\ bound = {} => call' = [call EXCEPT ![c] = unbound]
        /\ bound # {} => call' = [call EXCEPT ![c] = asked]
    BY <1>4 DEF Quotas!Ask, g
  <2>2. CASE bound = {}
    <3>1. unbound \in Lookups /\ unbound.at = "done" /\ unbound.verdict = "unbound"
          /\ unbound.instance = g.instance /\ unbound.account = g.account
      BY <1>1 DEF Lookups
    <3>2. call' = [call EXCEPT ![c] = unbound]
      BY <2>1, <2>2
    <3> HIDE DEF unbound
    <3> QED
      BY <1>1, <1>2, <3>1, <3>2, LookupMove
  <2>3. CASE bound # {}
    <3>1. b0 \in bindings /\ b0.account = account /\ b0.instance \in Instances
      BY <1>3, <2>3 DEF Quotas!Bindings
    <3>2. call' = [call EXCEPT ![c] = asked]
      BY <2>1, <2>3
    <3> HIDE DEF b0, bound
    <3>3. asked \in Lookups /\ asked.at = "asked" /\ asked.verdict = g.verdict
          /\ asked.instance = b0.instance /\ asked.account = account /\ asked.rightly = g.rightly
      BY <1>1, <3>1 DEF Lookups
    <3> HIDE DEF asked
    <3> QED
      BY <1>1, <1>2, <3>1, <3>2, <3>3, LookupMove
  <2> QED
    BY <2>2, <2>3
<1>5. CASE Quotas!Read(c)
  <2> DEFINE s == snapshot[g.instance]
             read == [g EXCEPT !.at = "read", !.read = s.at, !.left = s.left,
                               !.ok = s.ok /\ s.at # 0]
  <2>1. g.at = "asked" /\ call' = [call EXCEPT ![c] = read]
    BY <1>1, <1>5 DEF Quotas!Read, g
  <2>2. \E b \in bindings : b.account = g.account /\ b.instance = g.instance
    BY <1>2, <2>1
  <2>3. g.instance \in Instances
    BY <1>3, <2>2 DEF Quotas!Bindings
  <2>4. /\ s \in [at : Nat, left : Int, ok : BOOLEAN]
        /\ s.at # 0 /\ s.left >= Minimum => enough[g.instance] >= s.at
    BY <2>3 DEF QuotaInv, QuotaTypes, ObservedInv
  <2> HIDE DEF s
  <2>5. read \in Lookups /\ read.at = "read" /\ read.instance = g.instance
        /\ read.account = g.account /\ read.verdict = g.verdict /\ read.rightly = g.rightly
        /\ read.read = s.at /\ read.left = s.left /\ (read.ok => s.at # 0)
    <3>1. (s.ok /\ s.at # 0) \in BOOLEAN
      OBVIOUS
    <3> QED
      BY <1>1, <2>4, <3>1 DEF Lookups
  <2> HIDE DEF read
  <2> QED
    BY <1>1, <1>2, <2>1, <2>2, <2>4, <2>5, LookupMove
<1>6. CASE Quotas!Decide(c)
  <2> DEFINE rightly == enough[g.instance] >= usageNow - MaxAge
             verdict == Quotas!Verdict(c)
             decided == [Quotas!NoCall EXCEPT !.at = "done", !.account = g.account,
                           !.instance = g.instance, !.rightly = rightly, !.verdict = verdict]
  <2>1. g.at = "read" /\ call' = [call EXCEPT ![c] = decided]
    BY <1>6 DEF Quotas!Decide, g
  <2>2. verdict \in {"unknown", "allow", "deny"}
    BY DEF Quotas!Verdict
  <2>3. ASSUME verdict = "allow" PROVE rightly
    <3>1. g.ok /\ ~(usageNow - g.read > MaxAge) /\ g.left >= Minimum
      BY <2>3 DEF Quotas!Verdict, g
    <3>2. enough[g.instance] >= g.read
      BY <1>2, <2>1, <3>1
    <3>3. g.instance \in Instances
      BY <1>2, <1>3, <2>1 DEF Quotas!Bindings
    <3>4. enough[g.instance] \in Nat /\ usageNow \in Nat /\ g.read \in Nat /\ MaxAge \in Nat
      BY <1>1, <3>3, AdministrationAssumption DEF QuotaInv, QuotaTypes, Lookups
    <3> QED
      BY <3>1, <3>2, <3>4
  <2>4. rightly \in BOOLEAN
    OBVIOUS
  <2> HIDE DEF rightly, verdict
  <2>5. decided \in Lookups /\ decided.at = "done" /\ decided.account = g.account
        /\ decided.instance = g.instance /\ decided.rightly = rightly
        /\ decided.verdict = verdict
    <3>1. Quotas!NoCall \in Lookups
      BY DEF Quotas!NoCall, Lookups
    <3>2. g.account \in Accounts \cup {"none"} /\ g.instance \in Instances \cup {"none"}
      BY <1>1 DEF Lookups
    <3> QED
      BY <2>2, <2>4, <3>1, <3>2 DEF Lookups
  <2> HIDE DEF decided
  <2> QED
    BY <1>1, <1>2, <2>1, <2>3, <2>5, LookupMove
<1>7. CASE Quotas!Miss(c)
  <2> DEFINE missed == [Quotas!NoCall EXCEPT !.at = "done", !.verdict = "unknown"]
  <2>1. call' = [call EXCEPT ![c] = missed]
    BY <1>7 DEF Quotas!Miss
  <2>2. missed \in Lookups /\ missed.at = "done" /\ missed.instance = "none"
        /\ missed.verdict = "unknown"
    <3>1. Quotas!NoCall \in Lookups /\ Quotas!NoCall.instance = "none"
      BY DEF Quotas!NoCall, Lookups
    <3> QED
      BY <3>1 DEF Lookups
  <2> HIDE DEF missed
  <2> QED
    BY <1>1, <2>1, <2>2, LookupMove
<1> QED
  BY <1>4, <1>5, <1>6, <1>7

\* A record is sent, arrives, is given up or is found in the service.
LEMMA QuotaRecords ==
    ASSUME QuotaInv, NEW r \in Records,
           \/ Quotas!Capture(r) \/ Quotas!Lapse(r) \/ Quotas!Reconcile(r)
           \/ \E receipt \in {"none", "own", "other"} : Quotas!Arrive(r, receipt)
    PROVE  QuotaInv'
<1>1. UNCHANGED <<usageNow, bindings, left, enough, snapshot, call>>
  BY DEF Quotas!Capture, Quotas!Lapse, Quotas!Reconcile, Quotas!Arrive, Quotas!quota
<1>2. capture \in [Records -> {"none", "sent", "unknown", "stored"}]
  BY DEF QuotaInv, QuotaTypes
<1>3. /\ capture' \in [Records -> {"none", "sent", "unknown", "stored"}]
      /\ stored \subseteq stored'
      /\ \A s \in Records : capture'[s] = "stored" => capture[s] = "stored" \/ s \in stored'
  BY <1>2 DEF Quotas!Capture, Quotas!Lapse, Quotas!Reconcile, Quotas!Arrive
<1>4. QuotaTypes'
  BY <1>1, <1>3 DEF QuotaInv, QuotaTypes
<1>5. ObservedInv' /\ LookupInv'
  BY <1>1 DEF QuotaInv, ObservedInv, LookupInv
<1>6. Quotas!CaptureIsTrue'
  BY <1>3 DEF QuotaInv, Quotas!CaptureIsTrue
<1> QED
  BY <1>4, <1>5, <1>6 DEF QuotaInv

LEMMA QuotaStep ==
    ASSUME QuotaInv, Quotas!Next \/ UNCHANGED quotaVars PROVE QuotaInv'
<1>1. CASE UNCHANGED quotaVars
  <2>1. UNCHANGED <<usageNow, bindings, left, enough, snapshot, call, capture, stored, wire>>
    BY <1>1 DEF quotaVars
  <2> QED
    BY <2>1 DEF QuotaInv, QuotaTypes, ObservedInv, LookupInv, Quotas!CaptureIsTrue
<1>2. CASE Quotas!Next
  BY <1>2, QuotaTick, QuotaObserve, QuotaLooks, QuotaRecords DEF Quotas!Next
<1> QED
  BY <1>1, <1>2

\* Whatever the service observes late, wrongly or not at all: a run that its quota
\* admitted is within it, two accounts never draw on one instance, and what is called
\* captured is stored (UsageStatClient).
THEOREM QuotasHold == AdministrationSpec => []QuotasAreTrue
<1>1. AdministrationInit => QuotaInv
  BY QuotaInit DEF AdministrationInit
<1>2. QuotaInv /\ [AdministrationNext]_<<part, grantVars, signInVars, installVars, quotaVars,
                                         deviceVars>> => QuotaInv'
  BY QuotaStep DEF AdministrationNext
<1>3. ASSUME QuotaInv PROVE QuotasAreTrue
  <2>1. Quotas!TypeOK
    BY <1>3 DEF QuotaInv, QuotaTypes, Lookups, Quotas!TypeOK
  <2>2. ASSUME NEW c \in Calls, NEW d \in Calls,
               call[c].instance = call[d].instance, call[c].instance # "none"
        PROVE  call[c].account = call[d].account
    <3>1. PICK b \in bindings : b.account = call[c].account /\ b.instance = call[c].instance
      BY <1>3, <2>2 DEF QuotaInv, LookupInv
    <3>2. PICK e \in bindings : e.account = call[d].account /\ e.instance = call[d].instance
      BY <1>3, <2>2 DEF QuotaInv, LookupInv
    <3> QED
      BY <1>3, <2>2, <3>1, <3>2 DEF QuotaInv, QuotaTypes, Quotas!Valid
  <2>3. \A c \in Calls : call[c].verdict = "allow" => call[c].rightly
    BY <1>3 DEF QuotaInv, LookupInv
  <2>4. Quotas!QuotaIsOwn
    BY <2>2, <2>3 DEF Quotas!QuotaIsOwn
  <2> QED
    BY <1>3, <2>1, <2>4 DEF QuotasAreTrue, QuotaInv
<1> QED
  BY <1>1, <1>2, <1>3, PTL DEF AdministrationSpec

-----------------------------------------------------------------------------
(* Pairing: what the device believes, beside what the server knows *)

DeviceTypes ==
    /\ now \in Nat
    /\ server \in [code : {"none", "pending", "approved", "denied", "used"}, codeEnds : Nat,
                   tokenEnds : Nat, current : Nat, reused : BOOLEAN]
    /\ wait \in [at : {"idle", "starting", "pausing", "polling", "paired", "refused", "expired"},
                 expiresAt : Nat, interval : Nat, due : Int, sentAt : Nat,
                 reply : {"none", "pending", "slow_down", "refused", "tokens"}]
    /\ polls \in [last : Nat, wrong : BOOLEAN]
    /\ held \in [token : Nat, expiresAt : Nat]
    /\ refreshing \subseteq [caller : Callers, token : Nat, sentAt : Nat, reply : Nat]

\* A pause ends when the interval since the last poll is over, or with the code.
PauseInv ==
    /\ ~polls.wrong /\ polls.last <= now
    /\ wait.at = "pausing" =>
          /\ wait.reply = "none"
          /\ wait.due >= wait.expiresAt \/ wait.due >= polls.last + wait.interval

\* The device counts from when it asked, the server from when it answered.
CodeInv ==
    /\ wait.sentAt <= now
    /\ wait.at \in {"idle", "starting"} => wait.expiresAt = 0
    /\ server.code # "none" => wait.expiresAt <= server.codeEnds
    /\ wait.at = "starting" /\ server.code # "none" => wait.sentAt + Lifetime <= server.codeEnds
    /\ wait.at = "idle" => server.code = "none"

TokenInv ==
    /\ server.tokenEnds <= now + Lifetime
    /\ held.expiresAt <= server.tokenEnds
    /\ wait.reply = "tokens" /\ wait.at = "polling" =>
          server.current = 1 /\ wait.sentAt + Lifetime <= server.tokenEnds
    /\ wait.at # "paired" => held.token = 0 /\ refreshing = {}
    /\ \A r \in refreshing : r.sentAt <= now /\ (r.reply # 0 => r.sentAt + Lifetime <= server.tokenEnds)

\* The token the application keeps, or the one in flight, is the server's.
CurrentInv ==
    /\ ~server.reused
    /\ \A r, s \in refreshing : r = s
    /\ refreshing = {} /\ held.token # 0 => held.token = server.current
    /\ \A r \in refreshing : (IF r.reply = 0 THEN r.token ELSE r.reply) = server.current

DeviceInv == DeviceTypes /\ PauseInv /\ CodeInv /\ TokenInv /\ CurrentInv

LEMMA DeviceInit == Devices!Init => DeviceInv
<1> SUFFICES ASSUME Devices!Init PROVE DeviceInv
  OBVIOUS
<1>1. /\ now = 0 /\ refreshing = {} /\ held = [token |-> 0, expiresAt |-> 0]
      /\ server = [code |-> "none", codeEnds |-> 0, tokenEnds |-> 0, current |-> 0, reused |-> FALSE]
      /\ wait = [at |-> "idle", expiresAt |-> 0, interval |-> Interval, due |-> 0, sentAt |-> 0,
                 reply |-> "none"]
      /\ polls = [last |-> 0, wrong |-> FALSE]
      /\ Interval \in Nat /\ Lifetime \in Nat
  BY AdministrationAssumption DEF Devices!Init, Devices!NoReply
<1>2. DeviceTypes
  BY <1>1 DEF DeviceTypes
<1>3. PauseInv /\ CodeInv
  BY <1>1 DEF PauseInv, CodeInv
<1>4. TokenInv /\ CurrentInv
  BY <1>1 DEF TokenInv, CurrentInv
<1> QED
  BY <1>2, <1>3, <1>4 DEF DeviceInv

\* What every step may use of the types.
LEMMA DeviceFields ==
    ASSUME DeviceInv
    PROVE  /\ now \in Nat /\ Interval \in Nat /\ Slower \in Nat /\ Lifetime \in Nat
           /\ server.codeEnds \in Nat /\ server.tokenEnds \in Nat /\ server.current \in Nat
           /\ wait.expiresAt \in Nat /\ wait.interval \in Nat /\ wait.due \in Int
           /\ wait.sentAt \in Nat
           /\ polls.last \in Nat /\ polls.wrong \in BOOLEAN
           /\ held.token \in Nat /\ held.expiresAt \in Nat
           /\ \A r \in refreshing : r.token \in Nat /\ r.sentAt \in Nat /\ r.reply \in Nat
  BY AdministrationAssumption DEF DeviceInv, DeviceTypes

LEMMA DeviceTick == ASSUME DeviceInv, Devices!Tick PROVE DeviceInv'
<1>1. now' = now + 1 /\ UNCHANGED <<server, wait, polls, held, refreshing>>
  BY DEF Devices!Tick
<1>2. DeviceTypes'
  BY <1>1, DeviceFields DEF DeviceInv, DeviceTypes
<1>3. PauseInv' /\ CodeInv'
  BY <1>1, DeviceFields DEF DeviceInv, PauseInv, CodeInv
<1>4. TokenInv'
  BY <1>1, DeviceFields DEF DeviceInv, TokenInv
<1>5. CurrentInv'
  BY <1>1 DEF DeviceInv, CurrentInv
<1> QED
  BY <1>2, <1>3, <1>4, <1>5 DEF DeviceInv

\* The device asks for a code, and the server has one for it.
LEMMA DeviceAsks == ASSUME DeviceInv, Devices!Request \/ Devices!Issue PROVE DeviceInv'
<1>1. CASE Devices!Request
  <2>1. /\ wait.at = "idle" /\ server.code = "none"
        /\ wait' = [wait EXCEPT !.at = "starting", !.sentAt = now]
        /\ UNCHANGED <<now, server, polls, held, refreshing>>
    BY <1>1 DEF Devices!Request
  <2>2. /\ wait'.at = "starting" /\ wait'.sentAt = now /\ wait'.expiresAt = wait.expiresAt
    BY <2>1 DEF DeviceInv, DeviceTypes
  <2>3. DeviceTypes'
    BY <2>1, DeviceFields DEF DeviceInv, DeviceTypes
  <2>4. PauseInv' /\ CodeInv'
    BY <2>1, <2>2, DeviceFields DEF DeviceInv, PauseInv, CodeInv
  <2>5. TokenInv' /\ CurrentInv'
    BY <2>1, <2>2 DEF DeviceInv, TokenInv, CurrentInv
  <2> QED
    BY <2>3, <2>4, <2>5 DEF DeviceInv
<1>2. CASE Devices!Issue
  <2>1. /\ wait.at = "starting" /\ server.code = "none"
        /\ server' = [server EXCEPT !.code = "pending", !.codeEnds = now + Lifetime]
        /\ UNCHANGED <<now, wait, polls, held, refreshing>>
    BY <1>2 DEF Devices!Issue
  <2>2. /\ server'.code = "pending" /\ server'.codeEnds = now + Lifetime
        /\ server'.tokenEnds = server.tokenEnds /\ server'.current = server.current
        /\ server'.reused = server.reused
    BY <2>1 DEF DeviceInv, DeviceTypes
  <2>3. DeviceTypes'
    <3>1. now + Lifetime \in Nat
      BY DeviceFields
    <3>2. server' \in [code : {"none", "pending", "approved", "denied", "used"}, codeEnds : Nat,
                       tokenEnds : Nat, current : Nat, reused : BOOLEAN]
      BY <2>1, <3>1 DEF DeviceInv, DeviceTypes
    <3> QED
      BY <2>1, <3>2 DEF DeviceInv, DeviceTypes
  <2>4. PauseInv' /\ CodeInv'
    BY <2>1, <2>2, DeviceFields DEF DeviceInv, PauseInv, CodeInv
  <2>5. TokenInv' /\ CurrentInv'
    BY <2>1, <2>2 DEF DeviceInv, TokenInv, CurrentInv
  <2> QED
    BY <2>3, <2>4, <2>5 DEF DeviceInv
<1> QED
  BY <1>1, <1>2

\* A pause ends when the code does, or an interval from now.
LEMMA Paused ==
    ASSUME NEW w \in [at : {"idle", "starting", "pausing", "polling", "paired", "refused", "expired"},
                      expiresAt : Nat, interval : Nat, due : Int, sentAt : Nat,
                      reply : {"none", "pending", "slow_down", "refused", "tokens"}],
           now \in Nat
    PROVE  LET v == Devices!Pause(w) IN
           /\ v \in [at : {"idle", "starting", "pausing", "polling", "paired", "refused", "expired"},
                     expiresAt : Nat, interval : Nat, due : Int, sentAt : Nat,
                     reply : {"none", "pending", "slow_down", "refused", "tokens"}]
           /\ v.at = "pausing" /\ v.reply = "none"
           /\ v.expiresAt = w.expiresAt /\ v.interval = w.interval /\ v.sentAt = w.sentAt
           /\ v.due = w.expiresAt \/ v.due = now + w.interval
<1> DEFINE due == now + Devices!Smaller(w.interval, w.expiresAt - now)
<1>1. due \in Int /\ (due = w.expiresAt \/ due = now + w.interval)
  BY DEF Devices!Smaller
<1> HIDE DEF due
<1>2. Devices!Pause(w) = [w EXCEPT !.at = "pausing", !.due = due, !.reply = "none"]
  BY DEF Devices!Pause, Devices!NoReply, due
<1> QED
  BY <1>1, <1>2

\* The wait goes on, or ends: by the device's own clock, or because of the answer.
LEMMA DeviceWaits ==
    ASSUME DeviceInv,
           \/ Devices!Started \/ Devices!Unavailable
           \/ Devices!Answered /\ wait.reply # "tokens"
    PROVE  DeviceInv'
<1> DEFINE Waits == [at : {"idle", "starting", "pausing", "polling", "paired", "refused", "expired"},
                     expiresAt : Nat, interval : Nat, due : Int, sentAt : Nat,
                     reply : {"none", "pending", "slow_down", "refused", "tokens"}]
<1>1. /\ UNCHANGED <<now, server, held, refreshing>>
      /\ wait \in Waits
      /\ wait.at \in {"starting", "polling"}
  <2>1. wait \in Waits /\ wait.reply \in {"none", "pending", "slow_down", "refused", "tokens"}
    BY DEF DeviceInv, DeviceTypes
  <2>2. CASE Devices!Started \/ Devices!Unavailable
    BY <2>1, <2>2 DEF Devices!Started, Devices!Unavailable
  <2>3. CASE Devices!Answered /\ wait.reply # "tokens"
    <3>1. wait.reply \in {"pending", "slow_down", "refused"}
      BY <2>1, <2>3 DEF Devices!Answered, Devices!NoReply
    <3>2. UNCHANGED held
      BY <2>3, <3>1 DEF Devices!Answered
    <3> QED
      BY <2>1, <2>3, <3>2 DEF Devices!Answered
  <2> QED
    BY <2>2, <2>3
<1>2. polls' = polls \/ (wait.at = "starting" /\ polls' = [polls EXCEPT !.last = now])
  BY DEF Devices!Started, Devices!Unavailable, Devices!Answered
\* It ends, or it pauses; the expiry is still the one the device counts.
<1>3. /\ wait' \in Waits
      /\ \/ wait'.at \in {"expired", "refused"}
         \/ /\ wait'.at = "pausing" /\ wait'.reply = "none"
            /\ wait'.due = wait'.expiresAt \/ wait'.due = now + wait'.interval
      /\ wait'.sentAt = wait.sentAt
      /\ \/ wait'.expiresAt = wait.expiresAt
         \/ /\ wait.at = "starting" /\ server.code # "none"
            /\ wait'.expiresAt = wait.sentAt + Lifetime
  <2>1. CASE Devices!Unavailable
    <3>1. wait' = [wait EXCEPT !.at = "refused"]
      BY <2>1 DEF Devices!Unavailable
    <3> QED
      BY <1>1, <3>1
  <2>2. CASE Devices!Started
    <3> DEFINE w == [wait EXCEPT !.expiresAt = wait.sentAt + Lifetime]
               v == [w EXCEPT !.at = "expired"]
    <3>1. /\ wait.at = "starting" /\ server.code # "none"
          /\ wait' = IF now >= w.expiresAt THEN v ELSE Devices!Pause(w)
      BY <2>2 DEF Devices!Started
    <3>2. w \in Waits /\ w.expiresAt = wait.sentAt + Lifetime /\ w.sentAt = wait.sentAt
      BY <1>1, DeviceFields
    <3> HIDE DEF w
    <3>3. v \in Waits /\ v.at = "expired" /\ v.expiresAt = w.expiresAt /\ v.sentAt = w.sentAt
      BY <3>2
    <3> HIDE DEF v
    <3>4. CASE now >= w.expiresAt
      BY <3>1, <3>2, <3>3, <3>4
    <3>5. CASE ~(now >= w.expiresAt)
      BY <3>1, <3>2, <3>5, DeviceFields, Paused
    <3> QED
      BY <3>4, <3>5
  <2>3. CASE Devices!Answered /\ wait.reply # "tokens"
    <3>1. ASSUME NEW w \in Waits, wait' = Devices!PollAgain(w),
                 w.expiresAt = wait.expiresAt, w.sentAt = wait.sentAt
          PROVE  /\ wait' \in Waits
                 /\ \/ wait'.at = "expired"
                    \/ /\ wait'.at = "pausing" /\ wait'.reply = "none"
                       /\ wait'.due = wait'.expiresAt \/ wait'.due = now + wait'.interval
                 /\ wait'.sentAt = wait.sentAt /\ wait'.expiresAt = wait.expiresAt
      <4> DEFINE v == [w EXCEPT !.at = "expired"]
      <4>1. wait' = IF now >= w.expiresAt THEN v ELSE Devices!Pause(w)
        BY <3>1 DEF Devices!PollAgain
      <4>2. v \in Waits /\ v.at = "expired" /\ v.expiresAt = w.expiresAt /\ v.sentAt = w.sentAt
        OBVIOUS
      <4> HIDE DEF v
      <4>3. CASE now >= w.expiresAt
        BY <3>1, <4>1, <4>2, <4>3
      <4>4. CASE ~(now >= w.expiresAt)
        BY <3>1, <4>1, <4>4, DeviceFields, Paused
      <4> QED
        BY <4>3, <4>4
    <3>2. \/ wait' = Devices!PollAgain(wait)
          \/ wait' = Devices!PollAgain(Devices!Slowed(wait))
          \/ wait' = [wait EXCEPT !.at = "refused"]
      BY <1>1, <2>3 DEF Devices!Answered, Devices!NoReply
    <3>3. /\ Devices!Slowed(wait) \in Waits
          /\ Devices!Slowed(wait).expiresAt = wait.expiresAt
          /\ Devices!Slowed(wait).sentAt = wait.sentAt
      BY <1>1, DeviceFields DEF Devices!Slowed
    <3>4. CASE wait' = Devices!PollAgain(wait)
      BY <1>1, <3>1, <3>4
    <3>5. CASE wait' = Devices!PollAgain(Devices!Slowed(wait))
      BY <3>1, <3>3, <3>5
    <3>6. CASE wait' = [wait EXCEPT !.at = "refused"]
      BY <1>1, <3>6
    <3> QED
      BY <3>2, <3>4, <3>5, <3>6
  <2> QED
    BY <2>1, <2>2, <2>3
<1>4. /\ wait'.at \in {"expired", "refused", "pausing"}
      /\ wait'.expiresAt \in Nat /\ wait'.interval \in Nat /\ wait'.due \in Int
  BY <1>3
<1>5. polls' \in [last : Nat, wrong : BOOLEAN] /\ polls'.wrong = polls.wrong /\ polls'.last <= now
  BY <1>2, DeviceFields DEF DeviceInv, DeviceTypes, PauseInv
<1>6. DeviceTypes'
  BY <1>1, <1>3, <1>5 DEF DeviceInv, DeviceTypes
<1>7. PauseInv'
  <2>1. wait'.at = "pausing" =>
           wait'.due >= wait'.expiresAt \/ wait'.due >= polls'.last + wait'.interval
    <3>1. polls'.last \in Nat
      BY <1>5
    <3> QED
      BY <1>3, <1>4, <1>5, <3>1, DeviceFields
  <2>2. ~polls'.wrong
    BY <1>5 DEF DeviceInv, PauseInv
  <2>3. wait'.at = "pausing" => wait'.reply = "none"
    BY <1>3
  <2> QED
    BY <1>1, <1>5, <2>1, <2>2, <2>3 DEF PauseInv
<1>8. CodeInv'
  <2>1. server.code # "none" => wait'.expiresAt <= server.codeEnds
    BY <1>3 DEF DeviceInv, CodeInv
  <2> QED
    BY <1>1, <1>3, <1>4, <2>1 DEF DeviceInv, CodeInv
<1>9. TokenInv' /\ CurrentInv'
  BY <1>1, <1>4 DEF DeviceInv, TokenInv, CurrentInv
<1> QED
  BY <1>6, <1>7, <1>8, <1>9 DEF DeviceInv

\* A poll is sent, in time.
LEMMA DevicePolls == ASSUME DeviceInv, Devices!Poll PROVE DeviceInv'
<1>1. /\ wait.at = "pausing" /\ now >= wait.due
      /\ UNCHANGED <<now, server, held, refreshing>>
  BY DEF Devices!Poll
<1>2. CASE now >= wait.expiresAt
  <2>1. wait' = [wait EXCEPT !.at = "expired"] /\ polls' = polls
    BY <1>2 DEF Devices!Poll
  <2>2. wait'.at = "expired" /\ wait'.expiresAt = wait.expiresAt /\ wait'.sentAt = wait.sentAt
    BY <2>1 DEF DeviceInv, DeviceTypes
  <2>3. DeviceTypes'
    BY <1>1, <2>1 DEF DeviceInv, DeviceTypes
  <2>4. PauseInv' /\ CodeInv'
    BY <1>1, <2>1, <2>2 DEF DeviceInv, PauseInv, CodeInv
  <2>5. TokenInv' /\ CurrentInv'
    BY <1>1, <2>2 DEF DeviceInv, TokenInv, CurrentInv
  <2> QED
    BY <2>3, <2>4, <2>5 DEF DeviceInv
<1>3. CASE ~(now >= wait.expiresAt)
  <2>1. /\ wait' = [wait EXCEPT !.at = "polling", !.sentAt = now]
        /\ polls' = [polls EXCEPT !.last = now,
              !.wrong = @ \/ now - polls.last < wait.interval \/ now >= wait.expiresAt]
    BY <1>3 DEF Devices!Poll, Devices!Watched
  <2>2. /\ wait'.at = "polling" /\ wait'.expiresAt = wait.expiresAt /\ wait'.sentAt = now
        /\ wait'.reply = wait.reply
    BY <2>1 DEF DeviceInv, DeviceTypes
  <2>3. wait.due >= polls.last + wait.interval
    BY <1>1, <1>3, DeviceFields DEF DeviceInv, PauseInv
  <2>4. ~(now - polls.last < wait.interval)
    BY <1>1, <2>3, DeviceFields
  <2>5. polls' \in [last : Nat, wrong : BOOLEAN] /\ polls'.last = now /\ polls'.wrong = FALSE
    BY <1>3, <2>1, <2>4, DeviceFields DEF DeviceInv, DeviceTypes, PauseInv
  <2>6. DeviceTypes'
    BY <1>1, <2>1, <2>5, DeviceFields DEF DeviceInv, DeviceTypes
  <2>7. PauseInv' /\ CodeInv'
    BY <1>1, <2>2, <2>5, DeviceFields DEF DeviceInv, PauseInv, CodeInv
  <2>8. wait.reply # "tokens"
    BY <1>1 DEF DeviceInv, PauseInv
  <2>9. TokenInv' /\ CurrentInv'
    BY <1>1, <2>2, <2>8 DEF DeviceInv, TokenInv, CurrentInv
  <2> QED
    BY <2>6, <2>7, <2>9 DEF DeviceInv
<1> QED
  BY <1>2, <1>3

\* The user decides, or the server answers a poll: an approved code is redeemed.
LEMMA DeviceServed ==
    ASSUME DeviceInv,
           Devices!Serve \/ \E decision \in {"approved", "denied"} : Devices!Decide(decision)
    PROVE  DeviceInv'
<1>1. UNCHANGED <<now, polls, held, refreshing>>
  BY DEF Devices!Serve, Devices!Decide
<1>2. CASE \E decision \in {"approved", "denied"} : Devices!Decide(decision)
  <2>1. PICK decision \in {"approved", "denied"} :
           /\ server.code = "pending" /\ wait' = wait
           /\ server' = [server EXCEPT !.code = decision]
    BY <1>2 DEF Devices!Decide
  <2>2. /\ server'.code # "none" /\ server'.codeEnds = server.codeEnds
        /\ server'.tokenEnds = server.tokenEnds /\ server'.current = server.current
        /\ server'.reused = server.reused
    BY <2>1 DEF DeviceInv, DeviceTypes
  <2>3. DeviceTypes'
    BY <1>1, <2>1 DEF DeviceInv, DeviceTypes
  <2>4. PauseInv' /\ CodeInv'
    BY <1>1, <2>1, <2>2 DEF DeviceInv, PauseInv, CodeInv
  <2>5. TokenInv' /\ CurrentInv'
    BY <1>1, <2>1, <2>2 DEF DeviceInv, TokenInv, CurrentInv
  <2> QED
    BY <2>3, <2>4, <2>5 DEF DeviceInv
<1>3. CASE Devices!Serve
  <2>1. /\ wait.at = "polling"
        /\ \/ /\ wait' = [wait EXCEPT !.reply = "tokens"] /\ server.code = "approved"
              /\ server' = [server EXCEPT !.code = "used", !.tokenEnds = now + Lifetime, !.current = 1]
           \/ /\ \E reply \in {"pending", "slow_down", "refused"} :
                    wait' = [wait EXCEPT !.reply = reply]
              /\ server' = server
    BY <1>3 DEF Devices!Serve
  <2>2. /\ wait'.at = "polling" /\ wait'.expiresAt = wait.expiresAt
        /\ wait'.sentAt = wait.sentAt
    BY <2>1 DEF DeviceInv, DeviceTypes
  <2>3. \/ /\ wait'.reply = "tokens" /\ server'.current = 1
           /\ server'.tokenEnds = now + Lifetime
        \/ wait'.reply # "tokens" /\ server'.tokenEnds = server.tokenEnds
    BY <2>1 DEF DeviceInv, DeviceTypes
  <2>4. /\ server'.codeEnds = server.codeEnds /\ server'.reused = server.reused
        /\ server'.code = "none" <=> server.code = "none"
    BY <2>1 DEF DeviceInv, DeviceTypes
  <2>5. held.token = 0 /\ refreshing = {}
    BY <2>1 DEF DeviceInv, TokenInv
  <2>6. DeviceTypes'
    <3>1. now + Lifetime \in Nat
      BY DeviceFields
    <3>2. server' \in [code : {"none", "pending", "approved", "denied", "used"}, codeEnds : Nat,
                       tokenEnds : Nat, current : Nat, reused : BOOLEAN]
      <4>1. server \in [code : {"none", "pending", "approved", "denied", "used"}, codeEnds : Nat,
                        tokenEnds : Nat, current : Nat, reused : BOOLEAN]
        BY DEF DeviceInv, DeviceTypes
      <4>2. CASE server' = [server EXCEPT !.code = "used", !.tokenEnds = now + Lifetime,
                                          !.current = 1]
        BY <3>1, <4>1, <4>2
      <4>3. CASE server' = server
        BY <4>1, <4>3
      <4> QED
        BY <2>1, <4>2, <4>3
    <3>3. wait' \in [at : {"idle", "starting", "pausing", "polling", "paired", "refused", "expired"},
                 expiresAt : Nat, interval : Nat, due : Int, sentAt : Nat,
                 reply : {"none", "pending", "slow_down", "refused", "tokens"}]
      BY <2>1 DEF DeviceInv, DeviceTypes
    <3> QED
      BY <1>1, <3>2, <3>3 DEF DeviceInv, DeviceTypes
  <2>7. PauseInv' /\ CodeInv'
    BY <1>1, <2>1, <2>2, <2>4 DEF DeviceInv, PauseInv, CodeInv
  <2>8. TokenInv'
    <3>1. wait.sentAt <= now /\ server.tokenEnds <= now + Lifetime
          /\ held.expiresAt <= server.tokenEnds
      BY DEF DeviceInv, CodeInv, TokenInv
    <3>2. /\ server'.tokenEnds <= now + Lifetime /\ held.expiresAt <= server'.tokenEnds
          /\ wait'.reply = "tokens" =>
                server'.current = 1 /\ wait.sentAt + Lifetime <= server'.tokenEnds
      BY <2>3, <3>1, DeviceFields
    <3> QED
      BY <1>1, <2>2, <2>5, <3>2 DEF TokenInv
  <2>9. CurrentInv'
    BY <1>1, <2>4, <2>5 DEF DeviceInv, CurrentInv
  <2> QED
    BY <2>6, <2>7, <2>8, <2>9 DEF DeviceInv
<1> QED
  BY <1>2, <1>3

\* The tokens of the answer are kept.
LEMMA DevicePaired ==
    ASSUME DeviceInv, Devices!Answered, wait.reply = "tokens" PROVE DeviceInv'
<1>1. /\ wait.at = "polling" /\ wait' = [wait EXCEPT !.at = "paired", !.reply = "none"]
      /\ held' = [token |-> 1, expiresAt |-> wait.sentAt + Lifetime]
      /\ UNCHANGED <<now, server, polls, refreshing>>
  BY DEF Devices!Answered, Devices!NoReply, Devices!Expiry
<1>2. /\ wait'.at = "paired" /\ wait'.expiresAt = wait.expiresAt /\ wait'.sentAt = wait.sentAt
  BY <1>1 DEF DeviceInv, DeviceTypes
<1>3. /\ server.current = 1 /\ wait.sentAt + Lifetime <= server.tokenEnds /\ refreshing = {}
  BY <1>1 DEF DeviceInv, TokenInv
<1>4. held' \in [token : Nat, expiresAt : Nat] /\ held'.token = 1
      /\ held'.expiresAt = wait.sentAt + Lifetime
  BY <1>1, DeviceFields
<1>5. DeviceTypes'
  <2>1. wait' \in [at : {"idle", "starting", "pausing", "polling", "paired", "refused", "expired"},
                 expiresAt : Nat, interval : Nat, due : Int, sentAt : Nat,
                 reply : {"none", "pending", "slow_down", "refused", "tokens"}]
    BY <1>1 DEF DeviceInv, DeviceTypes
  <2> QED
    BY <1>1, <1>4, <2>1 DEF DeviceInv, DeviceTypes
<1>6. PauseInv' /\ CodeInv'
  BY <1>1, <1>2 DEF DeviceInv, PauseInv, CodeInv
<1>7. TokenInv' /\ CurrentInv'
  BY <1>1, <1>2, <1>3, <1>4 DEF DeviceInv, TokenInv, CurrentInv
<1> QED
  BY <1>5, <1>6, <1>7 DEF DeviceInv

\* A refresh is sent with the token that is kept; its answer is kept, or nothing is.
LEMMA DeviceRefreshes ==
    ASSUME DeviceInv,
           \/ \E c \in Callers : Devices!Refresh(c)
           \/ \E r \in refreshing : Devices!Rotated(r) \/ Devices!Uncertain(r)
    PROVE  DeviceInv'
<1>1. UNCHANGED <<now, server, wait, polls>>
  BY DEF Devices!Refresh, Devices!Rotated, Devices!Uncertain
<1>2. PauseInv' /\ CodeInv'
  BY <1>1 DEF DeviceInv, PauseInv, CodeInv
<1>3. CASE \E c \in Callers : Devices!Refresh(c)
  <2>1. PICK c \in Callers : Devices!Refresh(c)
    BY <1>3
  <2> DEFINE r == [caller |-> c, token |-> held.token, sentAt |-> now, reply |-> 0]
  <2>2. held.token # 0 /\ refreshing = {} /\ refreshing' = {r} /\ held' = held
    BY <2>1 DEF Devices!Refresh
  <2>3. held.token = server.current /\ wait.at = "paired"
    BY <2>2 DEF DeviceInv, CurrentInv, TokenInv
  <2>4. DeviceTypes'
    <3>1. r \in [caller : Callers, token : Nat, sentAt : Nat, reply : Nat]
      BY DeviceFields
    <3> QED
      BY <1>1, <2>2, <3>1 DEF DeviceInv, DeviceTypes
  <2>5. r.sentAt = now /\ r.reply = 0 /\ r.token = held.token
    OBVIOUS
  <2> HIDE DEF r
  <2>6. TokenInv'
    BY <1>1, <2>2, <2>3, <2>5, DeviceFields DEF DeviceInv, TokenInv
  <2>7. CurrentInv'
    BY <1>1, <2>2, <2>3, <2>5 DEF DeviceInv, CurrentInv
  <2> QED
    BY <1>2, <2>4, <2>6, <2>7 DEF DeviceInv
<1>4. ASSUME NEW r \in refreshing, Devices!Rotated(r) \/ Devices!Uncertain(r) PROVE DeviceInv'
  <2>1. refreshing = {r} /\ refreshing' = {}
    BY <1>4 DEF Devices!Rotated, Devices!Uncertain, DeviceInv, CurrentInv
  <2>2. wait.at = "paired"
    BY DEF DeviceInv, TokenInv
  <2>3. \/ held' = [token |-> 0, expiresAt |-> 0]
        \/ r.reply # 0 /\ held' = [token |-> r.reply, expiresAt |-> r.sentAt + Lifetime]
    BY <1>4 DEF Devices!Rotated, Devices!Uncertain, Devices!Expiry
  <2>4. /\ held' \in [token : Nat, expiresAt : Nat]
        /\ held'.token # 0 => held'.token = server.current
        /\ held'.expiresAt <= server.tokenEnds
    <3>1. r.reply # 0 => r.reply = server.current /\ r.sentAt + Lifetime <= server.tokenEnds
      BY DEF DeviceInv, CurrentInv, TokenInv
    <3> QED
      BY <2>3, <3>1, DeviceFields
  <2>5. DeviceTypes'
    BY <1>1, <2>1, <2>4 DEF DeviceInv, DeviceTypes
  <2>6. TokenInv' /\ CurrentInv'
    BY <1>1, <2>1, <2>2, <2>4 DEF DeviceInv, TokenInv, CurrentInv
  <2> QED
    BY <1>2, <2>5, <2>6 DEF DeviceInv
<1> QED
  BY <1>3, <1>4

\* The server rotates: the token it is shown is its own, so it sees no copy.
LEMMA DeviceRotates ==
    ASSUME DeviceInv, NEW r \in refreshing, Devices!Rotate(r) PROVE DeviceInv'
<1>1. r.reply = 0 /\ r.token = server.current /\ refreshing = {r} /\ wait.at = "paired"
  BY DEF Devices!Rotate, DeviceInv, CurrentInv, TokenInv
<1> DEFINE s == [r EXCEPT !.reply = r.token + 1]
<1>2. /\ server' = [server EXCEPT !.current = @ + 1, !.tokenEnds = now + Lifetime]
      /\ refreshing' = {s}
      /\ UNCHANGED <<now, wait, polls, held>>
  BY <1>1 DEF Devices!Rotate
<1>3. r \in [caller : Callers, token : Nat, sentAt : Nat, reply : Nat]
  BY DEF DeviceInv, DeviceTypes
<1>4. s \in [caller : Callers, token : Nat, sentAt : Nat, reply : Nat]
      /\ s.reply = r.token + 1 /\ s.sentAt = r.sentAt
  BY <1>3
<1> HIDE DEF s
<1>5. /\ server'.current = server.current + 1 /\ server'.tokenEnds = now + Lifetime
      /\ server'.code = server.code /\ server'.codeEnds = server.codeEnds
      /\ server'.reused = server.reused
  BY <1>2 DEF DeviceInv, DeviceTypes
<1>6. DeviceTypes'
  <2>1. now + Lifetime \in Nat /\ server.current + 1 \in Nat
    BY DeviceFields
  <2>2. server' \in [code : {"none", "pending", "approved", "denied", "used"}, codeEnds : Nat,
                     tokenEnds : Nat, current : Nat, reused : BOOLEAN]
    BY <1>2, <2>1 DEF DeviceInv, DeviceTypes
  <2> QED
    BY <1>2, <1>4, <2>2 DEF DeviceInv, DeviceTypes
<1>7. PauseInv' /\ CodeInv'
  BY <1>2, <1>5 DEF DeviceInv, PauseInv, CodeInv
<1>8. TokenInv'
  <2>1. r.sentAt <= now /\ held.expiresAt <= server.tokenEnds /\ server.tokenEnds <= now + Lifetime
    BY DEF DeviceInv, TokenInv
  <2>2. s.sentAt <= now /\ s.sentAt + Lifetime <= now + Lifetime /\ held.expiresAt <= now + Lifetime
    BY <1>4, <2>1, DeviceFields
  <2> QED
    BY <1>1, <1>2, <1>5, <2>2, DeviceFields DEF TokenInv
<1>9. CurrentInv'
  <2>1. s.reply = server.current + 1 /\ s.reply # 0
    BY <1>1, <1>4, DeviceFields
  <2> QED
    BY <1>2, <1>5, <2>1 DEF DeviceInv, CurrentInv
<1> QED
  BY <1>6, <1>7, <1>8, <1>9 DEF DeviceInv

LEMMA DeviceStep ==
    ASSUME DeviceInv, Devices!Next \/ UNCHANGED deviceVars PROVE DeviceInv'
<1>1. CASE UNCHANGED deviceVars
  BY <1>1 DEF deviceVars, DeviceInv, DeviceTypes, PauseInv, CodeInv, TokenInv, CurrentInv
<1>2. CASE Devices!Next
  BY <1>2, DeviceTick, DeviceAsks, DeviceWaits, DevicePolls, DeviceServed, DevicePaired,
     DeviceRefreshes, DeviceRotates DEF Devices!Next
<1> QED
  BY <1>1, <1>2

\* Whatever answers are slow or lost: a device polls no faster than it was told, never
\* believes in an expired code or token, and presents every refresh token once
\* (BetterAuthPairingClient).
THEOREM DevicesHold == AdministrationSpec => []DevicesAreHonest
<1>1. AdministrationInit => DeviceInv
  BY DeviceInit DEF AdministrationInit
<1>2. DeviceInv /\ [AdministrationNext]_<<part, grantVars, signInVars, installVars, quotaVars,
                                          deviceVars>> => DeviceInv'
  BY DeviceStep DEF AdministrationNext
<1>3. ASSUME DeviceInv PROVE DevicesAreHonest
  <2>1. Cardinality(refreshing) <= Cardinality(Callers)
    <3>1. IsFiniteSet(Callers)
      BY AdministrationAssumption
    <3>2. Cardinality(Callers) \in Nat /\ (Cardinality(Callers) = 0 <=> Callers = {})
      BY <3>1, FS_CardinalityType, FS_EmptySet
    <3>3. CASE refreshing = {}
      BY <3>2, <3>3, FS_EmptySet
    <3>4. CASE refreshing # {}
      <4>1. PICK r \in refreshing : TRUE
        BY <3>4
      <4>2. refreshing = {r} /\ r.caller \in Callers
        BY <1>3 DEF DeviceInv, DeviceTypes, CurrentInv
      <4>3. Cardinality({r}) = 1
        BY FS_Singleton
      <4> QED
        BY <3>2, <4>2, <4>3
    <3> QED
      BY <3>3, <3>4
  <2>2. Devices!TypeOK
    <3>1. Devices!Cardinality(refreshing) <= Devices!Cardinality(Callers)
      BY <2>1 DEF Devices!Cardinality, Cardinality
    <3> QED
      BY <1>3, <3>1 DEF DeviceInv, DeviceTypes, Devices!TypeOK
  <2>3. Devices!PollsKeepTime /\ Devices!ExpiryIsHonest /\ Devices!TokensAreUsedOnce
    BY <1>3 DEF DeviceInv, PauseInv, CodeInv, TokenInv, CurrentInv,
                Devices!PollsKeepTime, Devices!ExpiryIsHonest, Devices!TokensAreUsedOnce
  <2> QED
    BY <2>2, <2>3 DEF DevicesAreHonest
<1> QED
  BY <1>1, <1>2, <1>3, PTL DEF AdministrationSpec

-----------------------------------------------------------------------------
(* Provider sign-in: what an entry has at each of its places, and whom the *)
(* changes that wait and the configuration on disk may name                *)

SetupConfigs == [Providers -> {"none", "plain"} \cup Attempts]

Entries ==
    [phase : SignIn!Over \cup {"idle", "lost", "starting", "waiting", "verifying", "ready"},
     provider : Providers \cup {SignIn!NoEntry.provider}, revision : SetupConfigs,
     native : {"none", "asking", "waiting", "reading", "ended"}, dir : BOOLEAN,
     queue : Seq(SignIn!Kinds \cup {"expire", "close", "verified", "failed"}),
     awaits : {"nothing", "native", "configure"}, late : BOOLEAN, published : BOOLEAN,
     verified : BOOLEAN, unheard : BOOLEAN, littered : BOOLEAN]

Busy == {"starting", "waiting", "verifying", "ready"}

Changes == [from : Attempts \cup {"operator"}, provider : Providers,
            value : {"none", "plain"} \cup Attempts, revision : SetupConfigs]

Writers == [at : {"idle", "locked", "writing", "saved", "refused"}, next : SetupConfigs,
            base : SetupConfigs, queue : Seq(Changes)]

Starts == [attempt : Attempts, provider : Providers, revision : SetupConfigs,
           at : {"waiting", "preflight"}]

SetupTypes ==
    /\ disk \in SetupConfigs /\ config \in SetupConfigs
    /\ lock \in {"free", "host", "other", "left"}
    /\ writer \in Writers
    /\ attempt \in [Attempts -> Entries]
    /\ starts \in Seq(Starts)

\* An entry that is there has a process; its account is verified when the process has
\* ended, and only then is it ready, or does a connect wait for its configuration; it
\* has its directory until it is over, and afterwards if it is published or its
\* directory could not be removed.
EntryInv(e) ==
    /\ e.phase \in {"idle", "lost"} => e.native = "none" /\ e.awaits = "nothing" /\ e.queue = <<>>
    /\ e.phase = "idle" => ~e.verified
    /\ e.phase \notin {"idle", "lost"} =>
          e.native # "none" /\ (e.verified => e.native = "ended")
    /\ e.phase \in Busy => e.dir /\ e.provider \in Providers
    /\ e.phase = "ready" => e.verified
    /\ \A k \in DOMAIN e.queue : e.queue[k] = "verified" => e.verified
    /\ e.awaits = "native" => e.phase = "ended"
    /\ e.awaits = "configure" => e.phase = "verifying" /\ e.verified
    /\ e.phase \in SignIn!Over /\ e.awaits = "nothing" =>
          e.native = "ended" /\ e.dir = (e.published \/ e.littered) /\ e.queue = <<>>

\* The start that runs is the first; an attempt waits once, and has no entry yet.
StartInv ==
    /\ \A i \in DOMAIN starts : /\ attempt[starts[i].attempt].phase = "idle"
                                /\ starts[i].at = "preflight" => i = 1
                                /\ \A j \in DOMAIN starts :
                                      starts[j].attempt = starts[i].attempt => j = i
    /\ IsFiniteSet(SignIn!Active) /\ Cardinality(SignIn!Active) <= MaxActive
    /\ \A i \in DOMAIN starts :
          starts[i].at = "preflight" => Cardinality(SignIn!Active) < MaxActive

\* An attempt whose change waits, waits for it, and only once.
ChangeInv ==
    \A k \in DOMAIN writer.queue :
       LET change == writer.queue[k] IN
       IF change.from = "operator" THEN change.value \in {"none", "plain"}
       ELSE /\ change.value = change.from /\ attempt[change.from].awaits = "configure"
            /\ \A l \in DOMAIN writer.queue : writer.queue[l].from = change.from => l = k

\* The call that runs has the lock, and what it will write is what is on disk but for
\* its change.
WriterInv ==
    /\ writer.at # "idle" => lock = "host" /\ writer.queue # <<>>
    /\ writer.at = "writing" =>
          /\ writer.base = disk /\ config = disk
          /\ writer.next = [disk EXCEPT ![writer.queue[1].provider] = writer.queue[1].value]

\* An account that is there, or whose connect was told that it failed; and an attempt
\* that is over for good, however it was told.
Held(e) == e.verified /\ (e.dir \/ e.unheard)
Settled(e) == e.phase \in {"succeeded", "lost"} \/ (e.phase = "ended" /\ e.unheard)

\* Who has the account that a provider on disk uses: an attempt that is over for
\* good, or the one that is about to be told of it.
AccountInv ==
    \A p \in Providers : disk[p] \in Attempts =>
       /\ Held(attempt[disk[p]])
       /\ \/ Settled(attempt[disk[p]])
          \/ writer.at = "saved" /\ writer.queue[1].from = disk[p]

SetupInv ==
    /\ SetupTypes /\ \A a \in Attempts : EntryInv(attempt[a])
    /\ StartInv /\ ChangeInv /\ WriterInv /\ AccountInv

LEMMA FewerActive ==
    ASSUME NEW S, NEW T, IsFiniteSet(S), T \subseteq S
    PROVE  /\ IsFiniteSet(T) /\ Cardinality(T) \in Nat /\ Cardinality(S) \in Nat
           /\ Cardinality(T) <= Cardinality(S)
  BY FS_Subset, FS_CardinalityType

LEMMA BusyIsActive ==
    ASSUME SetupTypes
    PROVE  \A a \in Attempts : a \in SignIn!Active <=> attempt[a].phase \in Busy
  BY DEF SetupTypes, Entries, Busy, SignIn!Active, SignIn!Entered, SignIn!Terminal, SignIn!Over

LEMMA ActiveNow ==
    ASSUME attempt' \in [Attempts -> Entries]
    PROVE  \A a \in Attempts : a \in SignIn!Active' <=> attempt'[a].phase \in Busy
  BY DEF Entries, Busy, SignIn!Active, SignIn!Entered, SignIn!Terminal, SignIn!Over

LEMMA StartTypes ==
    ASSUME SetupTypes
    PROVE  /\ \A i \in DOMAIN starts : starts[i] \in Starts
           /\ \A k \in DOMAIN writer.queue : writer.queue[k] \in Changes
<1>1. starts \in Seq(Starts) /\ writer.queue \in Seq(Changes)
  BY DEF SetupTypes, Writers
<1> QED
  BY <1>1

LEMMA OneRemoved ==
    ASSUME NEW T, NEW s \in Seq(T), NEW i \in DOMAIN s
    PROVE  /\ SignIn!RemoveAt(s, i) \in Seq(T)
           /\ Len(SignIn!RemoveAt(s, i)) = Len(s) - 1
           /\ \A k \in 1 .. Len(s) - 1 :
                 SignIn!RemoveAt(s, i)[k] = IF k < i THEN s[k] ELSE s[k + 1]
<1> DEFINE n == Len(s)
           front == SubSeq(s, 1, i - 1)
           back == SubSeq(s, i + 1, n)
<1>1. i \in 1 .. n /\ n \in Nat
  OBVIOUS
<1>2. /\ front \in Seq(T) /\ Len(front) = i - 1
      /\ \A k \in 1 .. i - 1 : front[k] = s[k]
  BY <1>1
<1>3. /\ back \in Seq(T) /\ Len(back) = n - i
      /\ \A k \in 1 .. n - i : back[k] = s[i + k]
  BY <1>1
<1>4. SignIn!RemoveAt(s, i) = front \o back
  BY DEF SignIn!RemoveAt
<1> HIDE DEF front, back, n
<1>5. front \o back \in Seq(T) /\ Len(front \o back) = n - 1
  <2>1. front \o back \in Seq(T) /\ Len(front \o back) = Len(front) + Len(back)
    BY <1>2, <1>3, ConcatProperties
  <2> QED
    BY <1>1, <1>2, <1>3, <2>1
<1>6. ASSUME NEW k \in 1 .. n - 1
      PROVE  (front \o back)[k] = IF k < i THEN s[k] ELSE s[k + 1]
  <2>1. (front \o back)[k] = IF k <= i - 1 THEN front[k] ELSE back[k - (i - 1)]
    BY <1>1, <1>2, <1>3, ConcatProperties
  <2>2. CASE k < i
    BY <1>1, <1>2, <2>1, <2>2
  <2>3. CASE ~(k < i)
    <3>1. k - (i - 1) \in 1 .. n - i /\ i + (k - (i - 1)) = k + 1
      BY <1>1, <2>3
    <3> QED
      BY <1>1, <1>3, <2>1, <2>3, <3>1
  <2> QED
    BY <2>2, <2>3
<1> QED
  BY <1>4, <1>5, <1>6 DEF n

LEMMA EmptyEntry ==
    /\ SignIn!NoEntry \in Entries /\ SignIn!NoEntry.phase = "idle"
    /\ SignIn!NoEntry.native = "none" /\ SignIn!NoEntry.awaits = "nothing"
    /\ SignIn!NoEntry.queue = <<>> /\ ~SignIn!NoEntry.verified /\ ~SignIn!NoEntry.published
    /\ ~SignIn!NoEntry.dir
<1> DEFINE e == SignIn!NoEntry
           none == [p \in Providers |-> "none"]
           chosen == CHOOSE p \in Providers : TRUE
<1>1. e = [phase |-> "idle", provider |-> chosen, revision |-> none, native |-> "none",
           dir |-> FALSE, queue |-> <<>>, awaits |-> "nothing", late |-> FALSE,
           published |-> FALSE, verified |-> FALSE, unheard |-> FALSE, littered |-> FALSE]
  BY DEF SignIn!NoEntry
<1>2. none \in SetupConfigs
  BY DEF SetupConfigs
<1>3. e.provider = chosen
  BY <1>1
<1> HIDE DEF none, chosen
<1>4. e \in Entries
  BY <1>1, <1>2, <1>3 DEF Entries
<1> QED
  BY <1>1, <1>4

LEMMA EmptyWriter ==
    /\ SignIn!NoWriter \in Writers /\ SignIn!NoWriter.at = "idle" /\ SignIn!NoWriter.queue = <<>>
    /\ \A q \in Seq(Changes) : /\ [SignIn!NoWriter EXCEPT !.queue = q] \in Writers
                               /\ [SignIn!NoWriter EXCEPT !.queue = q].at = "idle"
                               /\ [SignIn!NoWriter EXCEPT !.queue = q].queue = q
<1> DEFINE w == SignIn!NoWriter
           none == [p \in Providers |-> "none"]
<1>1. w = [at |-> "idle", next |-> none, base |-> none, queue |-> <<>>]
  BY DEF SignIn!NoWriter
<1>2. none \in SetupConfigs
  BY DEF SetupConfigs
<1> HIDE DEF none
<1>3. w \in Writers
  BY <1>1, <1>2 DEF Writers
<1> HIDE DEF w
<1>4. \A q \in Seq(Changes) : /\ [w EXCEPT !.queue = q] \in Writers
                              /\ [w EXCEPT !.queue = q].at = w.at
                              /\ [w EXCEPT !.queue = q].queue = q
  BY <1>3 DEF Writers
<1> QED
  BY <1>1, <1>3, <1>4 DEF w

\* A change is asked for, and waits behind those that wait.
LEMMA ChangeAdded ==
    ASSUME SetupTypes, NEW change \in Changes,
           writer' = [writer EXCEPT !.queue = Append(@, change)]
    PROVE  /\ writer' \in Writers /\ writer'.at = writer.at
           /\ writer'.next = writer.next /\ writer'.base = writer.base
           /\ Len(writer'.queue) = Len(writer.queue) + 1
           /\ DOMAIN writer'.queue = 1 .. Len(writer.queue) + 1
           /\ DOMAIN writer.queue = 1 .. Len(writer.queue) /\ Len(writer.queue) \in Nat
           /\ \A k \in DOMAIN writer.queue : writer'.queue[k] = writer.queue[k]
           /\ writer'.queue[Len(writer.queue) + 1] = change
<1> DEFINE q == writer.queue
<1>1. q \in Seq(Changes)
  BY DEF SetupTypes, Writers
<1>2. /\ Append(q, change) \in Seq(Changes) /\ Len(Append(q, change)) = Len(q) + 1
      /\ \A k \in 1 .. Len(q) : Append(q, change)[k] = q[k]
      /\ Append(q, change)[Len(q) + 1] = change
  BY <1>1, AppendProperties
<1>3. writer' = [writer EXCEPT !.queue = Append(q, change)]
  OBVIOUS
<1> HIDE DEF q
<1>4. /\ writer'.queue = Append(q, change) /\ writer'.at = writer.at
      /\ writer'.next = writer.next /\ writer'.base = writer.base /\ writer' \in Writers
  BY <1>2, <1>3 DEF SetupTypes, Writers
<1>5. /\ DOMAIN Append(q, change) = 1 .. Len(q) + 1
      /\ DOMAIN q = 1 .. Len(q) /\ Len(q) \in Nat
  BY <1>1, <1>2
<1> QED
  BY <1>2, <1>4, <1>5 DEF q

LEMMA SetupInit == SignIn!Init => SetupInv
<1> SUFFICES ASSUME SignIn!Init PROVE SetupInv
  OBVIOUS
<1>1. /\ disk = [p \in Providers |-> "none"] /\ config = disk /\ lock = "free"
      /\ writer = SignIn!NoWriter /\ attempt = [a \in Attempts |-> SignIn!NoEntry]
      /\ starts = <<>>
  BY DEF SignIn!Init
<1>2. SetupTypes
  <2>1. disk \in SetupConfigs
    BY <1>1 DEF SetupConfigs
  <2> QED
    BY <1>1, <2>1, EmptyEntry, EmptyWriter DEF SetupTypes
<1>3. \A a \in Attempts : EntryInv(attempt[a])
  BY <1>1, EmptyEntry DEF EntryInv, SignIn!Over, Busy
<1>4. StartInv
  <2>1. SignIn!Active = {}
    BY <1>1, <1>2, BusyIsActive, EmptyEntry DEF Busy, SignIn!Active
  <2> QED
    BY <1>1, <2>1, FS_EmptySet, AdministrationAssumption DEF StartInv
<1>5. ChangeInv /\ WriterInv
  BY <1>1, EmptyWriter DEF ChangeInv, WriterInv
<1>6. AccountInv
  BY <1>1, AdministrationAssumption DEF AccountInv
<1> QED
  BY <1>2, <1>3, <1>4, <1>5, <1>6 DEF SetupInv

\* Nothing is begun.
LEMMA StartKept ==
    ASSUME SetupInv, attempt' \in [Attempts -> Entries], UNCHANGED starts,
           \A b \in Attempts : attempt'[b].phase \in Busy => attempt[b].phase \in Busy,
           \A b \in Attempts : attempt[b].phase = "idle" => attempt'[b].phase = "idle"
    PROVE  StartInv'
<1>1. \A b \in Attempts : b \in SignIn!Active' => b \in SignIn!Active
  <2>1. \A b \in Attempts : b \in SignIn!Active <=> attempt[b].phase \in Busy
    BY BusyIsActive DEF SetupInv
  <2>2. \A b \in Attempts : b \in SignIn!Active' <=> attempt'[b].phase \in Busy
    BY ActiveNow
  <2> QED
    BY <2>1, <2>2
<1>2. SignIn!Active' \subseteq SignIn!Active
  BY <1>1 DEF SignIn!Active
<1>3. /\ IsFiniteSet(SignIn!Active') /\ Cardinality(SignIn!Active') \in Nat
      /\ Cardinality(SignIn!Active) \in Nat
      /\ Cardinality(SignIn!Active') <= Cardinality(SignIn!Active)
  BY <1>2, FewerActive DEF SetupInv, StartInv
<1>4. \A i \in DOMAIN starts : attempt'[starts[i].attempt].phase = "idle"
  <2>1. \A i \in DOMAIN starts : starts[i].attempt \in Attempts
    BY StartTypes DEF SetupInv, Starts
  <2> QED
    BY <2>1 DEF SetupInv, StartInv
<1>5. MaxActive \in Nat
  BY AdministrationAssumption
<1> QED
  BY <1>3, <1>4, <1>5 DEF SetupInv, StartInv

\* A step of one entry: a connect that waits goes on waiting, what was begun stays
\* begun, what is over stays over, and an account that may be in use stays.
LEMMA EntryMove ==
    ASSUME SetupInv, NEW a \in Attempts, NEW e \in Entries, EntryInv(e),
           attempt' = [attempt EXCEPT ![a] = e],
           UNCHANGED <<disk, config, lock, starts>>,
           \/ UNCHANGED writer
           \/ /\ attempt[a].awaits = "nothing" /\ e.awaits = "configure"
              /\ \E change \in Changes :
                    /\ change.from = a /\ change.value = a
                    /\ writer' = [writer EXCEPT !.queue = Append(@, change)],
           attempt[a].awaits = "configure" => e.awaits = "configure",
           attempt[a].phase = "idle" => e.phase = "idle",
           e.phase \in Busy => attempt[a].phase \in Busy,
           Settled(attempt[a]) => Settled(e),
           Settled(attempt[a]) \/ attempt[a].awaits = "configure" => (Held(attempt[a]) => Held(e))
    PROVE  SetupInv'
<1>1. /\ attempt' \in [Attempts -> Entries] /\ attempt'[a] = e
      /\ \A b \in Attempts : b # a => attempt'[b] = attempt[b]
  BY DEF SetupInv, SetupTypes
<1>2. /\ writer' \in Writers /\ writer'.at = writer.at
      /\ writer'.next = writer.next /\ writer'.base = writer.base
      /\ writer.queue # <<>> => writer'.queue # <<>> /\ writer'.queue[1] = writer.queue[1]
  <2>1. CASE UNCHANGED writer
    BY <2>1 DEF SetupInv, SetupTypes
  <2>2. ASSUME NEW change \in Changes, writer' = [writer EXCEPT !.queue = Append(@, change)]
        PROVE  /\ writer' \in Writers /\ writer'.at = writer.at
               /\ writer'.next = writer.next /\ writer'.base = writer.base
               /\ writer.queue # <<>> =>
                     writer'.queue # <<>> /\ writer'.queue[1] = writer.queue[1]
    <3>1. /\ writer' \in Writers /\ writer'.at = writer.at
          /\ writer'.next = writer.next /\ writer'.base = writer.base
          /\ DOMAIN writer'.queue = 1 .. Len(writer.queue) + 1
          /\ DOMAIN writer.queue = 1 .. Len(writer.queue) /\ Len(writer.queue) \in Nat
          /\ \A k \in DOMAIN writer.queue : writer'.queue[k] = writer.queue[k]
      BY <2>2, ChangeAdded DEF SetupInv
    <3>2. writer.queue # <<>> => 1 \in DOMAIN writer.queue /\ 1 \in DOMAIN writer'.queue
      <4>1. writer.queue \in Seq(Changes)
        BY DEF SetupInv, SetupTypes, Writers
      <4> QED
        BY <3>1, <4>1
    <3>3. 1 \in DOMAIN writer'.queue => writer'.queue # <<>>
      OBVIOUS
    <3> QED
      BY <3>1, <3>2, <3>3
  <2> QED
    BY <2>1, <2>2
<1>3. SetupTypes'
  BY <1>1, <1>2 DEF SetupInv, SetupTypes
<1>4. (\A b \in Attempts : EntryInv(attempt[b]))'
  <2>1. \A b \in Attempts : EntryInv(attempt'[b])
    BY <1>1 DEF SetupInv
  <2> QED
    BY <2>1 DEF EntryInv
<1>5. StartInv'
  BY <1>1, StartKept
<1>6. \A b \in Attempts : attempt[b].awaits = "configure" => attempt'[b].awaits = "configure"
  BY <1>1
<1>7. ChangeInv'
  <2>1. \A k \in DOMAIN writer.queue :
           writer.queue[k].from \in Attempts \cup {"operator"}
    BY StartTypes DEF SetupInv, Changes
  <2>2. CASE UNCHANGED writer
    BY <1>6, <2>1, <2>2 DEF SetupInv, ChangeInv
  <2>3. ASSUME attempt[a].awaits = "nothing", e.awaits = "configure",
               NEW change \in Changes, change.from = a, change.value = a,
               writer' = [writer EXCEPT !.queue = Append(@, change)]
        PROVE  ChangeInv'
    <3> DEFINE n == Len(writer.queue)
    <3>1. /\ DOMAIN writer'.queue = 1 .. n + 1 /\ DOMAIN writer.queue = 1 .. n /\ n \in Nat
          /\ \A k \in 1 .. n : writer'.queue[k] = writer.queue[k]
          /\ writer'.queue[n + 1] = change
      BY <2>3, ChangeAdded DEF SetupInv
    <3> HIDE DEF n
    <3>2. \A k \in 1 .. n : writer.queue[k].from # a
      BY <2>1, <2>3, <3>1, AdministrationAssumption DEF SetupInv, ChangeInv
    <3>3. \A k \in 1 .. n + 1 : k \in 1 .. n \/ k = n + 1
      BY <3>1
    <3> SUFFICES ASSUME NEW k \in 1 .. n + 1
                 PROVE  IF writer'.queue[k].from = "operator"
                        THEN writer'.queue[k].value \in {"none", "plain"}
                        ELSE /\ writer'.queue[k].value = writer'.queue[k].from
                             /\ attempt'[writer'.queue[k].from].awaits = "configure"
                             /\ \A l \in 1 .. n + 1 :
                                   writer'.queue[l].from = writer'.queue[k].from => l = k
      BY <3>1 DEF ChangeInv
    <3>4. CASE k = n + 1
      <4>1. a # "operator"
        BY AdministrationAssumption
      <4> QED
        BY <1>1, <2>3, <3>1, <3>2, <3>3, <3>4, <4>1
    <3>5. CASE k \in 1 .. n
      <4>1. /\ writer'.queue[k] = writer.queue[k] /\ k \in DOMAIN writer.queue
            /\ writer.queue[k].from # a
        BY <3>1, <3>2, <3>5
      <4>2. CASE writer.queue[k].from = "operator"
        BY <4>1, <4>2 DEF SetupInv, ChangeInv
      <4>3. CASE writer.queue[k].from # "operator"
        <5>1. /\ writer.queue[k].value = writer.queue[k].from
              /\ attempt[writer.queue[k].from].awaits = "configure"
              /\ \A l \in 1 .. n : writer.queue[l].from = writer.queue[k].from => l = k
          BY <3>1, <4>1, <4>3 DEF SetupInv, ChangeInv
        <5>2. writer.queue[k].from \in Attempts
          BY <2>1, <4>1, <4>3
        <5> QED
          BY <1>6, <2>3, <3>1, <3>3, <4>1, <4>3, <5>1, <5>2
      <4> QED
        BY <4>2, <4>3
    <3> QED
      BY <3>3, <3>4, <3>5
  <2> QED
    BY <2>2, <2>3
<1>8. WriterInv'
  BY <1>2 DEF SetupInv, WriterInv
<1>9. AccountInv'
  <2> SUFFICES ASSUME NEW p \in Providers, disk[p] \in Attempts
               PROVE  /\ Held(attempt'[disk[p]])
                      /\ \/ Settled(attempt'[disk[p]])
                         \/ writer'.at = "saved" /\ writer'.queue[1].from = disk[p]
    BY DEF AccountInv, Held, Settled
  <2> DEFINE b == disk[p]
  <2>1. /\ Held(attempt[b])
        /\ \/ Settled(attempt[b])
           \/ writer.at = "saved" /\ writer.queue[1].from = b
    BY DEF SetupInv, AccountInv
  <2>2. writer.at = "saved" => writer.queue # <<>> /\ 1 \in DOMAIN writer.queue
    <3>1. writer.at = "saved" => writer.queue # <<>>
      BY DEF SetupInv, WriterInv
    <3>2. writer.queue \in Seq(Changes)
      BY DEF SetupInv, SetupTypes, Writers
    <3> QED
      BY <3>1, <3>2
  <2>3. writer.at = "saved" /\ writer.queue[1].from = b => attempt[b].awaits = "configure"
    <3>1. b # "operator"
      BY AdministrationAssumption
    <3> QED
      BY <2>2, <3>1 DEF SetupInv, ChangeInv
  <2>4. writer.at = "saved" => writer'.at = "saved" /\ writer'.queue[1] = writer.queue[1]
    BY <1>2, <2>2
  <2> HIDE DEF b
  <2>5. b \in Attempts
    BY DEF b
  <2>6. /\ Held(attempt'[b])
        /\ Settled(attempt[b]) => Settled(attempt'[b])
    BY <1>1, <2>1, <2>3, <2>5
  <2> QED
    BY <2>1, <2>4, <2>6 DEF b
<1> QED
  BY <1>3, <1>4, <1>5, <1>7, <1>8, <1>9 DEF SetupInv

-----------------------------------------------------------------------------
(* The operations of one entry *)

LEMMA FinishedEntry ==
    ASSUME NEW e \in Entries, EntryInv(e), e.phase \in Busy
    PROVE  /\ SignIn!Finished(e) \in Entries /\ EntryInv(SignIn!Finished(e))
           /\ SignIn!Finished(e).queue = e.queue /\ SignIn!Finished(e).verified = e.verified
           /\ SignIn!Finished(e).phase = "ended" /\ SignIn!Finished(e).awaits = "native"
           /\ SignIn!Finished(e).unheard = e.unheard
<1> DEFINE f == [e EXCEPT !.phase = "ended", !.awaits = "native"]
<1>1. SignIn!Finished(e) = f
  BY DEF SignIn!Finished, SignIn!Over, Busy
<1>2. f \in Entries
  BY DEF Entries, SignIn!Over
<1>3. /\ f.phase = "ended" /\ f.awaits = "native" /\ f.native = e.native
      /\ f.queue = e.queue /\ f.verified = e.verified /\ f.unheard = e.unheard
  BY DEF Entries
<1> HIDE DEF f
<1>4. EntryInv(f)
  BY <1>3 DEF EntryInv, Busy, SignIn!Over
<1> QED
  BY <1>1, <1>2, <1>3, <1>4

\* What an operation of the queue makes of an entry that is not over.
Done(e, d) ==
    /\ d \in Entries /\ EntryInv(d) /\ d.queue = e.queue
    /\ d.phase \in Busy \/ (d.phase = "ended" /\ d.awaits = "native")
    /\ d.awaits = "configure" => d.phase = "verifying" /\ d.verified

LEMMA DoneEntry ==
    ASSUME NEW e \in Entries, EntryInv(e), e.phase \in Busy, e.awaits = "nothing",
           NEW kind, kind = "verified" => e.verified
    PROVE  Done(e, SignIn!Do(e, kind))
<1>1. Done(e, e) /\ Done(e, SignIn!Finished(e))
  <2>1. Done(e, e)
    BY DEF Done
  <2> DEFINE f == SignIn!Finished(e)
  <2>2. /\ f \in Entries /\ EntryInv(f) /\ f.queue = e.queue
        /\ f.phase = "ended" /\ f.awaits = "native"
    BY FinishedEntry
  <2> HIDE DEF f
  <2>3. Done(e, f)
    BY <2>2 DEF Done
  <2> QED
    BY <2>1, <2>3 DEF f
<1> DEFINE c == SignIn!Currently(e)
<1>2. c = e \/ c = SignIn!Finished(e)
  BY DEF SignIn!Currently
<1>3. Done(e, c) /\ c.awaits # "configure" /\ (c.phase \in Busy => c = e)
  BY <1>1, <1>2, FinishedEntry DEF Busy
<1>4. Done(e, SignIn!Finished(c))
  <2>1. CASE c = e
    BY <1>1, <2>1
  <2>2. CASE c = SignIn!Finished(e)
    <3>1. SignIn!Finished(c) = c
      BY <2>2, FinishedEntry DEF SignIn!Finished, SignIn!Over
    <3> QED
      BY <1>3, <3>1
  <2> QED
    BY <1>2, <2>1, <2>2
<1> HIDE DEF c
<1>5. CASE kind = "verified"
  <2>1. CASE c.phase \in SignIn!Over
    BY <1>3, <1>5, <2>1 DEF SignIn!Do, c
  <2>2. CASE c.phase \notin SignIn!Over
    <3> DEFINE d == [e EXCEPT !.phase = "ready"]
    <3>1. c = e
      BY <1>3, <2>2 DEF Done, SignIn!Over
    <3>2. SignIn!Do(e, kind) = d
      BY <1>5, <2>2, <3>1 DEF SignIn!Do, c
    <3>3. /\ d \in Entries /\ d.phase = "ready" /\ d.awaits = "nothing"
          /\ d.native = e.native /\ d.queue = e.queue /\ d.verified = e.verified
          /\ d.dir = e.dir /\ d.provider = e.provider
      BY DEF Entries
    <3> HIDE DEF d
    <3>4. EntryInv(d)
      BY <1>5, <3>3 DEF EntryInv, Busy, SignIn!Over
    <3>5. Done(e, d)
      BY <3>3, <3>4 DEF Done, Busy
    <3> QED
      BY <3>2, <3>5
  <2> QED
    BY <2>1, <2>2
<1>6. CASE kind \in {"failed", "expire", "close"}
  <2>1. SignIn!Do(e, kind) = SignIn!Finished(e)
    BY <1>6 DEF SignIn!Do
  <2> QED
    BY <1>1, <2>1
<1>7. CASE kind = "status"
  BY <1>3, <1>7 DEF SignIn!Do, c
<1>8. CASE kind = "cancel"
  BY <1>4, <1>8 DEF SignIn!Do, c
<1>9. CASE kind \notin {"verified", "failed", "expire", "close", "status", "cancel"}
  <2>1. CASE c.phase # "ready"
    BY <1>3, <1>9, <2>1 DEF SignIn!Do, c
  <2>2. CASE c.phase = "ready"
    <3> DEFINE d == [e EXCEPT !.phase = "verifying", !.awaits = "configure"]
    <3>1. c = e
      BY <1>3, <2>2 DEF Busy
    <3>2. SignIn!Do(e, kind) = d
      BY <1>9, <2>2, <3>1 DEF SignIn!Do, c
    <3>3. /\ d \in Entries /\ d.phase = "verifying" /\ d.awaits = "configure"
          /\ d.native = e.native /\ d.queue = e.queue /\ d.verified = e.verified
          /\ d.dir = e.dir /\ d.provider = e.provider
      BY DEF Entries
    <3>4. e.phase = "ready" /\ e.verified
      BY <2>2, <3>1 DEF EntryInv
    <3> HIDE DEF d
    <3>5. EntryInv(d)
      BY <3>3, <3>4 DEF EntryInv, Busy, SignIn!Over
    <3>6. Done(e, d)
      BY <3>3, <3>4, <3>5 DEF Done, Busy
    <3> QED
      BY <3>2, <3>6
  <2> QED
    BY <2>1, <2>2
<1> QED
  BY <1>5, <1>6, <1>7, <1>8, <1>9

Queued == SignIn!Kinds \cup {"expire", "close", "verified", "failed"}

LEMMA QueueMoves ==
    ASSUME NEW e \in Entries
    PROVE  /\ e.queue \in Seq(Queued)
           /\ \A kind \in Queued :
                 /\ Append(e.queue, kind) \in Seq(Queued)
                 /\ \A k \in DOMAIN Append(e.queue, kind) :
                       Append(e.queue, kind)[k] = kind
                       \/ (k \in DOMAIN e.queue /\ Append(e.queue, kind)[k] = e.queue[k])
           /\ e.queue # <<>> =>
                 /\ Head(e.queue) = e.queue[1] /\ 1 \in DOMAIN e.queue
                 /\ Tail(e.queue) \in Seq(Queued)
                 /\ \A k \in DOMAIN Tail(e.queue) :
                       k + 1 \in DOMAIN e.queue /\ Tail(e.queue)[k] = e.queue[k + 1]
<1> DEFINE q == e.queue
<1>1. q \in Seq(Queued)
  BY DEF Entries, Queued
<1> HIDE DEF q
<1>2. ASSUME NEW kind \in Queued
      PROVE  /\ Append(q, kind) \in Seq(Queued)
             /\ \A k \in DOMAIN Append(q, kind) :
                   Append(q, kind)[k] = kind
                   \/ (k \in DOMAIN q /\ Append(q, kind)[k] = q[k])
  <2>1. /\ Append(q, kind) \in Seq(Queued) /\ Len(Append(q, kind)) = Len(q) + 1
        /\ \A k \in 1 .. Len(q) : Append(q, kind)[k] = q[k]
        /\ Append(q, kind)[Len(q) + 1] = kind
    BY <1>1, AppendProperties
  <2>2. DOMAIN Append(q, kind) = 1 .. Len(q) + 1 /\ DOMAIN q = 1 .. Len(q) /\ Len(q) \in Nat
    BY <1>1, <2>1
  <2>3. \A k \in DOMAIN Append(q, kind) : k = Len(q) + 1 \/ k \in 1 .. Len(q)
    BY <2>2
  <2> QED
    BY <2>1, <2>2, <2>3, Zenon
<1>3. q # <<>> => /\ Head(q) = q[1] /\ 1 \in DOMAIN q
                  /\ Tail(q) \in Seq(Queued)
                  /\ \A k \in DOMAIN Tail(q) : k + 1 \in DOMAIN q /\ Tail(q)[k] = q[k + 1]
  BY <1>1
<1> QED
  BY <1>1, <1>2, <1>3 DEF q

\* An entry whose queue has moved.
LEMMA RequeuedEntry ==
    ASSUME NEW e \in Entries, EntryInv(e), NEW q \in Seq(Queued),
           e.phase \in Busy \/ (e.phase = "ended" /\ e.awaits = "native"),
           \A k \in DOMAIN q : q[k] = "verified" => e.verified
    PROVE  /\ [e EXCEPT !.queue = q] \in Entries /\ EntryInv([e EXCEPT !.queue = q])
           /\ [e EXCEPT !.queue = q].phase = e.phase
           /\ [e EXCEPT !.queue = q].awaits = e.awaits
           /\ [e EXCEPT !.queue = q].dir = e.dir
           /\ [e EXCEPT !.queue = q].verified = e.verified
           /\ [e EXCEPT !.queue = q].unheard = e.unheard
           /\ [e EXCEPT !.queue = q].provider = e.provider
           /\ [e EXCEPT !.queue = q].revision = e.revision
<1> DEFINE f == [e EXCEPT !.queue = q]
<1>1. f \in Entries
  BY DEF Entries, Queued
<1>2. /\ f.phase = e.phase /\ f.awaits = e.awaits /\ f.native = e.native /\ f.queue = q
      /\ f.verified = e.verified /\ f.dir = e.dir /\ f.provider = e.provider
      /\ f.revision = e.revision /\ f.unheard = e.unheard
  BY DEF Entries
<1> HIDE DEF f
<1>3. EntryInv(f)
  BY <1>2 DEF EntryInv, Busy, SignIn!Over
<1> QED
  BY <1>1, <1>2, <1>3 DEF f

\* What is left of an entry that is over.
LEMMA RestEntry ==
    ASSUME NEW e \in Entries, e.phase \in SignIn!Over, e.native = "ended"
    PROVE  /\ SignIn!Rest(e) \in Entries /\ EntryInv(SignIn!Rest(e))
           /\ SignIn!Rest(e).phase = e.phase
           /\ SignIn!Rest(e).dir = (e.published \/ e.littered)
           /\ SignIn!Rest(e).verified = e.verified /\ SignIn!Rest(e).awaits = "nothing"
           /\ SignIn!Rest(e).unheard = e.unheard
<1> DEFINE n == SignIn!NoEntry
           d == e.published \/ e.littered
           f == [n EXCEPT !.phase = e.phase, !.native = e.native, !.verified = e.verified,
                          !.published = e.published, !.unheard = e.unheard,
                          !.littered = e.littered, !.dir = d]
<1>1. SignIn!Rest(e) = f
  BY DEF SignIn!Rest
<1>2. n \in Entries /\ n.queue = <<>> /\ n.awaits = "nothing"
  BY EmptyEntry
<1>3. /\ e.phase \in SignIn!Over /\ e.native \in {"none", "asking", "waiting", "reading", "ended"}
      /\ e.verified \in BOOLEAN /\ e.published \in BOOLEAN
      /\ e.unheard \in BOOLEAN /\ e.littered \in BOOLEAN
  BY DEF Entries
<1>0. d \in BOOLEAN
  OBVIOUS
<1> HIDE DEF n, d
<1>4. f \in Entries
  BY <1>0, <1>2, <1>3 DEF Entries
<1>5. /\ f.phase = e.phase /\ f.native = e.native /\ f.verified = e.verified
      /\ f.published = e.published /\ f.unheard = e.unheard /\ f.littered = e.littered
      /\ f.dir = d
      /\ f.queue = <<>> /\ f.awaits = "nothing"
  BY <1>2 DEF Entries
<1> HIDE DEF f
<1>6. EntryInv(f)
  BY <1>5 DEF EntryInv, Busy, SignIn!Over, d
<1> QED
  BY <1>1, <1>4, <1>5, <1>6 DEF d

-----------------------------------------------------------------------------
(* Steps of one entry *)

LEMMA EntryFacts ==
    ASSUME SetupInv, NEW a \in Attempts
    PROVE  /\ attempt[a] \in Entries /\ EntryInv(attempt[a])
           /\ attempt \in [Attempts -> Entries]
  BY DEF SetupInv, SetupTypes

LEMMA SetupNative ==
    ASSUME SetupInv, NEW a \in Attempts, SignIn!Native(a) PROVE SetupInv'
<1> DEFINE old == attempt[a]
<1>1. old \in Entries /\ EntryInv(old)
  BY EntryFacts
<1>2. /\ old.native \in {"asking", "waiting"} /\ UNCHANGED <<disk, config, lock, writer, starts>>
      /\ \/ attempt' = [attempt EXCEPT ![a] = SignIn!Show([old EXCEPT !.native = "waiting"], "waiting")]
         \/ attempt' = [attempt EXCEPT ![a] = SignIn!Show([old EXCEPT !.native = "reading"], "verifying")]
  BY DEF SignIn!Native, SignIn!settings
<1> HIDE DEF old
<1>3. /\ old.phase \notin {"idle", "lost", "succeeded", "ready"} /\ ~old.verified
      /\ old.awaits # "configure" /\ old.phase \in Busy \cup {"ended"}
      /\ old.phase = "ended" => old.awaits = "native"
  BY <1>1, <1>2 DEF EntryInv, SignIn!Over, Busy, Entries
<1>4. ASSUME NEW native \in {"waiting", "reading"}, NEW phase \in {"waiting", "verifying"}
      PROVE  LET e == SignIn!Show([old EXCEPT !.native = native], phase) IN
             /\ e \in Entries /\ EntryInv(e) /\ e.awaits = old.awaits
             /\ e.phase = (IF old.phase = "ended" THEN "ended" ELSE phase)
             /\ old.phase = "ended" => e.unheard = old.unheard
  <2> DEFINE f == [old EXCEPT !.native = native]
             g == [f EXCEPT !.phase = phase]
  <2>1. f \in Entries /\ f.phase = old.phase /\ f.awaits = old.awaits
    BY <1>1 DEF Entries
  <2>2. /\ f.native = native /\ f.queue = old.queue /\ f.verified = old.verified
        /\ f.dir = old.dir /\ f.provider = old.provider /\ f.unheard = old.unheard
    BY <1>1 DEF Entries
  <2> HIDE DEF f
  <2>3. /\ g \in Entries /\ g.phase = phase /\ g.awaits = f.awaits
        /\ g.native = f.native /\ g.queue = f.queue /\ g.verified = f.verified
        /\ g.dir = f.dir /\ g.provider = f.provider
    BY <2>1 DEF Entries
  <2> HIDE DEF g
  <2>4. EntryInv(f)
    BY <1>1, <1>2, <1>3, <2>1, <2>2 DEF EntryInv, SignIn!Over, Busy
  <2>5. old.phase # "ended" => EntryInv(g)
    BY <1>1, <1>2, <1>3, <2>1, <2>2, <2>3 DEF EntryInv, SignIn!Over, Busy
  <2>6. SignIn!Show(f, phase) = IF old.phase = "ended" THEN f ELSE g
    BY <1>3, <2>1 DEF SignIn!Show, SignIn!Over, g
  <2>7. CASE old.phase = "ended"
    BY <2>1, <2>2, <2>4, <2>6, <2>7 DEF f
  <2>8. CASE old.phase # "ended"
    BY <2>1, <2>3, <2>5, <2>6, <2>8 DEF f
  <2> QED
    BY <2>7, <2>8
<1>5. PICK e \in Entries : /\ EntryInv(e) /\ e.awaits = old.awaits
                           /\ attempt' = [attempt EXCEPT ![a] = e]
                           /\ e.phase \in Busy => old.phase \in Busy
                           /\ e.phase # "idle"
                           /\ old.phase = "ended" => e.phase = "ended" /\ e.unheard = old.unheard
  BY <1>2, <1>3, <1>4 DEF Busy
<1>6. (Settled(old) => Settled(e)) /\ ~Held(old)
  BY <1>3, <1>5 DEF Settled, Held, Busy
<1> QED
  BY <1>2, <1>3, <1>5, <1>6, EntryMove DEF old

LEMMA SetupNativeEnd ==
    ASSUME SetupInv, NEW a \in Attempts, NEW outcome \in {"verified", "failed"},
           SignIn!NativeEnd(a, outcome)
    PROVE  SetupInv'
<1> DEFINE old == attempt[a]
           q == IF SignIn!Terminal(a) THEN old.queue ELSE Append(old.queue, outcome)
           f == [old EXCEPT !.native = "ended", !.verified = (outcome = "verified")]
           e == [f EXCEPT !.queue = q]
<1>1. old \in Entries /\ EntryInv(old) /\ attempt \in [Attempts -> Entries]
  BY EntryFacts
<1>2. /\ old.native \in {"asking", "waiting", "reading"}
      /\ UNCHANGED <<disk, config, lock, writer, starts>>
      /\ attempt' = [attempt EXCEPT ![a].native = "ended", ![a].verified = (outcome = "verified"),
                        ![a].queue = IF SignIn!Terminal(a) THEN @ ELSE Append(@, outcome)]
  BY DEF SignIn!NativeEnd, SignIn!settings
<1>3. attempt' = [attempt EXCEPT ![a] = e]
  BY <1>1, <1>2 DEF Entries
<1>4. /\ q \in Seq(Queued)
      /\ \A k \in DOMAIN q : q[k] = outcome \/ (k \in DOMAIN old.queue /\ q[k] = old.queue[k])
  BY <1>1, QueueMoves DEF Queued
<1>5. SignIn!Terminal(a) <=> old.phase \in SignIn!Over
  BY DEF SignIn!Terminal
<1> HIDE DEF old, q
<1>6. /\ old.phase \in Busy \cup {"ended"} /\ old.phase \notin {"idle", "lost", "succeeded", "ready"}
      /\ ~old.verified
      /\ old.awaits # "configure" /\ (old.phase = "ended" => old.awaits = "native")
  BY <1>1, <1>2 DEF EntryInv, SignIn!Over, Busy, Entries
<1>7. /\ f \in Entries /\ f.phase = old.phase /\ f.awaits = old.awaits /\ f.native = "ended"
  BY <1>1 DEF Entries
<1>8. /\ f.verified = (outcome = "verified") /\ f.queue = old.queue /\ f.dir = old.dir
      /\ f.provider = old.provider /\ f.unheard = old.unheard
  BY <1>1 DEF Entries
<1> HIDE DEF f
<1>9. \A k \in DOMAIN old.queue : old.queue[k] # "verified"
  BY <1>1, <1>6 DEF EntryInv
<1>10. EntryInv(f)
  BY <1>1, <1>6, <1>7, <1>8, <1>9 DEF EntryInv, SignIn!Over, Busy
<1>11. \A k \in DOMAIN q : q[k] = "verified" => f.verified
  BY <1>4, <1>8, <1>9
<1>12. /\ e \in Entries /\ EntryInv(e) /\ e.phase = f.phase /\ e.awaits = f.awaits
       /\ e.unheard = f.unheard
  BY <1>4, <1>6, <1>7, <1>10, <1>11, RequeuedEntry
<1> HIDE DEF e
<1>13. (Settled(old) => Settled(e)) /\ ~Held(old)
  BY <1>6, <1>7, <1>8, <1>12 DEF Settled, Held, Busy
<1> QED
  BY <1>2, <1>3, <1>6, <1>7, <1>12, <1>13, EntryMove DEF old

\* What is asked of an entry waits in its queue.
LEMMA SetupQueued ==
    ASSUME SetupInv, NEW a \in Attempts, NEW kind \in Queued \ {"verified"},
           attempt[a].phase \in Busy, NEW late \in BOOLEAN,
           attempt' = [attempt EXCEPT ![a] = [attempt[a] EXCEPT !.late = late,
                                                !.queue = Append(attempt[a].queue, kind)]],
           UNCHANGED <<disk, config, lock, writer, starts>>
    PROVE  SetupInv'
<1> DEFINE old == attempt[a]
           q == Append(old.queue, kind)
           f == [old EXCEPT !.late = late]
           e == [f EXCEPT !.queue = q]
<1>1. old \in Entries /\ EntryInv(old)
  BY EntryFacts
<1>2. attempt' = [attempt EXCEPT ![a] = e]
  BY <1>1 DEF Entries
<1>3. /\ q \in Seq(Queued)
      /\ \A k \in DOMAIN q : q[k] = kind \/ (k \in DOMAIN old.queue /\ q[k] = old.queue[k])
  BY <1>1, QueueMoves
<1> HIDE DEF q
<1>4. /\ f \in Entries /\ f.phase = old.phase /\ f.awaits = old.awaits /\ f.native = old.native
      /\ f.verified = old.verified /\ f.queue = old.queue /\ f.dir = old.dir
      /\ f.provider = old.provider
  BY <1>1 DEF Entries
<1> HIDE DEF f
<1>5. EntryInv(f)
  BY <1>1, <1>4 DEF EntryInv, SignIn!Over, Busy
<1>6. \A k \in DOMAIN q : q[k] = "verified" => f.verified
  BY <1>1, <1>3, <1>4 DEF EntryInv
<1>7. /\ e \in Entries /\ EntryInv(e) /\ e.phase = f.phase /\ e.awaits = f.awaits
      /\ e.dir = f.dir /\ e.verified = f.verified
  BY <1>3, <1>4, <1>5, <1>6, RequeuedEntry
<1> HIDE DEF e
<1>8. /\ ~Settled(old)
      /\ Held(old) => Held(e)
  <2>1. old.phase \notin {"succeeded", "lost", "ended"} /\ old.dir
    BY <1>1 DEF EntryInv, Busy
  <2> QED
    BY <1>4, <1>7, <2>1 DEF Settled, Held
<1> QED
  BY <1>1, <1>2, <1>4, <1>7, <1>8, EntryMove DEF old

LEMMA SetupAsked ==
    ASSUME SetupInv, NEW a \in Attempts,
           \/ \E kind \in SignIn!Kinds : SignIn!Enqueue(a, kind)
           \/ SignIn!Expire(a) \/ SignIn!Shut(a)
    PROVE  SetupInv'
<1> DEFINE old == attempt[a]
<1>1. old \in Entries /\ EntryInv(old) /\ attempt \in [Attempts -> Entries]
  BY EntryFacts
<1>2. a \in SignIn!Active \/ (SignIn!Entered(a) /\ ~SignIn!Terminal(a)) => old.phase \in Busy
  BY <1>1 DEF Entries, Busy, SignIn!Active, SignIn!Entered, SignIn!Terminal, SignIn!Over
<1>3. ASSUME NEW kind \in SignIn!Kinds, SignIn!Enqueue(a, kind) PROVE SetupInv'
  <2>1. /\ attempt' = [attempt EXCEPT ![a].queue = Append(@, kind)] /\ a \in SignIn!Active
        /\ UNCHANGED <<disk, config, lock, writer, starts>>
    BY <1>3 DEF SignIn!Enqueue, SignIn!settings
  <2>2. attempt' = [attempt EXCEPT ![a] = [old EXCEPT !.late = old.late,
                                             !.queue = Append(old.queue, kind)]]
    BY <1>1, <2>1 DEF Entries
  <2>3. old.late \in BOOLEAN /\ kind \in Queued \ {"verified"}
    BY <1>1 DEF Entries, Queued, SignIn!Kinds
  <2> QED
    BY <1>2, <2>1, <2>2, <2>3, SetupQueued
<1>4. CASE SignIn!Expire(a)
  <2>1. /\ attempt' = [attempt EXCEPT ![a].late = TRUE, ![a].queue = Append(@, "expire")]
        /\ a \in SignIn!Active /\ UNCHANGED <<disk, config, lock, writer, starts>>
    BY <1>4 DEF SignIn!Expire, SignIn!settings
  <2>2. attempt' = [attempt EXCEPT ![a] = [old EXCEPT !.late = TRUE,
                                             !.queue = Append(old.queue, "expire")]]
    BY <1>1, <2>1 DEF Entries
  <2>3. "expire" \in Queued \ {"verified"}
    BY DEF Queued
  <2> QED
    BY <1>2, <2>1, <2>2, <2>3, SetupQueued
<1>5. CASE SignIn!Shut(a)
  <2>1. /\ attempt' = [attempt EXCEPT ![a].queue = Append(@, "close")]
        /\ SignIn!Entered(a) /\ ~SignIn!Terminal(a)
        /\ UNCHANGED <<disk, config, lock, writer, starts>>
    BY <1>5 DEF SignIn!Shut, SignIn!settings
  <2>2. attempt' = [attempt EXCEPT ![a] = [old EXCEPT !.late = old.late,
                                             !.queue = Append(old.queue, "close")]]
    BY <1>1, <2>1 DEF Entries
  <2>3. old.late \in BOOLEAN /\ "close" \in Queued \ {"verified"}
    BY <1>1 DEF Entries, Queued
  <2> QED
    BY <1>2, <2>1, <2>2, <2>3, SetupQueued
<1> QED
  BY <1>3, <1>4, <1>5

LEMMA SetupRemoved ==
    ASSUME SetupInv, NEW a \in Attempts, SignIn!Removed(a) PROVE SetupInv'
<1> DEFINE old == attempt[a]
<1>1. old \in Entries /\ EntryInv(old)
  BY EntryFacts
<1>2. PICK littered \in BOOLEAN :
         attempt' = [attempt EXCEPT ![a] = SignIn!Rest([old EXCEPT !.littered = littered])]
  BY DEF SignIn!Removed
<1> DEFINE l == [old EXCEPT !.littered = littered]
           e == SignIn!Rest(l)
<1>3. /\ old.awaits = "native" /\ old.native = "ended"
      /\ UNCHANGED <<disk, config, lock, writer, starts>>
  BY DEF SignIn!Removed, SignIn!settings
<1>4. old.phase = "ended"
  BY <1>1, <1>3 DEF EntryInv
<1>5. /\ l \in Entries /\ l.phase = "ended" /\ l.native = "ended"
      /\ l.verified = old.verified /\ l.unheard = old.unheard
  BY <1>1, <1>3, <1>4 DEF Entries
<1> HIDE DEF l
<1>6. /\ e \in Entries /\ EntryInv(e) /\ e.phase = "ended"
      /\ e.verified = old.verified /\ e.unheard = old.unheard
  BY <1>5, RestEntry DEF SignIn!Over
<1>7. attempt' = [attempt EXCEPT ![a] = e]
  BY <1>2 DEF l
<1> HIDE DEF e
<1>8. "ended" \notin Busy
  BY DEF Busy
<1>9. Settled(old) => old.unheard
  BY <1>4 DEF Settled
<1>10. /\ Settled(old) => Settled(e)
       /\ Settled(old) /\ Held(old) => Held(e)
  BY <1>6, <1>9 DEF Settled, Held
<1> QED
  BY <1>3, <1>4, <1>6, <1>7, <1>8, <1>10, EntryMove DEF old

LEMMA SetupStep ==
    ASSUME SetupInv, NEW a \in Attempts, SignIn!Step(a) PROVE SetupInv'
<1> DEFINE old == attempt[a]
           kind == Head(old.queue)
           d == SignIn!Do(old, kind)
           e == [d EXCEPT !.queue = Tail(d.queue)]
           change == [from |-> a, provider |-> d.provider, value |-> a,
                      revision |-> d.revision]
<1>1. old \in Entries /\ EntryInv(old)
  BY EntryFacts
<1>2. /\ old.queue # <<>> /\ old.awaits = "nothing"
      /\ attempt' = [attempt EXCEPT ![a] = e]
      /\ writer' = IF d.awaits = "configure"
                   THEN [writer EXCEPT !.queue = Append(@, change)] ELSE writer
      /\ UNCHANGED <<disk, config, lock, starts>>
  BY DEF SignIn!Step
<1>3. old.phase \in Busy
  BY <1>1, <1>2 DEF EntryInv, Busy, SignIn!Over, Entries
<1>4. kind = "verified" => old.verified
  BY <1>1, <1>2, QueueMoves DEF EntryInv
<1>5. Done(old, d)
  BY <1>1, <1>2, <1>3, <1>4, DoneEntry
<1> HIDE DEF d, kind
<1>6. /\ d \in Entries /\ EntryInv(d) /\ d.queue = old.queue
      /\ d.phase \in Busy \/ (d.phase = "ended" /\ d.awaits = "native")
  BY <1>5 DEF Done
<1>7. /\ Tail(d.queue) \in Seq(Queued)
      /\ \A k \in DOMAIN Tail(d.queue) : Tail(d.queue)[k] = "verified" => d.verified
  BY <1>2, <1>6, QueueMoves DEF EntryInv
<1>8. /\ e \in Entries /\ EntryInv(e) /\ e.phase = d.phase /\ e.awaits = d.awaits
  BY <1>6, <1>7, RequeuedEntry
<1> HIDE DEF e
<1>9. /\ d.awaits = "configure" => change \in Changes
      /\ change.from = a /\ change.value = a
  <2>1. d.awaits = "configure" => d.phase \in Busy
    BY <1>5 DEF Done, Busy
  <2>2. d.phase \in Busy => d.provider \in Providers
    BY <1>6 DEF EntryInv
  <2>3. d.revision \in SetupConfigs
    BY <1>6 DEF Entries
  <2> QED
    BY <2>1, <2>2, <2>3 DEF Changes
<1> HIDE DEF change
<1>10. \/ UNCHANGED writer
       \/ /\ attempt[a].awaits = "nothing" /\ e.awaits = "configure"
          /\ \E c \in Changes : /\ c.from = a /\ c.value = a
                                /\ writer' = [writer EXCEPT !.queue = Append(@, c)]
  BY <1>2, <1>8, <1>9
<1>11. /\ "configure" # "nothing" /\ "idle" \notin Busy /\ "succeeded" \notin Busy
       /\ "lost" \notin Busy
  BY DEF Busy
<1>12. /\ attempt[a].awaits = "configure" => e.awaits = "configure"
       /\ attempt[a].phase = "idle" => e.phase = "idle"
       /\ e.phase \in Busy => attempt[a].phase \in Busy
       /\ ~Settled(attempt[a]) /\ attempt[a].awaits # "configure"
  BY <1>2, <1>3, <1>11 DEF Settled, Busy
<1> QED
  BY <1>2, <1>8, <1>10, <1>12, EntryMove

-----------------------------------------------------------------------------
(* Attempts are started *)

\* The starts change, and nothing else.
LEMMA StartsMove ==
    ASSUME SetupInv, UNCHANGED <<disk, config, lock, writer, attempt>>,
           starts' \in Seq(Starts),
           \A i \in DOMAIN starts' :
              /\ attempt[starts'[i].attempt].phase = "idle"
              /\ starts'[i].at = "preflight" => i = 1 /\ Cardinality(SignIn!Active) < MaxActive
              /\ \A j \in DOMAIN starts' : starts'[j].attempt = starts'[i].attempt => j = i
    PROVE  SetupInv'
<1>1. SetupTypes'
  BY DEF SetupInv, SetupTypes
<1>2. (\A a \in Attempts : EntryInv(attempt[a]))'
  BY DEF SetupInv, EntryInv
<1>3. StartInv'
  <2>1. SignIn!Active' = SignIn!Active
    BY DEF SignIn!Active, SignIn!Entered, SignIn!Terminal
  <2> QED
    BY <2>1 DEF SetupInv, StartInv
<1>4. ChangeInv' /\ WriterInv' /\ AccountInv'
  BY DEF SetupInv, ChangeInv, WriterInv, AccountInv
<1> QED
  BY <1>1, <1>2, <1>3, <1>4 DEF SetupInv

LEMMA StartFacts ==
    ASSUME SetupInv
    PROVE  /\ starts \in Seq(Starts)
           /\ \A i \in DOMAIN starts :
                 /\ starts[i] \in Starts /\ starts[i].attempt \in Attempts
                 /\ attempt[starts[i].attempt].phase = "idle"
                 /\ starts[i].at = "preflight" => i = 1
                 /\ \A j \in DOMAIN starts : starts[j].attempt = starts[i].attempt => j = i
           /\ IsFiniteSet(SignIn!Active) /\ Cardinality(SignIn!Active) \in Nat
           /\ Cardinality(SignIn!Active) <= MaxActive /\ MaxActive \in Nat
           /\ \A i \in DOMAIN starts :
                 starts[i].at = "preflight" => Cardinality(SignIn!Active) < MaxActive
<1>1. \A i \in DOMAIN starts : starts[i] \in Starts /\ starts[i].attempt \in Attempts
  BY StartTypes DEF SetupInv, Starts
<1>2. MaxActive \in Nat
  BY AdministrationAssumption
<1>3. IsFiniteSet(SignIn!Active) /\ Cardinality(SignIn!Active) \in Nat
  BY FewerActive DEF SetupInv, StartInv
<1> QED
  BY <1>1, <1>2, <1>3 DEF SetupInv, StartInv, SetupTypes

LEMMA SetupRequest ==
    ASSUME SetupInv, NEW a \in Attempts, NEW p \in Providers, SignIn!Request(a, p)
    PROVE  SetupInv'
<1> DEFINE new == [attempt |-> a, provider |-> p, revision |-> config, at |-> "waiting"]
           n == Len(starts)
<1>1. /\ attempt[a].phase = "idle" /\ \A i \in DOMAIN starts : starts[i].attempt # a
      /\ starts' = Append(starts, new) /\ UNCHANGED <<disk, config, lock, writer, attempt>>
  BY DEF SignIn!Request, SignIn!settings
<1>2. new \in Starts
  BY DEF SetupInv, SetupTypes, Starts
<1>3. new.attempt = a /\ new.at = "waiting"
  OBVIOUS
<1> HIDE DEF new
<1>4. starts \in Seq(Starts)
  BY StartFacts
<1>5. /\ starts' \in Seq(Starts) /\ Len(starts') = n + 1
      /\ \A i \in 1 .. n : starts'[i] = starts[i]
      /\ starts'[n + 1] = new
  BY <1>1, <1>2, <1>4, AppendProperties
<1>6. DOMAIN starts' = 1 .. n + 1 /\ DOMAIN starts = 1 .. n /\ n \in Nat
  BY <1>4, <1>5
<1> HIDE DEF n
<1>7. \A i \in DOMAIN starts' : i \in DOMAIN starts \/ i = n + 1
  BY <1>6
<1>8. n + 1 \notin DOMAIN starts
  BY <1>6
<1> SUFFICES ASSUME NEW i \in DOMAIN starts'
             PROVE  /\ attempt[starts'[i].attempt].phase = "idle"
                    /\ starts'[i].at = "preflight" =>
                          i = 1 /\ Cardinality(SignIn!Active) < MaxActive
                    /\ \A j \in DOMAIN starts' :
                          starts'[j].attempt = starts'[i].attempt => j = i
  BY <1>1, <1>5, StartsMove
<1>9. CASE i = n + 1
  BY <1>1, <1>3, <1>5, <1>6, <1>7, <1>9
<1>10. CASE i \in DOMAIN starts
  BY <1>1, <1>3, <1>5, <1>6, <1>7, <1>10, StartFacts
<1> QED
  BY <1>7, <1>9, <1>10

LEMMA Counted == SignIn!Cardinality(SignIn!Active) = Cardinality(SignIn!Active)
  BY DEF SignIn!Cardinality, Cardinality

\* The first start is over: the others wait.
LEMMA FirstStartOver ==
    ASSUME SetupInv, 1 \in DOMAIN starts, starts' = SignIn!RemoveAt(starts, 1)
    PROVE  /\ starts' \in Seq(Starts)
           /\ \A i \in DOMAIN starts' :
                 /\ i + 1 \in DOMAIN starts /\ starts'[i] = starts[i + 1]
                 /\ starts'[i].attempt # starts[1].attempt
                 /\ starts'[i].attempt \in Attempts
                 /\ attempt[starts'[i].attempt].phase = "idle"
                 /\ starts'[i].at # "preflight"
                 /\ \A j \in DOMAIN starts' : starts'[j].attempt = starts'[i].attempt => j = i
<1> DEFINE n == Len(starts)
<1>1. starts \in Seq(Starts)
  BY StartFacts
<1>2. /\ starts' \in Seq(Starts) /\ Len(starts') = n - 1
      /\ \A k \in 1 .. n - 1 : starts'[k] = IF k < 1 THEN starts[k] ELSE starts[k + 1]
  BY <1>1, OneRemoved
<1>3. DOMAIN starts' = 1 .. n - 1 /\ DOMAIN starts = 1 .. n /\ n \in Nat
  BY <1>1, <1>2
<1> HIDE DEF n
<1>4. \A k \in 1 .. n - 1 : k + 1 \in 1 .. n /\ k + 1 # 1 /\ ~(k < 1)
  BY <1>3
<1>5. \A k \in 1 .. n - 1 : \A l \in 1 .. n - 1 : k + 1 = l + 1 => k = l
  BY <1>3
<1>6. \A i \in DOMAIN starts' : i + 1 \in DOMAIN starts /\ starts'[i] = starts[i + 1]
  BY <1>2, <1>3, <1>4
<1> SUFFICES ASSUME NEW i \in DOMAIN starts'
             PROVE  /\ i + 1 \in DOMAIN starts /\ starts'[i] = starts[i + 1]
                    /\ starts'[i].attempt # starts[1].attempt
                    /\ starts'[i].attempt \in Attempts
                    /\ attempt[starts'[i].attempt].phase = "idle"
                    /\ starts'[i].at # "preflight"
                    /\ \A j \in DOMAIN starts' :
                          starts'[j].attempt = starts'[i].attempt => j = i
  BY <1>2
<1>7. i + 1 # 1 /\ i + 1 \in DOMAIN starts /\ starts'[i] = starts[i + 1]
  BY <1>3, <1>4, <1>6
<1>8. /\ starts[i + 1].attempt # starts[1].attempt /\ starts[i + 1].attempt \in Attempts
      /\ attempt[starts[i + 1].attempt].phase = "idle" /\ starts[i + 1].at # "preflight"
      /\ \A j \in DOMAIN starts : starts[j].attempt = starts[i + 1].attempt => j = i + 1
  BY <1>7, StartFacts
<1>9. \A j \in DOMAIN starts' : starts'[j].attempt = starts'[i].attempt => j + 1 = i + 1
  BY <1>6, <1>7, <1>8
<1> QED
  BY <1>3, <1>5, <1>7, <1>8, <1>9

LEMMA SetupCheck ==
    ASSUME SetupInv, NEW i \in 1 .. MaxStarts, SignIn!Check(i) PROVE SetupInv'
<1>1. /\ i = 1 /\ 1 \in DOMAIN starts /\ starts[1].at = "waiting"
      /\ starts' = IF SignIn!Startable(starts[1]) THEN [starts EXCEPT ![1].at = "preflight"]
                   ELSE SignIn!RemoveAt(starts, 1)
      /\ UNCHANGED <<disk, config, lock, writer, attempt>>
  BY DEF SignIn!Check, SignIn!settings
<1>2. CASE SignIn!Startable(starts[1])
  <2>1. Cardinality(SignIn!Active) < MaxActive
    BY <1>2, Counted DEF SignIn!Startable
  <2> DEFINE s == [starts[1] EXCEPT !.at = "preflight"]
  <2>2. starts \in Seq(Starts) /\ starts[1] \in Starts
    BY <1>1, StartFacts
  <2>3. s \in Starts /\ s.attempt = starts[1].attempt
    BY <2>2 DEF Starts
  <2>4. starts' = [starts EXCEPT ![1] = s]
    BY <1>1, <1>2
  <2> HIDE DEF s
  <2>5. starts' \in Seq(Starts) /\ DOMAIN starts' = DOMAIN starts
    BY <1>1, <2>2, <2>3, <2>4
  <2>6. \A k \in DOMAIN starts : /\ starts'[k].attempt = starts[k].attempt
                                 /\ k # 1 => starts'[k] = starts[k]
    BY <2>2, <2>3, <2>4
  <2>7. \A k \in DOMAIN starts' :
           /\ attempt[starts'[k].attempt].phase = "idle"
           /\ starts'[k].at = "preflight" => k = 1 /\ Cardinality(SignIn!Active) < MaxActive
           /\ \A j \in DOMAIN starts' : starts'[j].attempt = starts'[k].attempt => j = k
    BY <2>1, <2>5, <2>6, StartFacts
  <2> QED
    BY <1>1, <2>5, <2>7, StartsMove
<1>3. CASE ~SignIn!Startable(starts[1])
  BY <1>1, <1>3, FirstStartOver, StartsMove
<1> QED
  BY <1>2, <1>3

LEMMA SetupStart ==
    ASSUME SetupInv, NEW i \in 1 .. MaxStarts, SignIn!Start(i) PROVE SetupInv'
<1> DEFINE a == starts[1].attempt
           e == [SignIn!NoEntry EXCEPT !.phase = "starting", !.provider = starts[1].provider,
                                       !.revision = starts[1].revision, !.native = "asking",
                                       !.dir = TRUE]
<1>1. i \in DOMAIN starts /\ starts[i].at = "preflight" /\ i = 1
  BY StartFacts DEF SignIn!Start
<1>2. /\ 1 \in DOMAIN starts /\ starts' = SignIn!RemoveAt(starts, 1)
      /\ UNCHANGED <<disk, config, lock, writer>>
      /\ attempt' = attempt \/ attempt' = [attempt EXCEPT ![a] = e]
  BY <1>1 DEF SignIn!Start, SignIn!settings
<1>3. CASE attempt' = attempt
  BY <1>2, <1>3, FirstStartOver, StartsMove
<1>4. CASE attempt' = [attempt EXCEPT ![a] = e]
  <2> DEFINE n == SignIn!NoEntry
  <2>1. /\ starts[1].provider \in Providers /\ starts[1].revision \in SetupConfigs
        /\ a \in Attempts /\ attempt[a].phase = "idle"
    BY <1>2, StartFacts DEF Starts
  <2>2. /\ n \in Entries /\ n.queue = <<>> /\ n.awaits = "nothing" /\ ~n.verified
    BY EmptyEntry
  <2> HIDE DEF n
  <2>3. e = [n EXCEPT !.phase = "starting", !.provider = starts[1].provider,
                      !.revision = starts[1].revision, !.native = "asking", !.dir = TRUE]
    BY DEF n
  <2> HIDE DEF e
  <2>4. e \in Entries
    BY <2>1, <2>2, <2>3 DEF Entries
  <2>5. /\ e.phase = "starting" /\ e.provider = starts[1].provider /\ e.native = "asking"
        /\ e.dir = TRUE /\ e.queue = <<>> /\ e.awaits = "nothing" /\ e.verified = FALSE
    <3>1. e.phase = "starting" /\ e.provider = starts[1].provider /\ e.native = "asking"
      BY <2>2, <2>3 DEF Entries
    <3>2. e.dir = TRUE /\ e.queue = n.queue /\ e.awaits = n.awaits /\ e.verified = n.verified
      BY <2>2, <2>3 DEF Entries
    <3>3. n.verified = FALSE
      BY <2>2 DEF Entries
    <3> QED
      BY <2>2, <3>1, <3>2, <3>3
  <2>6. EntryInv(e)
    BY <2>1, <2>5 DEF EntryInv, SignIn!Over, Busy
  <2> HIDE DEF a
  <2>7. /\ attempt' \in [Attempts -> Entries] /\ attempt'[a] = e
        /\ \A b \in Attempts : b # a => attempt'[b] = attempt[b]
    BY <1>4, <2>1, <2>4 DEF SetupInv, SetupTypes
  <2>8. /\ starts' \in Seq(Starts)
        /\ \A k \in DOMAIN starts' :
              /\ starts'[k].attempt # a /\ starts'[k].attempt \in Attempts
              /\ attempt[starts'[k].attempt].phase = "idle"
              /\ starts'[k].at # "preflight"
              /\ \A j \in DOMAIN starts' : starts'[j].attempt = starts'[k].attempt => j = k
    BY <1>2, FirstStartOver DEF a
  <2>9. SetupTypes'
    BY <1>2, <2>7, <2>8 DEF SetupInv, SetupTypes
  <2>10. (\A b \in Attempts : EntryInv(attempt[b]))'
    <3>1. \A b \in Attempts : EntryInv(attempt'[b])
      BY <2>6, <2>7 DEF SetupInv
    <3> QED
      BY <3>1 DEF EntryInv
  <2>11. StartInv'
    <3> DEFINE A == SignIn!Active
               B == SignIn!Active'
    <3>1. /\ IsFiniteSet(A) /\ Cardinality(A) \in Nat /\ Cardinality(A) < MaxActive
          /\ MaxActive \in Nat
      BY <1>1, StartFacts
    <3>2. B \subseteq A \cup {a}
      <4>1. \A b \in Attempts : b \in A <=> attempt[b].phase \in Busy
        BY BusyIsActive DEF SetupInv
      <4>2. \A b \in Attempts : b \in B <=> attempt'[b].phase \in Busy
        BY <2>7, ActiveNow
      <4>3. B \subseteq Attempts
        BY DEF SignIn!Active
      <4> HIDE DEF A, B
      <4> QED
        BY <2>7, <4>1, <4>2, <4>3
    <3> HIDE DEF A, B
    <3>3. /\ IsFiniteSet(A \cup {a}) /\ Cardinality(A \cup {a}) <= Cardinality(A) + 1
      BY <3>1, FS_AddElement
    <3>4. /\ IsFiniteSet(B) /\ Cardinality(B) \in Nat /\ Cardinality(A \cup {a}) \in Nat
          /\ Cardinality(B) <= Cardinality(A \cup {a})
      BY <3>2, <3>3, FewerActive
    <3>5. Cardinality(B) <= MaxActive
      BY <3>1, <3>3, <3>4
    <3>6. \A k \in DOMAIN starts' : attempt'[starts'[k].attempt].phase = "idle"
      BY <2>7, <2>8
    <3> QED
      BY <2>8, <3>4, <3>5, <3>6 DEF StartInv, B
  <2>12. ChangeInv'
    <3>1. attempt[a].awaits = "nothing"
      BY <2>1 DEF SetupInv, EntryInv
    <3>2. \A k \in DOMAIN writer.queue :
             writer.queue[k].from \in Attempts \cup {"operator"}
      BY StartTypes DEF SetupInv, Changes
    <3>3. \A k \in DOMAIN writer.queue : writer.queue[k].from # "operator" =>
             attempt'[writer.queue[k].from].awaits = "configure"
      BY <2>7, <3>1, <3>2 DEF SetupInv, ChangeInv
    <3> QED
      BY <1>2, <3>3 DEF SetupInv, ChangeInv
  <2>13. WriterInv'
    BY <1>2 DEF SetupInv, WriterInv
  <2>14. AccountInv'
    <3>1. \A p \in Providers : disk[p] # a
      <4> SUFFICES ASSUME NEW p \in Providers, disk[p] = a PROVE FALSE
        OBVIOUS
      <4>1. attempt[a].verified
        BY <2>1 DEF SetupInv, AccountInv, Held
      <4> QED
        BY <2>1, <4>1 DEF SetupInv, EntryInv
    <3> QED
      BY <1>2, <2>7, <3>1 DEF SetupInv, AccountInv
  <2> QED
    BY <2>9, <2>10, <2>11, <2>12, <2>13, <2>14 DEF SetupInv
<1> QED
  BY <1>2, <1>3, <1>4

-----------------------------------------------------------------------------
(* The configuration *)

LEMMA HeadChange ==
    ASSUME SetupInv, writer.queue # <<>>
    PROVE  /\ 1 \in DOMAIN writer.queue /\ Head(writer.queue) = writer.queue[1]
           /\ writer.queue[1] \in Changes
           /\ Tail(writer.queue) \in Seq(Changes)
           /\ \A k \in DOMAIN Tail(writer.queue) :
                 /\ k + 1 \in DOMAIN writer.queue /\ k + 1 # 1
                 /\ Tail(writer.queue)[k] = writer.queue[k + 1]
                 /\ \A l \in DOMAIN Tail(writer.queue) : l + 1 = k + 1 => l = k
<1> DEFINE q == writer.queue
<1>1. q \in Seq(Changes)
  BY DEF SetupInv, SetupTypes, Writers
<1> HIDE DEF q
<1>2. q # <<>> =>
         /\ 1 \in DOMAIN q /\ Head(q) = q[1] /\ q[1] \in Changes
         /\ Tail(q) \in Seq(Changes)
         /\ \A k \in DOMAIN Tail(q) : k \in Nat /\ k + 1 \in DOMAIN q /\ k + 1 # 1
                                      /\ Tail(q)[k] = q[k + 1]
  BY <1>1
<1>3. ASSUME NEW k \in DOMAIN Tail(q), NEW l \in DOMAIN Tail(q), l + 1 = k + 1, q # <<>>
      PROVE  l = k
  BY <1>2, <1>3
<1> QED
  BY <1>2, <1>3 DEF q

LEMMA ConnectWaits ==
    ASSUME SetupInv, NEW k \in DOMAIN writer.queue, writer.queue[k].from # "operator"
    PROVE  LET a == writer.queue[k].from IN
           /\ a \in Attempts /\ writer.queue[k].value = a
           /\ attempt[a].phase = "verifying" /\ attempt[a].awaits = "configure"
           /\ attempt[a].dir /\ attempt[a].verified /\ attempt[a].native = "ended"
           /\ \A l \in DOMAIN writer.queue : writer.queue[l].from = a => l = k
<1> DEFINE a == writer.queue[k].from
<1>1. a \in Attempts
  BY StartTypes DEF SetupInv, Changes
<1>2. /\ writer.queue[k].value = a /\ attempt[a].awaits = "configure"
      /\ \A l \in DOMAIN writer.queue : writer.queue[l].from = a => l = k
  BY DEF SetupInv, ChangeInv
<1> HIDE DEF a
<1>3. EntryInv(attempt[a])
  BY <1>1 DEF SetupInv
<1>4. /\ attempt[a].phase = "verifying" /\ attempt[a].verified
      /\ attempt[a].dir /\ attempt[a].native = "ended"
  BY <1>2, <1>3 DEF EntryInv, Busy
<1> QED
  BY <1>1, <1>2, <1>4 DEF a

\* Whose change is answered.
LEMMA ChangeAnswered ==
    ASSUME SetupInv, writer.queue # <<>>, NEW answer \in {"saved", "failed", "unheard"},
           answer # "failed" <=> writer.at = "saved",
           writer' = [SignIn!NoWriter EXCEPT !.queue = Tail(writer.queue)],
           attempt' = SignIn!Answered(Head(writer.queue).from, answer),
           lock' \in {"free", "host", "other", "left"},
           UNCHANGED <<disk, config, starts>>
    PROVE  SetupInv'
<1> DEFINE a == writer.queue[1].from
           rest == Tail(writer.queue)
<1>1. /\ 1 \in DOMAIN writer.queue /\ Head(writer.queue) = writer.queue[1]
      /\ rest \in Seq(Changes)
      /\ a \in Attempts \cup {"operator"}
  BY HeadChange DEF Changes
<1>2. writer' \in Writers /\ writer'.at = "idle" /\ writer'.queue = rest
  BY <1>1, EmptyWriter
<1>3. \A k \in DOMAIN rest : /\ k + 1 \in DOMAIN writer.queue /\ k + 1 # 1
                             /\ rest[k] = writer.queue[k + 1]
                             /\ \A l \in DOMAIN rest : l + 1 = k + 1 => l = k
  BY HeadChange
<1>4. "operator" \notin Attempts
  BY AdministrationAssumption
<1>5. a = "operator" => attempt' = attempt
  BY <1>1, <1>4 DEF SignIn!Answered
<1>6. a \in Attempts =>
         /\ attempt[a].phase = "verifying" /\ attempt[a].awaits = "configure"
         /\ attempt[a].dir /\ attempt[a].verified /\ attempt[a].native = "ended"
         /\ \A l \in DOMAIN writer.queue : writer.queue[l].from = a => l = 1
  BY <1>1, <1>4, ConnectWaits
<1> HIDE DEF a, rest
<1>7. a \in Attempts => \E e \in Entries :
         /\ EntryInv(e) /\ attempt' = [attempt EXCEPT ![a] = e]
         /\ e.phase \notin Busy /\ e.phase # "idle"
         /\ answer # "failed" => Settled(e) /\ Held(e)
  <2> SUFFICES ASSUME a \in Attempts
               PROVE  \E e \in Entries :
                         /\ EntryInv(e) /\ attempt' = [attempt EXCEPT ![a] = e]
                         /\ e.phase \notin Busy /\ e.phase # "idle"
                         /\ answer # "failed" => Settled(e) /\ Held(e)
    OBVIOUS
  <2> DEFINE old == attempt[a]
  <2>1. old \in Entries /\ EntryInv(old)
    BY EntryFacts
  <2>2. CASE answer = "saved"
    <3> DEFINE s == [old EXCEPT !.published = TRUE, !.phase = "succeeded"]
               e == SignIn!Rest(s)
    <3>1. attempt' = [attempt EXCEPT ![a] = e]
      BY <1>1, <2>2 DEF SignIn!Answered, a
    <3>2. /\ s \in Entries /\ s.phase = "succeeded" /\ s.published = TRUE
          /\ s.native = old.native /\ s.verified = old.verified
          /\ s.unheard = old.unheard
      BY <2>1 DEF Entries, SignIn!Over
    <3> HIDE DEF s
    <3>3. /\ e \in Entries /\ EntryInv(e) /\ e.phase = "succeeded" /\ e.dir = TRUE
          /\ e.verified = old.verified
      BY <1>6, <3>2, RestEntry DEF SignIn!Over
    <3> HIDE DEF e
    <3>4. "succeeded" \notin Busy
      BY DEF Busy
    <3>5. Settled(e) /\ Held(e)
      BY <1>6, <3>3 DEF Settled, Held
    <3> QED
      BY <3>1, <3>3, <3>4, <3>5
  <2>3. CASE answer # "saved"
    <3> DEFINE f == [old EXCEPT !.awaits = "nothing", !.unheard = (answer = "unheard")]
               e == SignIn!Finished(f)
    <3>1. attempt' = [attempt EXCEPT ![a] = e]
      BY <1>1, <2>3 DEF SignIn!Answered, a
    <3>2. /\ f \in Entries /\ f.phase = "verifying" /\ f.awaits = "nothing"
          /\ f.native = old.native /\ f.verified = old.verified /\ f.queue = old.queue
          /\ f.dir = old.dir /\ f.provider = old.provider
          /\ f.unheard = (answer = "unheard")
      BY <1>6, <2>1 DEF Entries
    <3> HIDE DEF f
    <3>3. EntryInv(f)
      BY <1>6, <2>1, <3>2 DEF EntryInv, SignIn!Over, Busy
    <3>4. /\ e \in Entries /\ EntryInv(e) /\ e.phase = "ended"
          /\ e.verified = f.verified /\ e.unheard = f.unheard
      BY <3>2, <3>3, FinishedEntry DEF Busy
    <3> HIDE DEF e
    <3>5. "ended" \notin Busy
      BY DEF Busy
    <3>6. answer # "failed" => Settled(e) /\ Held(e)
      BY <1>6, <2>3, <3>2, <3>4 DEF Settled, Held
    <3> QED
      BY <3>1, <3>4, <3>5, <3>6
  <2> QED
    BY <2>2, <2>3
<1>8. /\ attempt' \in [Attempts -> Entries]
      /\ \A b \in Attempts : b # a => attempt'[b] = attempt[b]
      /\ a \in Attempts => /\ EntryInv(attempt'[a]) /\ attempt'[a].phase \notin Busy
                           /\ attempt'[a].phase # "idle"
                           /\ answer # "failed" => Settled(attempt'[a]) /\ Held(attempt'[a])
  <2>1. attempt \in [Attempts -> Entries]
    BY DEF SetupInv, SetupTypes
  <2>2. CASE a = "operator"
    BY <1>4, <1>5, <2>1, <2>2
  <2>3. CASE a \in Attempts
    BY <1>7, <2>1, <2>3
  <2> QED
    BY <1>1, <2>2, <2>3
<1>9. SetupTypes'
  BY <1>2, <1>8 DEF SetupInv, SetupTypes
<1>10. (\A b \in Attempts : EntryInv(attempt[b]))'
  <2>1. \A b \in Attempts : EntryInv(attempt'[b])
    BY <1>8 DEF SetupInv
  <2> QED
    BY <2>1 DEF EntryInv
<1>11. StartInv'
  <2>1. \A b \in Attempts : attempt'[b].phase \in Busy => attempt[b].phase \in Busy
    BY <1>8
  <2>2. \A b \in Attempts : attempt[b].phase = "idle" => attempt'[b].phase = "idle"
    BY <1>6, <1>8
  <2> QED
    BY <1>8, <2>1, <2>2, StartKept
<1>12. ChangeInv'
  <2> SUFFICES ASSUME NEW k \in DOMAIN rest
               PROVE  IF rest[k].from = "operator" THEN rest[k].value \in {"none", "plain"}
                      ELSE /\ rest[k].value = rest[k].from
                           /\ attempt'[rest[k].from].awaits = "configure"
                           /\ \A l \in DOMAIN rest : rest[l].from = rest[k].from => l = k
    BY <1>2 DEF ChangeInv
  <2>1. k + 1 \in DOMAIN writer.queue /\ k + 1 # 1 /\ rest[k] = writer.queue[k + 1]
    BY <1>3
  <2>2. CASE rest[k].from = "operator"
    BY <2>1, <2>2 DEF SetupInv, ChangeInv
  <2>3. CASE rest[k].from # "operator"
    <3> DEFINE b == rest[k].from
    <3>1. /\ b \in Attempts /\ rest[k].value = b /\ attempt[b].awaits = "configure"
          /\ \A l \in DOMAIN writer.queue : writer.queue[l].from = b => l = k + 1
      BY <2>1, <2>3, ConnectWaits
    <3> HIDE DEF b
    <3>2. b # a
      BY <1>1, <2>1, <3>1 DEF a
    <3>3. \A l \in DOMAIN rest : rest[l].from = b => l = k
      BY <1>3, <3>1
    <3> QED
      BY <1>8, <2>3, <3>1, <3>2, <3>3 DEF b
  <2> QED
    BY <2>2, <2>3
<1>13. WriterInv'
  BY <1>2 DEF WriterInv
<1>14. AccountInv'
  <2> SUFFICES ASSUME NEW p \in Providers, disk[p] \in Attempts
               PROVE  Held(attempt'[disk[p]]) /\ Settled(attempt'[disk[p]])
    BY DEF AccountInv, Held, Settled
  <2> DEFINE b == disk[p]
  <2>1. Held(attempt[b]) /\ (Settled(attempt[b]) \/ (answer # "failed" /\ a = b))
    BY DEF SetupInv, AccountInv, a
  <2> HIDE DEF b
  <2>2. b \in Attempts
    BY DEF b
  <2>3. CASE a = b
    <3>1. ~Settled(attempt[a])
      BY <1>6, <2>2, <2>3 DEF Settled
    <3> QED
      BY <1>8, <2>1, <2>2, <2>3, <3>1 DEF b
  <2>4. CASE a # b
    BY <1>8, <2>1, <2>2, <2>4 DEF b
  <2> QED
    BY <2>3, <2>4
<1> QED
  BY <1>9, <1>10, <1>11, <1>12, <1>13, <1>14 DEF SetupInv

\* The writer or the lock changes, and no entry and no start.
LEMMA WriterMove ==
    ASSUME SetupInv, UNCHANGED <<attempt, starts>>,
           writer' \in Writers, writer'.queue = writer.queue,
           disk' \in SetupConfigs, config' \in SetupConfigs,
           lock' \in {"free", "host", "other", "left"}, WriterInv', AccountInv'
    PROVE  SetupInv'
<1>1. SetupTypes'
  BY DEF SetupInv, SetupTypes
<1>2. (\A b \in Attempts : EntryInv(attempt[b]))'
  BY DEF SetupInv, EntryInv
<1>3. StartInv'
  <2>1. attempt \in [Attempts -> Entries]
    BY DEF SetupInv, SetupTypes
  <2> QED
    BY <2>1, StartKept
<1>4. ChangeInv'
  BY DEF SetupInv, ChangeInv
<1> QED
  BY <1>1, <1>2, <1>3, <1>4 DEF SetupInv

LEMMA SetupAdminister ==
    ASSUME SetupInv, NEW p \in Providers, NEW v \in {"none", "plain"}, SignIn!Administer(p, v)
    PROVE  SetupInv'
<1> DEFINE change == [from |-> "operator", provider |-> p, value |-> v, revision |-> config]
           n == Len(writer.queue)
<1>1. /\ writer' = [writer EXCEPT !.queue = Append(@, change)]
      /\ UNCHANGED <<disk, config, lock, attempt, starts>>
  BY DEF SignIn!Administer
<1>2. change \in Changes
  BY DEF SetupInv, SetupTypes, Changes
<1>3. change.from = "operator" /\ change.value \in {"none", "plain"}
  OBVIOUS
<1> HIDE DEF change
<1>4. /\ writer' \in Writers /\ writer'.at = writer.at
      /\ writer'.next = writer.next /\ writer'.base = writer.base
      /\ DOMAIN writer'.queue = 1 .. n + 1 /\ DOMAIN writer.queue = 1 .. n /\ n \in Nat
      /\ \A k \in 1 .. n : writer'.queue[k] = writer.queue[k]
      /\ writer'.queue[n + 1] = change
  BY <1>1, <1>2, ChangeAdded DEF SetupInv
<1> HIDE DEF n
<1>5. SetupTypes'
  BY <1>1, <1>4 DEF SetupInv, SetupTypes
<1>6. (\A b \in Attempts : EntryInv(attempt[b]))'
  BY <1>1 DEF SetupInv, EntryInv
<1>7. StartInv'
  <2>1. attempt \in [Attempts -> Entries]
    BY DEF SetupInv, SetupTypes
  <2> QED
    BY <1>1, <2>1, StartKept
<1>8. ChangeInv'
  <2>1. \A k \in 1 .. n + 1 : k \in 1 .. n \/ k = n + 1
    BY <1>4
  <2> SUFFICES ASSUME NEW k \in 1 .. n + 1
               PROVE  IF writer'.queue[k].from = "operator"
                      THEN writer'.queue[k].value \in {"none", "plain"}
                      ELSE /\ writer'.queue[k].value = writer'.queue[k].from
                           /\ attempt'[writer'.queue[k].from].awaits = "configure"
                           /\ \A l \in 1 .. n + 1 :
                                 writer'.queue[l].from = writer'.queue[k].from => l = k
    BY <1>4 DEF ChangeInv
  <2>2. CASE k = n + 1
    BY <1>3, <1>4, <2>2
  <2>3. CASE k \in 1 .. n
    <3>1. writer'.queue[k] = writer.queue[k] /\ k \in DOMAIN writer.queue
      BY <1>4, <2>3
    <3>2. CASE writer.queue[k].from = "operator"
      BY <3>1, <3>2 DEF SetupInv, ChangeInv
    <3>3. CASE writer.queue[k].from # "operator"
      <4>1. /\ writer.queue[k].value = writer.queue[k].from
            /\ attempt[writer.queue[k].from].awaits = "configure"
            /\ \A l \in 1 .. n : writer.queue[l].from = writer.queue[k].from => l = k
        BY <1>4, <3>1, <3>3 DEF SetupInv, ChangeInv
      <4> QED
        BY <1>1, <1>3, <1>4, <2>1, <3>1, <3>3, <4>1
    <3> QED
      BY <3>2, <3>3
  <2> QED
    BY <2>1, <2>2, <2>3
<1>9. writer.queue # <<>> => /\ writer'.queue # <<>> /\ writer'.queue[1] = writer.queue[1]
                             /\ 1 \in DOMAIN writer.queue
  <2>1. writer.queue # <<>> => 1 \in 1 .. n
    BY <1>4, HeadChange
  <2>2. 1 \in 1 .. n => 1 \in DOMAIN writer'.queue
    BY <1>4
  <2>3. 1 \in DOMAIN writer'.queue => writer'.queue # <<>>
    OBVIOUS
  <2> QED
    BY <1>4, <2>1, <2>2, <2>3
<1>10. WriterInv'
  BY <1>1, <1>4, <1>9 DEF SetupInv, WriterInv
<1>11. AccountInv'
  <2>1. writer.at = "saved" => writer'.at = "saved" /\ writer'.queue[1] = writer.queue[1]
    BY <1>4, <1>9 DEF SetupInv, WriterInv
  <2> QED
    BY <1>1, <2>1 DEF SetupInv, AccountInv
<1> QED
  BY <1>5, <1>6, <1>7, <1>8, <1>10, <1>11 DEF SetupInv

LEMMA WriterTypes ==
    ASSUME SetupInv
    PROVE  /\ writer \in Writers /\ disk \in SetupConfigs /\ config \in SetupConfigs
           /\ \A at \in {"idle", "locked", "writing", "saved", "refused"} :
                 /\ [writer EXCEPT !.at = at] \in Writers /\ [writer EXCEPT !.at = at].at = at
                 /\ [writer EXCEPT !.at = at].queue = writer.queue
  BY DEF SetupInv, SetupTypes, Writers

LEMMA SetupLock == ASSUME SetupInv, SignIn!Lock PROVE SetupInv'
<1>1. /\ writer.at = "idle" /\ writer.queue # <<>> /\ UNCHANGED <<disk, config, starts>>
      /\ IF lock = "free"
         THEN lock' = "host" /\ writer' = [writer EXCEPT !.at = "locked"] /\ UNCHANGED attempt
         ELSE /\ writer' = [SignIn!NoWriter EXCEPT !.queue = Tail(writer.queue)]
              /\ attempt' = SignIn!Answered(Head(writer.queue).from, "failed")
              /\ UNCHANGED lock
  BY DEF SignIn!Lock
<1>2. CASE lock = "free"
  <2>1. /\ writer' \in Writers /\ writer'.at = "locked" /\ writer'.queue = writer.queue
        /\ disk' \in SetupConfigs /\ config' \in SetupConfigs
    BY <1>1, <1>2, WriterTypes
  <2>2. WriterInv'
    BY <1>1, <1>2, <2>1 DEF WriterInv
  <2>3. AccountInv'
    BY <1>1, <1>2, <2>1 DEF SetupInv, AccountInv
  <2> QED
    BY <1>1, <1>2, <2>1, <2>2, <2>3, WriterMove
<1>3. CASE lock # "free"
  <2>1. lock' \in {"free", "host", "other", "left"}
    BY <1>1, <1>3 DEF SetupInv, SetupTypes
  <2> QED
    BY <1>1, <1>3, <2>1, ChangeAnswered
<1> QED
  BY <1>2, <1>3

LEMMA SetupUnlock == ASSUME SetupInv, SignIn!Unlock PROVE SetupInv'
<1>1. /\ writer.at \in {"saved", "refused"} /\ lock' \in {"free", "left"}
      /\ UNCHANGED <<disk, config, starts>>
      /\ writer' = [SignIn!NoWriter EXCEPT !.queue = Tail(writer.queue)]
  BY DEF SignIn!Unlock
<1>2. PICK answer \in {"saved", "failed", "unheard"} :
         /\ answer = "failed" <=> writer.at = "refused"
         /\ attempt' = SignIn!Answered(Head(writer.queue).from, answer)
  BY DEF SignIn!Unlock
<1>3. writer.queue # <<>>
  BY <1>1 DEF SetupInv, WriterInv
<1>4. lock' \in {"free", "host", "other", "left"} /\ (answer # "failed" <=> writer.at = "saved")
  BY <1>1, <1>2
<1> QED
  BY <1>1, <1>2, <1>3, <1>4, ChangeAnswered

LEMMA SetupRead == ASSUME SetupInv, SignIn!Read PROVE SetupInv'
<1> DEFINE c == Head(writer.queue)
           next == [config EXCEPT ![c.provider] = c.value]
<1>1. /\ writer.at = "locked" /\ UNCHANGED <<disk, config, lock, attempt, starts>>
      /\ writer' = IF c.revision = config /\ disk = config
                   THEN [writer EXCEPT !.at = "writing", !.base = disk, !.next = next]
                   ELSE [writer EXCEPT !.at = "refused"]
  BY DEF SignIn!Read, SignIn!Agreed
<1>2. writer.queue # <<>> /\ lock = "host"
  BY <1>1 DEF SetupInv, WriterInv
<1>3. c = writer.queue[1] /\ c \in Changes
  BY <1>2, HeadChange
<1>4. writer \in Writers /\ disk \in SetupConfigs /\ config \in SetupConfigs
  BY WriterTypes
<1>5. next \in SetupConfigs
  BY <1>3, <1>4 DEF SetupConfigs, Changes
<1>6. /\ writer' \in Writers /\ writer'.queue = writer.queue /\ writer'.at \in {"writing", "refused"}
      /\ writer'.at = "writing" => writer'.base = disk /\ disk = config /\ writer'.next = next
  <2>1. CASE c.revision = config /\ disk = config
    <3> HIDE DEF next, c
    <3>1. writer' = [writer EXCEPT !.at = "writing", !.base = disk, !.next = next]
      BY <1>1, <2>1
    <3>2. writer' \in Writers
      BY <1>4, <1>5, <3>1 DEF Writers
    <3>3. writer'.queue = writer.queue /\ writer'.at = "writing"
      BY <1>4, <3>1 DEF Writers
    <3>4. writer'.base = disk /\ writer'.next = next
      BY <1>4, <3>1 DEF Writers
    <3> QED
      BY <2>1, <3>2, <3>3, <3>4
  <2>2. CASE ~(c.revision = config /\ disk = config)
    <3>1. writer' = [writer EXCEPT !.at = "refused"]
      BY <1>1, <2>2
    <3> QED
      BY <3>1, WriterTypes
  <2> QED
    BY <2>1, <2>2
<1>7. WriterInv'
  BY <1>1, <1>2, <1>3, <1>6 DEF WriterInv
<1>8. AccountInv'
  BY <1>1, <1>6 DEF SetupInv, AccountInv
<1>9. lock \in {"free", "host", "other", "left"}
  BY DEF SetupInv, SetupTypes
<1> QED
  BY <1>1, <1>4, <1>6, <1>7, <1>8, <1>9, WriterMove

LEMMA SetupSave == ASSUME SetupInv, SignIn!Save PROVE SetupInv'
<1> DEFINE c == writer.queue[1]
<1>1. /\ writer.at = "writing" /\ UNCHANGED <<lock, attempt, starts>>
      /\ \/ /\ disk' = writer.next /\ config' = writer.next
            /\ writer' = [writer EXCEPT !.at = "saved"]
         \/ UNCHANGED <<disk, config>> /\ writer' = [writer EXCEPT !.at = "refused"]
  BY DEF SignIn!Save
<1>2. /\ lock = "host" /\ writer.queue # <<>>
      /\ writer.next = [disk EXCEPT ![c.provider] = c.value]
  BY <1>1 DEF SetupInv, WriterInv
<1>3. writer \in Writers /\ disk \in SetupConfigs /\ config \in SetupConfigs
  BY WriterTypes
<1>4. c \in Changes /\ 1 \in DOMAIN writer.queue
  BY <1>2, HeadChange
<1>5. CASE /\ disk' = writer.next /\ config' = writer.next
           /\ writer' = [writer EXCEPT !.at = "saved"]
  <2>1. writer' \in Writers /\ writer'.at = "saved" /\ writer'.queue = writer.queue
    BY <1>5, WriterTypes
  <2>2. disk' \in SetupConfigs /\ config' \in SetupConfigs
    BY <1>3, <1>5 DEF Writers
  <2>3. WriterInv'
    BY <1>1, <1>2, <2>1 DEF WriterInv
  <2>4. AccountInv'
    <3> SUFFICES ASSUME NEW p \in Providers, disk'[p] \in Attempts
                 PROVE  /\ Held(attempt[disk'[p]])
                        /\ Settled(attempt[disk'[p]]) \/ c.from = disk'[p]
      BY <1>1, <2>1 DEF AccountInv, Held, Settled
    <3>1. disk'[p] = IF p = c.provider THEN c.value ELSE disk[p]
      BY <1>2, <1>3, <1>4, <1>5 DEF SetupConfigs, Changes
    <3>2. CASE p = c.provider
      <4>1. c.value \in Attempts
        BY <3>1, <3>2
      <4>2. c.from # "operator"
        BY <1>4, <4>1, AdministrationAssumption DEF SetupInv, ChangeInv
      <4>3. c.value = c.from /\ Held(attempt[c.from])
        BY <1>4, <4>2, ConnectWaits DEF Held
      <4> QED
        BY <3>1, <3>2, <4>3
    <3>3. CASE p # c.provider
      BY <1>1, <3>1, <3>3 DEF SetupInv, AccountInv
    <3> QED
      BY <3>2, <3>3
  <2>5. lock \in {"free", "host", "other", "left"}
    BY DEF SetupInv, SetupTypes
  <2> QED
    BY <1>1, <2>1, <2>2, <2>3, <2>4, <2>5, WriterMove
<1>6. CASE UNCHANGED <<disk, config>> /\ writer' = [writer EXCEPT !.at = "refused"]
  <2>1. writer' \in Writers /\ writer'.at = "refused" /\ writer'.queue = writer.queue
    BY <1>6, WriterTypes
  <2>2. WriterInv'
    BY <1>1, <1>2, <2>1 DEF WriterInv
  <2>3. AccountInv'
    BY <1>1, <1>6, <2>1 DEF SetupInv, AccountInv
  <2>4. lock \in {"free", "host", "other", "left"}
    BY DEF SetupInv, SetupTypes
  <2> QED
    BY <1>1, <1>3, <1>6, <2>1, <2>2, <2>3, <2>4, WriterMove
<1> QED
  BY <1>1, <1>5, <1>6

LEMMA SetupOther ==
    ASSUME SetupInv, SignIn!OtherLock \/ SignIn!RemoveLock \/ SignIn!Close
    PROVE  SetupInv'
<1>1. writer \in Writers /\ disk \in SetupConfigs /\ config \in SetupConfigs
  BY WriterTypes
<1>2. CASE SignIn!OtherLock
  <2>1. /\ UNCHANGED <<config, writer, attempt, starts>> /\ lock # "host"
        /\ lock' \in {"free", "host", "other", "left"}
        /\ \/ UNCHANGED disk
           \/ \E p \in Providers : \E v \in {"none", "plain"} : disk' = [disk EXCEPT ![p] = v]
    BY <1>2 DEF SignIn!OtherLock
  <2>2. writer.at = "idle"
    BY <2>1 DEF SetupInv, WriterInv
  <2>3. /\ disk' \in SetupConfigs
        /\ \A p \in Providers : disk'[p] \in Attempts => disk'[p] = disk[p]
    <3>1. CASE UNCHANGED disk
      BY <1>1, <3>1
    <3>2. ASSUME NEW p \in Providers, NEW v \in {"none", "plain"},
                 disk' = [disk EXCEPT ![p] = v]
          PROVE  /\ disk' \in SetupConfigs
                 /\ \A r \in Providers : disk'[r] \in Attempts => disk'[r] = disk[r]
      BY <1>1, <3>2, AdministrationAssumption DEF SetupConfigs
    <3> QED
      BY <2>1, <3>1, <3>2
  <2>4. WriterInv'
    BY <2>1, <2>2 DEF WriterInv
  <2>5. AccountInv'
    BY <2>1, <2>3 DEF SetupInv, AccountInv
  <2> QED
    BY <1>1, <2>1, <2>3, <2>4, <2>5, WriterMove
<1>3. CASE SignIn!RemoveLock
  <2>1. /\ UNCHANGED <<disk, config, writer, attempt, starts>> /\ lock = "left" /\ lock' = "free"
    BY <1>3 DEF SignIn!RemoveLock
  <2>2. WriterInv' /\ AccountInv'
    BY <2>1 DEF SetupInv, WriterInv, AccountInv
  <2> QED
    BY <1>1, <2>1, <2>2, WriterMove
<1>4. CASE SignIn!Close
  <2>1. UNCHANGED <<disk, config, lock, writer, attempt, starts>>
    BY <1>4 DEF SignIn!Close, SignIn!settings
  <2>2. WriterInv' /\ AccountInv'
    BY <2>1 DEF SetupInv, WriterInv, AccountInv
  <2>3. lock \in {"free", "host", "other", "left"}
    BY DEF SetupInv, SetupTypes
  <2> QED
    BY <1>1, <2>1, <2>2, <2>3, WriterMove
<1> QED
  BY <1>2, <1>3, <1>4

\* What a dead host leaves: the directories, and who has an account there.
LEMMA SetupRestart == ASSUME SetupInv, SignIn!Restart PROVE SetupInv'
<1> DEFINE Lost(a) == [SignIn!NoEntry EXCEPT !.phase = "lost", !.dir = attempt[a].dir,
                                             !.verified = attempt[a].verified,
                                             !.unheard = attempt[a].unheard]
           After(a) == IF attempt[a].phase = "idle" THEN SignIn!NoEntry ELSE Lost(a)
<1>1. /\ config' = disk /\ lock' = IF lock = "host" THEN "left" ELSE lock
      /\ writer' = SignIn!NoWriter /\ attempt' = [a \in Attempts |-> After(a)]
      /\ starts' = <<>> /\ UNCHANGED disk
  BY DEF SignIn!Restart
<1>2. \A a \in Attempts :
         /\ Lost(a) \in Entries /\ Lost(a).phase = "lost" /\ Lost(a).native = "none"
         /\ Lost(a).awaits = "nothing" /\ Lost(a).queue = <<>>
         /\ Lost(a).dir = attempt[a].dir /\ Lost(a).verified = attempt[a].verified
         /\ Lost(a).unheard = attempt[a].unheard
  <2> SUFFICES ASSUME NEW a \in Attempts
               PROVE  /\ Lost(a) \in Entries /\ Lost(a).phase = "lost"
                      /\ Lost(a).native = "none"
                      /\ Lost(a).awaits = "nothing" /\ Lost(a).queue = <<>>
                      /\ Lost(a).dir = attempt[a].dir
                      /\ Lost(a).verified = attempt[a].verified
                      /\ Lost(a).unheard = attempt[a].unheard
    OBVIOUS
  <2> DEFINE n == SignIn!NoEntry
             old == attempt[a]
             l == [n EXCEPT !.phase = "lost", !.dir = old.dir, !.verified = old.verified,
                            !.unheard = old.unheard]
  <2>1. /\ n \in Entries /\ n.queue = <<>> /\ n.awaits = "nothing" /\ n.native = "none"
        /\ old.dir \in BOOLEAN /\ old.verified \in BOOLEAN /\ old.unheard \in BOOLEAN
    BY EmptyEntry, EntryFacts DEF Entries
  <2> HIDE DEF n, old
  <2>2. l \in Entries
    BY <2>1 DEF Entries
  <2>3. l.phase = "lost" /\ l.native = "none" /\ l.awaits = "nothing" /\ l.queue = <<>>
    BY <2>1 DEF Entries
  <2>4. l.dir = old.dir /\ l.verified = old.verified /\ l.unheard = old.unheard
    BY <2>1 DEF Entries
  <2> QED
    BY <2>2, <2>3, <2>4 DEF n, old
<1> HIDE DEF Lost
<1>3. /\ attempt' \in [Attempts -> Entries]
      /\ \A a \in Attempts : attempt'[a].phase \in {"idle", "lost"}
      /\ \A a \in Attempts : EntryInv(attempt'[a])
  <2>1. \A a \in Attempts : After(a) \in Entries /\ After(a).phase \in {"idle", "lost"}
    BY <1>2, EmptyEntry
  <2>2. \A a \in Attempts : EntryInv(After(a))
    BY <1>2, EmptyEntry DEF EntryInv, SignIn!Over, Busy
  <2> HIDE DEF After
  <2> QED
    BY <1>1, <2>1, <2>2
<1>4. disk \in SetupConfigs /\ lock \in {"free", "host", "other", "left"}
  BY DEF SetupInv, SetupTypes
<1>5. SetupTypes'
  BY <1>1, <1>3, <1>4, EmptyWriter DEF SetupTypes
<1>6. (\A a \in Attempts : EntryInv(attempt[a]))'
  BY <1>3 DEF EntryInv
<1>7. StartInv'
  <2>1. \A a \in Attempts : a \in SignIn!Active' <=> attempt'[a].phase \in Busy
    BY <1>3, ActiveNow
  <2>2. SignIn!Active' \subseteq Attempts
    BY DEF SignIn!Active
  <2>3. SignIn!Active' = {}
    BY <1>3, <2>1, <2>2 DEF Busy
  <2> QED
    BY <1>1, <2>3, FS_EmptySet, AdministrationAssumption DEF StartInv
<1>8. ChangeInv' /\ WriterInv'
  BY <1>1, EmptyWriter DEF ChangeInv, WriterInv
<1>9. AccountInv'
  <2> SUFFICES ASSUME NEW p \in Providers, disk[p] \in Attempts
               PROVE  Held(attempt'[disk[p]]) /\ Settled(attempt'[disk[p]])
    BY <1>1 DEF AccountInv, Held, Settled
  <2> DEFINE b == disk[p]
  <2>1. Held(attempt[b])
    BY DEF SetupInv, AccountInv
  <2> HIDE DEF b
  <2>2. b \in Attempts
    BY DEF b
  <2>3. attempt[b].phase # "idle"
    BY <2>1, <2>2 DEF SetupInv, EntryInv, Held
  <2>4. attempt'[b] = Lost(b)
    BY <1>1, <2>2, <2>3
  <2> QED
    BY <1>2, <2>1, <2>2, <2>4 DEF b, Held, Settled
<1> QED
  BY <1>5, <1>6, <1>7, <1>8, <1>9 DEF SetupInv

LEMMA SetupStutter ==
    ASSUME SetupInv, UNCHANGED <<disk, config, lock, writer, attempt, starts>> PROVE SetupInv'
<1>1. writer \in Writers /\ disk \in SetupConfigs /\ config \in SetupConfigs
  BY WriterTypes
<1>2. WriterInv' /\ AccountInv'
  BY DEF SetupInv, WriterInv, AccountInv
<1>3. lock \in {"free", "host", "other", "left"}
  BY DEF SetupInv, SetupTypes
<1> QED
  BY <1>1, <1>2, <1>3, WriterMove

LEMMA SetupNext == ASSUME SetupInv, SignIn!Next PROVE SetupInv'
<1>1. CASE SignIn!Lock \/ SignIn!Read \/ SignIn!Save \/ SignIn!Unlock \/ SignIn!OtherLock
           \/ SignIn!Restart \/ SignIn!RemoveLock \/ SignIn!Close
  BY <1>1, SetupLock, SetupRead, SetupSave, SetupUnlock, SetupOther, SetupRestart
<1>2. ASSUME NEW p \in Providers, NEW v \in {"none", "plain"}, SignIn!Administer(p, v)
      PROVE  SetupInv'
  BY <1>2, SetupAdminister
<1>3. ASSUME NEW i \in 1 .. MaxStarts, SignIn!Check(i) \/ SignIn!Start(i)
      PROVE  SetupInv'
  BY <1>3, SetupCheck, SetupStart
<1>4. ASSUME NEW a \in Attempts,
             \/ \E p \in Providers : SignIn!Request(a, p)
             \/ \E kind \in SignIn!Kinds : SignIn!Enqueue(a, kind)
             \/ \E outcome \in {"verified", "failed"} : SignIn!NativeEnd(a, outcome)
             \/ SignIn!Native(a) \/ SignIn!Expire(a) \/ SignIn!Step(a) \/ SignIn!Removed(a)
             \/ SignIn!Shut(a)
      PROVE  SetupInv'
  BY <1>4, SetupRequest, SetupAsked, SetupNativeEnd, SetupNative, SetupStep, SetupRemoved
<1> QED
  BY <1>1, <1>2, <1>3, <1>4 DEF SignIn!Next

LEMMA SetupIsKept == SetupInv => AccountsAreKept
<1> SUFFICES ASSUME SetupInv PROVE AccountsAreKept
  OBVIOUS
<1>1. SignIn!TypeOK
  <2>1. SignIn!Configs = SetupConfigs
    BY DEF SignIn!Configs, SetupConfigs
  <2>2. \A a \in Attempts : attempt[a].phase \in SignIn!Over \cup
           {"idle", "lost", "starting", "waiting", "verifying", "ready"}
    BY EntryFacts DEF Entries
  <2> QED
    BY <2>1, <2>2 DEF SetupInv, SetupTypes, SignIn!TypeOK
<1>2. SignIn!AccountsAreKept
  BY DEF SetupInv, AccountInv, Held, SignIn!AccountsAreKept
<1>3. SignIn!NothingIsLeft
  BY Counted DEF SetupInv, StartInv, EntryInv, SignIn!NothingIsLeft, SignIn!Terminal
<1>4. SignIn!NoChangeIsLost
  BY DEF SetupInv, WriterInv, SignIn!NoChangeIsLost
<1> QED
  BY <1>1, <1>2, <1>3, <1>4 DEF AccountsAreKept

\* The configuration on disk refers only to accounts that were verified and whose
\* directory is there, whatever happens to an attempt and whenever the host dies; no
\* change of another process is undone; and an attempt that is over without an account
\* leaves neither a process nor a directory.
THEOREM AccountsHold == AdministrationSpec => []AccountsAreKept
<1>1. AdministrationInit => SetupInv
  BY SetupInit DEF AdministrationInit
<1>2. SetupInv /\ [AdministrationNext]_<<part, grantVars, signInVars, installVars, quotaVars,
                                        deviceVars>> => SetupInv'
  <2> SUFFICES ASSUME SetupInv, [AdministrationNext]_<<part, grantVars, signInVars,
                                                       installVars, quotaVars, deviceVars>>
               PROVE  SetupInv'
    OBVIOUS
  <2>1. CASE SignIn!Next
    BY <2>1, SetupNext
  <2>2. CASE UNCHANGED signInVars
    BY <2>2, SetupStutter DEF signInVars
  <2> QED
    BY <2>1, <2>2 DEF AdministrationNext
<1> QED
  BY <1>1, <1>2, SetupIsKept, PTL DEF AdministrationSpec

=============================================================================
