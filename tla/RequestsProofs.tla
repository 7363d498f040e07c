--------------------------- MODULE RequestsProofs ---------------------------
(***************************************************************************)
(* Proofs about the parts a request passes through, as MCRequests composes *)
(* them: the scheduler, the run loop, the client, the HTTP host, the       *)
(* desktop application and the diagnostics, for every instance.  Each part *)
(* has its inductive invariant; the parts share no state, so a step keeps  *)
(* all of them.                                                            *)
(***************************************************************************)
EXTENDS MCRequests, FiniteSetTheorems, SequenceTheorems, TLAPS

-----------------------------------------------------------------------------
(* The scheduler: its bookkeeping agrees with itself, its limits hold, no    *)
(* runnable request is left waiting and none overtakes an earlier one of its *)
(* kind, for any requests, subjects, accounts and limits.                    *)

-----------------------------------------------------------------------------
(* Sets and queues *)

LEMMA OneMore ==
    ASSUME NEW S, NEW T, NEW x, IsFiniteSet(S), x \notin S, T = S \cup {x}
    PROVE  Cardinality(T) = Cardinality(S) + 1
BY FS_AddElement

LEMMA OneLess ==
    ASSUME NEW S, NEW T, NEW x, IsFiniteSet(S), x \in S, T = S \ {x}
    PROVE  Cardinality(T) = Cardinality(S) - 1
BY FS_RemoveElement

NoRepeats(seq) == \A i \in DOMAIN seq : \A j \in DOMAIN seq : seq[i] = seq[j] => i = j
Has(seq, x) == \E i \in DOMAIN seq : seq[i] = x

\* splice(i, 1)
LEMMA DropAt ==
    ASSUME NEW S, NEW seq \in Seq(S), NEW i \in DOMAIN seq
    PROVE  /\ Drop(seq, i) \in Seq(S)
           /\ Len(Drop(seq, i)) = Len(seq) - 1
           /\ \A j \in 1..(Len(seq) - 1) :
                 Drop(seq, i)[j] = IF j < i THEN seq[j] ELSE seq[j + 1]
<1> DEFINE front == SubSeq(seq, 1, i - 1)
           back  == SubSeq(seq, i + 1, Len(seq))
           n     == Len(seq)
<1>1. i \in 1..n /\ n \in Nat
  OBVIOUS
<1>2. /\ front \in Seq(S) /\ Len(front) = i - 1
      /\ \A j \in 1..(i - 1) : front[j] = seq[j]
  BY <1>1
<1>3. /\ back \in Seq(S) /\ Len(back) = n - i
      /\ \A j \in 1..(n - i) : back[j] = seq[i + j]
  BY <1>1
<1>4. Drop(seq, i) = front \o back
  BY DEF Drop
<1> HIDE DEF front, back, n
<1>5. front \o back \in Seq(S) /\ Len(front \o back) = n - 1
  <2>1. front \o back \in Seq(S) /\ Len(front \o back) = Len(front) + Len(back)
    BY <1>2, <1>3, ConcatProperties
  <2> QED
    BY <1>1, <1>2, <1>3, <2>1
<1>6. ASSUME NEW j \in 1..(n - 1)
      PROVE  (front \o back)[j] = IF j < i THEN seq[j] ELSE seq[j + 1]
  <2>1. (front \o back)[j] = IF j <= i - 1 THEN front[j] ELSE back[j - (i - 1)]
    BY <1>1, <1>2, <1>3, ConcatProperties
  <2>2. CASE j < i
    BY <1>1, <1>2, <2>1, <2>2
  <2>3. CASE ~(j < i)
    <3>1. j - (i - 1) \in 1..(n - i) /\ i + (j - (i - 1)) = j + 1
      BY <1>1, <2>3
    <3> QED
      BY <1>1, <1>3, <2>1, <2>3, <3>1
  <2> QED
    BY <2>2, <2>3
<1> QED
  BY <1>4, <1>5, <1>6 DEF n

LEMMA DropMembers ==
    ASSUME NEW S, NEW seq \in Seq(S), NEW i \in DOMAIN seq, NoRepeats(seq)
    PROVE  /\ Drop(seq, i) \in Seq(S)
           /\ NoRepeats(Drop(seq, i))
           /\ \A x : Has(Drop(seq, i), x) <=> Has(seq, x) /\ x # seq[i]
<1> DEFINE rest == Drop(seq, i)
           n    == Len(seq)
<1>1. /\ i \in 1..n /\ n \in Nat /\ DOMAIN seq = 1..n
      /\ rest \in Seq(S) /\ DOMAIN rest = 1..(n - 1)
      /\ \A j \in 1..(n - 1) : rest[j] = IF j < i THEN seq[j] ELSE seq[j + 1]
  BY DropAt
<1> HIDE DEF rest, n
<1>2. NoRepeats(rest)
  <2> SUFFICES ASSUME NEW j \in 1..(n - 1), NEW k \in 1..(n - 1), rest[j] = rest[k]
               PROVE  j = k
    BY <1>1 DEF NoRepeats
  <2> DEFINE jj == IF j < i THEN j ELSE j + 1
             kk == IF k < i THEN k ELSE k + 1
  <2>1. jj \in DOMAIN seq /\ kk \in DOMAIN seq /\ rest[j] = seq[jj] /\ rest[k] = seq[kk]
    BY <1>1
  <2>2. jj = kk
    <3> HIDE DEF jj, kk
    <3> QED
      BY <2>1 DEF NoRepeats
  <2> QED
    BY <1>1, <2>2
<1>3. ASSUME NEW x, Has(rest, x) PROVE Has(seq, x) /\ x # seq[i]
  <2>1. PICK j \in 1..(n - 1) : rest[j] = x
    BY <1>1, <1>3 DEF Has
  <2> DEFINE jj == IF j < i THEN j ELSE j + 1
  <2>2. jj \in DOMAIN seq /\ x = seq[jj] /\ jj # i
    BY <1>1, <2>1
  <2> HIDE DEF jj
  <2> QED
    BY <2>2 DEF Has, NoRepeats
<1>4. ASSUME NEW x, Has(seq, x), x # seq[i] PROVE Has(rest, x)
  <2>1. PICK j \in DOMAIN seq : seq[j] = x
    BY <1>4 DEF Has
  <2> DEFINE jj == IF j < i THEN j ELSE j - 1
  <2>2. jj \in 1..(n - 1) /\ rest[jj] = x
    BY <1>1, <1>4, <2>1
  <2> QED
    BY <1>1, <2>2 DEF Has
<1> QED
  BY <1>1, <1>2, <1>3, <1>4 DEF rest

LEMMA AppendMembers ==
    ASSUME NEW S, NEW seq \in Seq(S), NEW y \in S, NoRepeats(seq), ~Has(seq, y)
    PROVE  /\ Append(seq, y) \in Seq(S)
           /\ NoRepeats(Append(seq, y))
           /\ \A x : Has(Append(seq, y), x) <=> Has(seq, x) \/ x = y
<1> DEFINE more == Append(seq, y)
           n    == Len(seq)
<1>1. /\ n \in Nat /\ DOMAIN seq = 1..n /\ more \in Seq(S) /\ DOMAIN more = 1..(n + 1)
      /\ \A j \in 1..n : more[j] = seq[j]
      /\ more[n + 1] = y
  OBVIOUS
<1> HIDE DEF more, n
<1>2. \A j \in DOMAIN more : j \in DOMAIN seq \/ j = n + 1
  BY <1>1
<1>3. \A j \in DOMAIN seq : j \in DOMAIN more /\ more[j] = seq[j] /\ j # n + 1
  BY <1>1
<1>4. n + 1 \in DOMAIN more
  BY <1>1
<1>5. NoRepeats(more)
  BY <1>1, <1>2, <1>3 DEF NoRepeats, Has
<1>6. \A x : Has(more, x) <=> Has(seq, x) \/ x = y
  BY <1>1, <1>2, <1>3, <1>4 DEF Has
<1> QED
  BY <1>1, <1>5, <1>6 DEF more

LEMMA TailMembers ==
    ASSUME NEW S, NEW seq \in Seq(S), NoRepeats(seq), Len(seq) > 0
    PROVE  /\ Tail(seq) \in Seq(S) /\ Head(seq) \in S
           /\ NoRepeats(Tail(seq))
           /\ Has(seq, Head(seq))
           /\ \A x : Has(Tail(seq), x) <=> Has(seq, x) /\ x # Head(seq)
<1> DEFINE rest == Tail(seq)
           n    == Len(seq)
<1>1. /\ n \in Nat \ {0} /\ DOMAIN seq = 1..n
      /\ rest \in Seq(S) /\ DOMAIN rest = 1..(n - 1)
      /\ \A j \in 1..(n - 1) : rest[j] = seq[j + 1]
      /\ Head(seq) = seq[1] /\ seq[1] \in S
  OBVIOUS
<1> HIDE DEF rest, n
<1>2. NoRepeats(rest)
  <2> SUFFICES ASSUME NEW j \in 1..(n - 1), NEW k \in 1..(n - 1), rest[j] = rest[k]
               PROVE  j = k
    BY <1>1 DEF NoRepeats
  <2>1. j + 1 \in DOMAIN seq /\ k + 1 \in DOMAIN seq /\ seq[j + 1] = seq[k + 1]
    BY <1>1
  <2>2. j + 1 = k + 1
    BY <2>1 DEF NoRepeats
  <2> QED
    BY <2>2
<1>3. ASSUME NEW x, Has(rest, x) PROVE Has(seq, x) /\ x # seq[1]
  <2>1. PICK j \in 1..(n - 1) : rest[j] = x
    BY <1>1, <1>3 DEF Has
  <2>2. /\ j + 1 \in DOMAIN seq /\ seq[j + 1] = x /\ j + 1 # 1
        /\ 1 \in DOMAIN seq
    BY <1>1, <2>1
  <2> QED
    BY <2>2 DEF Has, NoRepeats
<1>4. ASSUME NEW x, Has(seq, x), x # seq[1] PROVE Has(rest, x)
  <2>1. PICK j \in DOMAIN seq : seq[j] = x
    BY <1>4 DEF Has
  <2>2. j - 1 \in DOMAIN rest /\ rest[j - 1] = x
    BY <1>1, <1>4, <2>1
  <2> QED
    BY <2>2 DEF Has
<1> QED
  BY <1>1, <1>2, <1>3, <1>4 DEF rest, Has

LEMMA OccursOnce ==
    ASSUME NEW seq, NEW x, NoRepeats(seq)
    PROVE  Cardinality(Occurs(seq, x)) = IF Has(seq, x) THEN 1 ELSE 0
<1>1. CASE Has(seq, x)
  <2>1. PICK i \in DOMAIN seq : seq[i] = x
    BY <1>1 DEF Has
  <2>2. Occurs(seq, x) = {i}
    BY <2>1 DEF Occurs, NoRepeats
  <2> QED
    BY <1>1, <2>2, FS_Singleton
<1>2. CASE ~Has(seq, x)
  <2>1. Occurs(seq, x) = {}
    BY <1>2 DEF Occurs, Has
  <2> QED
    BY <1>2, <2>1, FS_EmptySet
<1> QED
  BY <1>1, <1>2

-----------------------------------------------------------------------------
(* The counters *)

Actives == {t \in Tickets : IsActive(t)}
Waiters == {t \in Tickets : entry[t] = "queued"}
ActivesOf(s) == {t \in Tickets : IsActive(t) /\ SubjectOf[t] = s}
ActivesAt(a) == {t \in Tickets : IsActive(t) /\ AccountOf[t] = a}

RunsAgree ==
    /\ active = Cardinality(Actives)
    /\ \A s \in Subjects : subjects[s] = Cardinality(ActivesOf(s))
    /\ \A a \in Accounts : accounts[a] = Cardinality(ActivesAt(a))

CountersTyped ==
    /\ active \in Nat
    /\ subjects \in [Subjects -> Nat]
    /\ accounts \in [Accounts -> Nat]

LEMMA FiniteTickets == \A T \in SUBSET Tickets : IsFiniteSet(T)
BY FS_Subset, SchedulerAssumption

LEMMA FiniteCounts ==
    /\ IsFiniteSet(Actives) /\ IsFiniteSet(Waiters)
    /\ \A s : IsFiniteSet(ActivesOf(s))
    /\ \A a : IsFiniteSet(ActivesAt(a))
BY FiniteTickets DEF Actives, Waiters, ActivesOf, ActivesAt

\* A request that starts is counted where it runs.
LEMMA StartCounts ==
    ASSUME entry \in [Tickets -> {"released", "queued", "active"}],
           CountersTyped, RunsAgree,
           NEW t \in Tickets, entry[t] # "active", Started(t)
    PROVE  /\ CountersTyped' /\ RunsAgree'
           /\ Waiters' = Waiters \ {t}
           /\ \A s \in Subjects :
                 subjects'[s] = IF s = SubjectOf[t] THEN subjects[s] + 1 ELSE subjects[s]
           /\ \A a \in Accounts :
                 accounts'[a] = IF a = AccountOf[t] THEN accounts[a] + 1 ELSE accounts[a]
<1>1. entry' = [entry EXCEPT ![t] = "active"] /\ active' = active + 1
  BY DEF Started
<1>2. /\ subjects' \in [Subjects -> Nat]
      /\ \A s \in Subjects :
            subjects'[s] = IF s = SubjectOf[t] THEN subjects[s] + 1 ELSE subjects[s]
  BY SchedulerAssumption DEF Started, Bump, CountersTyped
<1>3. /\ accounts' \in [Accounts -> Nat]
      /\ \A a \in Accounts :
            accounts'[a] = IF a = AccountOf[t] THEN accounts[a] + 1 ELSE accounts[a]
  BY SchedulerAssumption DEF Started, Bump, CountersTyped
<1>4. Actives' = Actives \cup {t} /\ t \notin Actives /\ Waiters' = Waiters \ {t}
  BY <1>1 DEF Actives, Waiters, IsActive
<1>5. active' = Cardinality(Actives')
  BY <1>1, <1>4, OneMore, FiniteCounts DEF RunsAgree
<1>6. ASSUME NEW s \in Subjects PROVE subjects'[s] = Cardinality(ActivesOf(s)')
  <2>1. CASE s = SubjectOf[t]
    <3>1. ActivesOf(s)' = ActivesOf(s) \cup {t} /\ t \notin ActivesOf(s)
      BY <1>1, <2>1 DEF ActivesOf, IsActive
    <3> QED
      BY <1>2, <2>1, <3>1, OneMore, FiniteCounts DEF RunsAgree
  <2>2. CASE s # SubjectOf[t]
    <3>1. ActivesOf(s)' = ActivesOf(s)
      BY <1>1, <2>2 DEF ActivesOf, IsActive
    <3> QED
      BY <1>2, <2>2, <3>1 DEF RunsAgree
  <2> QED
    BY <2>1, <2>2
<1>7. ASSUME NEW a \in Accounts PROVE accounts'[a] = Cardinality(ActivesAt(a)')
  <2>1. CASE a = AccountOf[t]
    <3>1. ActivesAt(a)' = ActivesAt(a) \cup {t} /\ t \notin ActivesAt(a)
      BY <1>1, <2>1 DEF ActivesAt, IsActive
    <3> QED
      BY <1>3, <2>1, <3>1, OneMore, FiniteCounts DEF RunsAgree
  <2>2. CASE a # AccountOf[t]
    <3>1. ActivesAt(a)' = ActivesAt(a)
      BY <1>1, <2>2 DEF ActivesAt, IsActive
    <3> QED
      BY <1>3, <2>2, <3>1 DEF RunsAgree
  <2> QED
    BY <2>1, <2>2
<1> QED
  BY <1>1, <1>2, <1>3, <1>4, <1>5, <1>6, <1>7 DEF CountersTyped, RunsAgree

\* A request that gives its slot back was counted there.
LEMMA FreedCounts ==
    ASSUME entry \in [Tickets -> {"released", "queued", "active"}],
           CountersTyped, RunsAgree,
           NEW t \in Tickets, entry[t] = "active", Freed(t),
           entry' = [entry EXCEPT ![t] = "released"]
    PROVE  CountersTyped' /\ RunsAgree' /\ Waiters' = Waiters
<1>1. /\ active' = active - 1
      /\ subjects' = [s \in Subjects |-> IF s = SubjectOf[t] THEN subjects[s] - 1
                                                              ELSE subjects[s]]
      /\ accounts' = [a \in Accounts |-> IF a = AccountOf[t] THEN accounts[a] - 1
                                                              ELSE accounts[a]]
  BY SchedulerAssumption DEF Freed, Bump, CountersTyped
<1>2. Actives' = Actives \ {t} /\ t \in Actives /\ Waiters' = Waiters
  BY DEF Actives, Waiters, IsActive
<1>3. active' = Cardinality(Actives')
  BY <1>1, <1>2, OneLess, FiniteCounts DEF RunsAgree
<1>4. ASSUME NEW s \in Subjects PROVE subjects'[s] = Cardinality(ActivesOf(s)')
  <2>1. CASE s = SubjectOf[t]
    <3>1. ActivesOf(s)' = ActivesOf(s) \ {t} /\ t \in ActivesOf(s)
      BY <2>1 DEF ActivesOf, IsActive
    <3> QED
      BY <1>1, <2>1, <3>1, OneLess, FiniteCounts DEF RunsAgree
  <2>2. CASE s # SubjectOf[t]
    <3>1. ActivesOf(s)' = ActivesOf(s)
      BY <2>2 DEF ActivesOf, IsActive
    <3> QED
      BY <1>1, <2>2, <3>1 DEF RunsAgree
  <2> QED
    BY <2>1, <2>2
<1>5. ASSUME NEW a \in Accounts PROVE accounts'[a] = Cardinality(ActivesAt(a)')
  <2>1. CASE a = AccountOf[t]
    <3>1. ActivesAt(a)' = ActivesAt(a) \ {t} /\ t \in ActivesAt(a)
      BY <2>1 DEF ActivesAt, IsActive
    <3> QED
      BY <1>1, <2>1, <3>1, OneLess, FiniteCounts DEF RunsAgree
  <2>2. CASE a # AccountOf[t]
    <3>1. ActivesAt(a)' = ActivesAt(a)
      BY <2>2 DEF ActivesAt, IsActive
    <3> QED
      BY <1>1, <2>2, <3>1 DEF RunsAgree
  <2> QED
    BY <2>1, <2>2
<1>6. RunsAgree'
  BY <1>3, <1>4, <1>5 DEF RunsAgree
<1>7. /\ IsFiniteSet(Actives') /\ \A s : IsFiniteSet(ActivesOf(s)')
      /\ \A a : IsFiniteSet(ActivesAt(a)')
  BY FiniteTickets DEF Actives, ActivesOf, ActivesAt
<1>8. CountersTyped'
  BY <1>1, <1>3, <1>4, <1>5, <1>7, FS_CardinalityType DEF CountersTyped
<1> QED
  BY <1>2, <1>6, <1>8

-----------------------------------------------------------------------------
(* The queues *)

\* Every waiting request stands once in its subject's queue.
WaitInv ==
    \A s \in Subjects :
       /\ NoRepeats(pending[s])
       /\ \A t \in Tickets :
             Has(pending[s], t) <=> entry[t] = "queued" /\ SubjectOf[t] = s

\* The rotation holds the subjects with a queue, once each.
OrderInv ==
    /\ NoRepeats(order)
    /\ \A s \in Subjects : Has(order, s) <=> pending[s] # <<>>

\* A request is not admitted twice.
CallInv == call.op \in {"submit", "trySubmit"} => entry[call.ticket] = "released"

Story ==
    /\ TypeOK /\ RunsAgree
    /\ queued = Cardinality(Waiters)
    /\ WaitInv /\ OrderInv /\ CallInv

LEMMA NotEmpty ==
    ASSUME NEW S, NEW seq \in Seq(S)
    PROVE  /\ seq # <<>> <=> Len(seq) > 0
           /\ seq # <<>> <=> \E i \in DOMAIN seq : TRUE
<1>1. seq # <<>> <=> Len(seq) > 0
  BY EmptySeq
<1>2. DOMAIN seq = 1..Len(seq) /\ Len(seq) \in Nat
  OBVIOUS
<1>3. Len(seq) > 0 <=> \E i \in DOMAIN seq : TRUE
  BY <1>2
<1> QED
  BY <1>1, <1>3

LEMMA PassTyped ==
    ASSUME TypeOK, NEW by, Pass(by) PROVE passed' \in [Subjects -> Nat]
BY DEF Pass, TypeOK

LEMMA CallKinds ==
    ASSUME TypeOK
    PROVE  /\ call.op \in {"submit", "trySubmit"} => call # NoCall /\ call.ticket \in Tickets
           /\ NoCall \in Calls /\ [op |-> "release"] \in Calls
           /\ NoCall.op = "none"
BY DEF TypeOK, Calls, NoCall

\* A request leaves its queue.
LEMMA Dequeue ==
    ASSUME Story, NEW s \in Subjects, NEW i \in DOMAIN pending[s],
           NEW e \in {"released", "active"},
           pending' = [pending EXCEPT ![s] = Drop(@, i)],
           entry' = [entry EXCEPT ![pending[s][i]] = e],
           queued' = queued - 1
    PROVE  /\ pending[s][i] \in Waiters /\ SubjectOf[pending[s][i]] = s
           /\ pending' \in [Subjects -> Seq(Tickets)]
           /\ WaitInv'
           /\ Len(pending[s]) \in Nat /\ Len(pending[s]) >= 1
           /\ pending'[s] = <<>> <=> Len(pending[s]) = 1
           /\ \A u \in Subjects : u # s => pending'[u] = pending[u]
           /\ queued' \in Nat /\ queued' = Cardinality(Waiters')
<1> DEFINE t == pending[s][i]
           rest == Drop(pending[s], i)
<1>1. /\ pending[s] \in Seq(Tickets) /\ i \in DOMAIN pending[s] /\ t \in Tickets
      /\ pending \in [Subjects -> Seq(Tickets)]
      /\ entry \in [Tickets -> {"released", "queued", "active"}]
  BY DEF Story, TypeOK
<1>2. Has(pending[s], t) /\ NoRepeats(pending[s])
  BY DEF Has, Story, WaitInv
<1>3. entry[t] = "queued" /\ SubjectOf[t] = s
  BY <1>1, <1>2 DEF Story, WaitInv
<1>4. /\ rest \in Seq(Tickets) /\ NoRepeats(rest)
      /\ \A x : Has(rest, x) <=> Has(pending[s], x) /\ x # t
  BY <1>1, <1>2, DropMembers
<1>5. Len(rest) = Len(pending[s]) - 1 /\ Len(pending[s]) \in Nat /\ Len(pending[s]) >= 1
  BY <1>1, DropAt
<1>6. pending' = [pending EXCEPT ![s] = rest]
  OBVIOUS
<1>7. entry' = [entry EXCEPT ![t] = e]
  OBVIOUS
<1> HIDE DEF t, rest
<1>8. pending' \in [Subjects -> Seq(Tickets)] /\ pending'[s] = rest
  BY <1>1, <1>4, <1>6
<1>9. \A u \in Subjects : u # s => pending'[u] = pending[u]
  BY <1>1, <1>6
<1>10. WaitInv'
  <2> SUFFICES ASSUME NEW u \in Subjects
               PROVE  /\ NoRepeats(pending'[u])
                      /\ \A x \in Tickets :
                            Has(pending'[u], x) <=> entry'[x] = "queued" /\ SubjectOf[x] = u
    BY DEF WaitInv, NoRepeats, Has
  <2>1. \A x \in Tickets : entry'[x] = "queued" <=> entry[x] = "queued" /\ x # t
    BY <1>1, <1>7
  <2>2. CASE u = s
    BY <1>3, <1>4, <1>8, <2>1, <2>2 DEF Story, WaitInv
  <2>3. CASE u # s
    BY <1>3, <1>9, <2>1, <2>3 DEF Story, WaitInv
  <2> QED
    BY <2>2, <2>3
<1>11. pending'[s] = <<>> <=> Len(pending[s]) = 1
  BY <1>4, <1>5, <1>8, NotEmpty
<1>12. Waiters' = Waiters \ {t} /\ t \in Waiters
  BY <1>1, <1>3, <1>7 DEF Waiters
<1>13. queued' = Cardinality(Waiters')
  BY <1>12, OneLess, FiniteCounts DEF Story
<1>14. queued' \in Nat
  BY <1>13, FiniteTickets, FS_CardinalityType DEF Waiters
<1> QED
  BY <1>3, <1>5, <1>8, <1>9, <1>10, <1>11, <1>12, <1>13, <1>14 DEF t

-----------------------------------------------------------------------------
(* Every step keeps the story *)

\* The queue part of the story does not read the counters, nor the run part the
\* queues: what a step leaves alone stays.
LEMMA Unmoved ==
    ASSUME Story
    PROVE  /\ entry' = entry /\ active' = active /\ subjects' = subjects
              /\ accounts' = accounts => RunsAgree'
           /\ entry' = entry => Waiters' = Waiters
           /\ entry' = entry /\ pending' = pending => WaitInv'
           /\ pending' = pending /\ order' = order => OrderInv'
<1>1. entry' = entry /\ active' = active /\ subjects' = subjects
         /\ accounts' = accounts => RunsAgree'
  BY DEF Story, RunsAgree, Actives, ActivesOf, ActivesAt, IsActive
<1>2. entry' = entry => Waiters' = Waiters
  BY DEF Waiters
<1>3. entry' = entry /\ pending' = pending => WaitInv'
  BY DEF Story, WaitInv, NoRepeats, Has
<1>4. pending' = pending /\ order' = order => OrderInv'
  BY DEF Story, OrderInv, NoRepeats, Has
<1> QED
  BY <1>1, <1>2, <1>3, <1>4

\* The rotation after its head was looked at.
LEMMA SkipStory == ASSUME Story, PumpSkip PROVE Story'
<1>1. /\ order \in Seq(Subjects) /\ skipped \in Nat /\ skipped < Len(order)
      /\ NoRepeats(order)
  BY DEF Story, TypeOK, OrderInv, PumpSkip, Pumping
<1>2. /\ Tail(order) \in Seq(Subjects) /\ Head(order) \in Subjects
      /\ NoRepeats(Tail(order)) /\ Has(order, Head(order))
      /\ \A x : Has(Tail(order), x) <=> Has(order, x) /\ x # Head(order)
  <2>1. Len(order) > 0
    BY <1>1
  <2> QED
    BY <1>1, <2>1, TailMembers
<1>3. /\ order' \in Seq(Subjects) /\ NoRepeats(order')
      /\ \A x : Has(order', x) <=> Has(order, x)
  <2>1. order' = Append(Tail(order), Head(order))
    BY DEF PumpSkip
  <2>2. ~Has(Tail(order), Head(order))
    BY <1>2
  <2> HIDE DEF PumpSkip
  <2>3. /\ Append(Tail(order), Head(order)) \in Seq(Subjects)
        /\ NoRepeats(Append(Tail(order), Head(order)))
        /\ \A x : Has(Append(Tail(order), Head(order)), x)
                     <=> Has(Tail(order), x) \/ x = Head(order)
    BY <1>2, <2>2, AppendMembers
  <2> QED
    BY <1>2, <2>1, <2>3
<1>4. UNCHANGED <<entry, pending, active, queued, subjects, accounts, call, passed>>
  BY DEF PumpSkip
<1>5. OrderInv'
  BY <1>3, <1>4 DEF Story, OrderInv, NoRepeats, Has
<1>6. TypeOK'
  BY <1>1, <1>3, <1>4 DEF Story, TypeOK, PumpSkip
<1>7. CallInv'
  BY <1>4 DEF Story, CallInv
<1> QED
  BY <1>4, <1>5, <1>6, <1>7, Unmoved DEF Story

\* The start of a waiting request.
LEMMA StartStory == ASSUME Story, PumpStart PROVE Story'
<1> DEFINE s == Head(order)
<1>1. PICK i \in DOMAIN pending[s] :
          /\ FirstEligible(s, i)
          /\ Started(pending[s][i])
          /\ pending' = [pending EXCEPT ![s] = Drop(@, i)]
          /\ order' = Rotated(s)
          /\ queued' = queued - 1 /\ skipped' = 0 /\ Pass({s})
  BY DEF PumpStart
<1>2. /\ order \in Seq(Subjects) /\ Len(order) > 0 /\ NoRepeats(order)
      /\ call # NoCall
  BY DEF Story, TypeOK, OrderInv, PumpStart, Pumping
<1>3. /\ Tail(order) \in Seq(Subjects) /\ s \in Subjects
      /\ NoRepeats(Tail(order)) /\ Has(order, s)
      /\ \A x : Has(Tail(order), x) <=> Has(order, x) /\ x # s
  BY <1>2, TailMembers
<1> HIDE DEF s
<1> DEFINE t == pending[s][i]
<1>4. entry' = [entry EXCEPT ![pending[s][i]] = "active"]
  BY <1>1 DEF Started
<1>5. /\ t \in Waiters /\ SubjectOf[t] = s
      /\ pending' \in [Subjects -> Seq(Tickets)]
      /\ WaitInv'
      /\ Len(pending[s]) \in Nat /\ Len(pending[s]) >= 1
      /\ pending'[s] = <<>> <=> Len(pending[s]) = 1
      /\ \A u \in Subjects : u # s => pending'[u] = pending[u]
      /\ queued' \in Nat /\ queued' = Cardinality(Waiters')
  BY <1>1, <1>3, <1>4, Dequeue
<1> HIDE DEF t
<1>6. /\ entry \in [Tickets -> {"released", "queued", "active"}]
      /\ CountersTyped /\ RunsAgree /\ t \in Tickets /\ entry[t] = "queued"
  BY <1>5 DEF Story, TypeOK, CountersTyped, Waiters
<1>7. CountersTyped' /\ RunsAgree'
  BY <1>1, <1>6, StartCounts DEF t
<1>r. order' = Rotated(s)
  BY <1>1
<1>e. pending'[s] = <<>> <=> ~(Len(pending[s]) > 1)
  <2>1. pending'[s] = <<>> <=> Len(pending[s]) = 1
    BY ONLY <1>5
  <2> DEFINE n == Len(pending[s])
  <2>n. n \in Nat /\ n >= 1
    BY ONLY <1>5
  <2> HIDE DEF n
  <2>2. n = 1 <=> ~(n > 1)
    BY ONLY <2>n
  <2> QED
    BY ONLY <2>1, <2>2 DEF n
<1>8. order' \in Seq(Subjects) /\ OrderInv'
  <2>1. CASE Len(pending[s]) > 1
    <3>0. order' = Append(Tail(order), s)
      BY ONLY <1>r, <2>1 DEF Rotated
    <3>1. order' = Append(Tail(order), s) /\ pending'[s] # <<>>
      BY ONLY <1>e, <2>1, <3>0
    <3>2. /\ Append(Tail(order), s) \in Seq(Subjects) /\ NoRepeats(Append(Tail(order), s))
          /\ \A x : Has(Append(Tail(order), s), x) <=> Has(Tail(order), x) \/ x = s
      BY <1>3, AppendMembers
    <3>3. \A x \in Subjects : Has(order, x) <=> pending'[x] # <<>>
      BY <1>3, <1>5, <3>1 DEF Story, OrderInv
    <3> QED
      BY <1>3, <3>1, <3>2, <3>3 DEF OrderInv, NoRepeats, Has
  <2>2. CASE ~(Len(pending[s]) > 1)
    <3>0. order' = Tail(order)
      BY ONLY <1>r, <2>2 DEF Rotated
    <3>1. order' = Tail(order) /\ pending'[s] = <<>>
      BY ONLY <1>e, <2>2, <3>0
    <3>2. \A x \in Subjects : Has(Tail(order), x) <=> pending'[x] # <<>>
      BY <1>3, <1>5, <3>1 DEF Story, OrderInv
    <3> QED
      BY <1>3, <3>1, <3>2 DEF OrderInv, NoRepeats, Has
  <2> QED
    BY <2>1, <2>2
<1>9. TypeOK'
  <2>1. passed' \in [Subjects -> Nat]
    BY <1>1, PassTyped DEF Story
  <2>2. entry' \in [Tickets -> {"released", "queued", "active"}]
    BY <1>4, <1>6
  <2>3. call' = call /\ skipped' \in Nat /\ call \in Calls
    BY <1>1 DEF PumpStart, Story, TypeOK
  <2> QED
    BY <1>5, <1>7, <1>8, <2>1, <2>2, <2>3 DEF TypeOK, CountersTyped
<1>10. CallInv'
  <2>1. call' = call
    BY DEF PumpStart
  <2>2. ASSUME call.op \in {"submit", "trySubmit"} PROVE entry'[call.ticket] = "released"
    <3>1. call.ticket \in Tickets /\ entry[call.ticket] = "released"
      BY <2>2, CallKinds DEF Story, CallInv
    <3>2. call.ticket # t
      BY <1>6, <3>1
    <3> QED
      BY <1>4, <1>6, <3>1, <3>2 DEF t
  <2> QED
    BY <2>1, <2>2 DEF CallInv
<1> QED
  BY <1>5, <1>7, <1>8, <1>9, <1>10 DEF Story

LEMMA AdmitStartStory == ASSUME Story, AdmitStart PROVE Story'
<1> DEFINE t == call.ticket
<1>1. /\ t \in Tickets /\ entry[t] = "released"
      /\ entry \in [Tickets -> {"released", "queued", "active"}]
      /\ CountersTyped /\ RunsAgree
  BY CallKinds DEF AdmitStart, Admitting, Story, CallInv, TypeOK, CountersTyped
<1>2. /\ Started(t) /\ Pass({SubjectOf[t]}) /\ call' = NoCall
      /\ UNCHANGED <<pending, order, queued, skipped>>
  BY DEF AdmitStart
<1> HIDE DEF t
<1>3. entry' = [entry EXCEPT ![t] = "active"]
  BY <1>2 DEF Started
<1>4. CountersTyped' /\ RunsAgree' /\ Waiters' = Waiters \ {t}
  BY <1>1, <1>2, StartCounts
<1>5. Waiters' = Waiters
  BY <1>1, <1>4 DEF Waiters
<1>6. WaitInv'
  <2>1. \A u \in Tickets : entry'[u] = "queued" <=> entry[u] = "queued"
    BY <1>1, <1>3
  <2> QED
    BY <1>2, <2>1 DEF Story, WaitInv, NoRepeats, Has
<1>7. TypeOK'
  <2>1. passed' \in [Subjects -> Nat]
    BY <1>2, PassTyped DEF Story
  <2>2. entry' \in [Tickets -> {"released", "queued", "active"}]
    BY <1>1, <1>3
  <2>3. call' \in Calls
    BY <1>2 DEF Calls
  <2> QED
    BY <1>2, <1>4, <2>1, <2>2, <2>3 DEF Story, TypeOK, CountersTyped
<1>8. OrderInv' /\ CallInv'
  BY <1>2, Unmoved DEF CallInv, NoCall
<1> QED
  BY <1>2, <1>4, <1>5, <1>6, <1>7, <1>8 DEF Story

LEMMA AdmitQueueStory == ASSUME Story, AdmitQueue PROVE Story'
<1> DEFINE t == call.ticket
           s == SubjectOf[t]
<1>1. /\ t \in Tickets /\ entry[t] = "released" /\ s \in Subjects
      /\ entry \in [Tickets -> {"released", "queued", "active"}]
      /\ pending \in [Subjects -> Seq(Tickets)] /\ order \in Seq(Subjects)
      /\ queued \in Nat
  BY CallKinds, SchedulerAssumption DEF AdmitQueue, Admitting, Story, CallInv, TypeOK
<1>2. /\ entry' = [entry EXCEPT ![t] = "queued"]
      /\ order' = IF pending[s] = <<>> THEN Append(order, s) ELSE order
      /\ pending' = [pending EXCEPT ![s] = Append(@, t)]
      /\ queued' = queued + 1 /\ call' = NoCall /\ Pass({})
      /\ UNCHANGED <<active, subjects, accounts, skipped>>
  BY DEF AdmitQueue
<1>s. s = SubjectOf[t]
  OBVIOUS
<1> HIDE DEF t, s
<1>3. NoRepeats(pending[s]) /\ ~Has(pending[s], t)
  BY <1>1 DEF Story, WaitInv
<1>4. /\ Append(pending[s], t) \in Seq(Tickets)
      /\ NoRepeats(Append(pending[s], t))
      /\ \A x : Has(Append(pending[s], t), x) <=> Has(pending[s], x) \/ x = t
  BY <1>1, <1>3, AppendMembers
<1>5. /\ pending' \in [Subjects -> Seq(Tickets)]
      /\ pending'[s] = Append(pending[s], t)
      /\ \A u \in Subjects : u # s => pending'[u] = pending[u]
  BY <1>1, <1>2, <1>4
<1>6. pending'[s] # <<>>
  <2>1. Has(pending'[s], t)
    BY <1>4, <1>5
  <2> QED
    BY <2>1 DEF Has
<1>7. WaitInv'
  <2> SUFFICES ASSUME NEW u \in Subjects
               PROVE  /\ NoRepeats(pending'[u])
                      /\ \A x \in Tickets :
                            Has(pending'[u], x) <=> entry'[x] = "queued" /\ SubjectOf[x] = u
    BY DEF WaitInv, NoRepeats, Has
  <2>1. \A x \in Tickets : entry'[x] = "queued" <=> entry[x] = "queued" \/ x = t
    BY <1>1, <1>2
  <2>2. CASE u = s
    BY <1>s, <1>4, <1>5, <2>1, <2>2 DEF Story, WaitInv
  <2>3. CASE u # s
    BY <1>s, <1>5, <2>1, <2>3 DEF Story, WaitInv
  <2> QED
    BY <2>2, <2>3
<1>8. order' \in Seq(Subjects) /\ OrderInv'
  <2>1. CASE pending[s] = <<>>
    <3>1. ~Has(order, s) /\ NoRepeats(order)
      BY <1>1, <2>1 DEF Story, OrderInv
    <3>2. /\ Append(order, s) \in Seq(Subjects) /\ NoRepeats(Append(order, s))
          /\ \A x : Has(Append(order, s), x) <=> Has(order, x) \/ x = s
      BY <1>1, <3>1, AppendMembers
    <3>3. order' = Append(order, s)
      BY <1>2, <2>1
    <3>4. \A x \in Subjects : Has(order', x) <=> pending'[x] # <<>>
      BY <1>5, <1>6, <3>2, <3>3 DEF Story, OrderInv
    <3> QED
      BY <3>2, <3>3, <3>4 DEF OrderInv, NoRepeats, Has
  <2>2. CASE pending[s] # <<>>
    <3>1. order' = order
      BY <1>2, <2>2
    <3>2. \A x \in Subjects : Has(order, x) <=> pending'[x] # <<>>
      BY <1>1, <1>5, <1>6, <2>2 DEF Story, OrderInv
    <3> QED
      BY <1>1, <3>1, <3>2 DEF Story, OrderInv, NoRepeats, Has
  <2> QED
    BY <2>1, <2>2
<1>9. RunsAgree'
  <2>1. Actives' = Actives
    BY <1>1, <1>2 DEF Actives, IsActive
  <2>2. \A x : ActivesOf(x)' = ActivesOf(x) /\ ActivesAt(x)' = ActivesAt(x)
    BY <1>1, <1>2 DEF ActivesOf, ActivesAt, IsActive
  <2> QED
    BY <1>2, <2>1, <2>2 DEF Story, RunsAgree
<1>10. queued' = Cardinality(Waiters')
  <2>1. Waiters' = Waiters \cup {t} /\ t \notin Waiters
    BY <1>1, <1>2 DEF Waiters
  <2> QED
    BY <1>2, <2>1, OneMore, FiniteCounts DEF Story
<1>11. TypeOK'
  <2>1. passed' \in [Subjects -> Nat]
    BY <1>2, PassTyped DEF Story
  <2>2. entry' \in [Tickets -> {"released", "queued", "active"}]
    BY <1>1, <1>2
  <2>3. call' \in Calls
    BY <1>2 DEF Calls
  <2> QED
    BY <1>1, <1>2, <1>5, <1>8, <2>1, <2>2, <2>3 DEF Story, TypeOK
<1>12. CallInv'
  BY <1>2 DEF CallInv, NoCall
<1> QED
  BY <1>7, <1>8, <1>9, <1>10, <1>11, <1>12 DEF Story

LEMMA ReleaseActiveStory ==
    ASSUME Story, NEW t \in Tickets, ReleaseActive(t) PROVE Story'
<1>1. /\ entry[t] = "active" /\ entry' = [entry EXCEPT ![t] = "released"]
      /\ Freed(t) /\ call' = [op |-> "release"] /\ skipped' = 0 /\ Pass({})
      /\ UNCHANGED <<pending, order, queued>>
  BY DEF ReleaseActive
<1>2. /\ entry \in [Tickets -> {"released", "queued", "active"}]
      /\ CountersTyped /\ RunsAgree
  BY DEF Story, TypeOK, CountersTyped
<1>3. CountersTyped' /\ RunsAgree' /\ Waiters' = Waiters
  BY <1>1, <1>2, FreedCounts
<1>4. WaitInv'
  <2>1. \A u \in Tickets : entry'[u] = "queued" <=> entry[u] = "queued"
    BY <1>1, <1>2
  <2> QED
    BY <1>1, <2>1 DEF Story, WaitInv, NoRepeats, Has
<1>5. TypeOK'
  <2>1. passed' \in [Subjects -> Nat]
    BY <1>1, PassTyped DEF Story
  <2>2. entry' \in [Tickets -> {"released", "queued", "active"}]
    BY <1>1, <1>2
  <2>3. call' \in Calls
    BY <1>1 DEF Calls
  <2> QED
    BY <1>1, <1>3, <2>1, <2>2, <2>3 DEF Story, TypeOK, CountersTyped
<1>6. OrderInv' /\ CallInv'
  BY <1>1, Unmoved DEF CallInv
<1> QED
  BY <1>1, <1>3, <1>4, <1>5, <1>6 DEF Story

LEMMA ReleaseQueuedStory ==
    ASSUME Story, NEW t \in Tickets, ReleaseQueued(t) PROVE Story'
<1> DEFINE s == SubjectOf[t]
<1>1. PICK i \in DOMAIN pending[s] :
          /\ pending[s][i] = t
          /\ pending' = [pending EXCEPT ![s] = Drop(@, i)]
          /\ order' = Pruned(s)
  BY DEF ReleaseQueued
<1>2. /\ entry[t] = "queued" /\ entry' = [entry EXCEPT ![t] = "released"]
      /\ queued' = queued - 1 /\ call' = [op |-> "release"] /\ skipped' = 0
      /\ UNCHANGED <<active, subjects, accounts>> /\ Pass({})
  BY DEF ReleaseQueued
<1>3. s \in Subjects /\ entry' = [entry EXCEPT ![pending[s][i]] = "released"]
  BY <1>1, <1>2, SchedulerAssumption
<1> HIDE DEF s
<1>4. /\ pending' \in [Subjects -> Seq(Tickets)]
      /\ WaitInv'
      /\ Len(pending[s]) \in Nat /\ Len(pending[s]) >= 1
      /\ pending'[s] = <<>> <=> Len(pending[s]) = 1
      /\ \A u \in Subjects : u # s => pending'[u] = pending[u]
      /\ queued' \in Nat /\ queued' = Cardinality(Waiters')
  BY <1>1, <1>2, <1>3, Dequeue
<1>5. entry \in [Tickets -> {"released", "queued", "active"}] /\ order \in Seq(Subjects)
  BY DEF Story, TypeOK
<1>6. RunsAgree'
  <2>1. Actives' = Actives
    BY <1>2, <1>5 DEF Actives, IsActive
  <2>2. \A x : ActivesOf(x)' = ActivesOf(x) /\ ActivesAt(x)' = ActivesAt(x)
    BY <1>2, <1>5 DEF ActivesOf, ActivesAt, IsActive
  <2> QED
    BY <1>2, <2>1, <2>2 DEF Story, RunsAgree
<1>7. Has(order, s) /\ NoRepeats(order)
  <2>1. pending[s] # <<>>
    BY <1>1
  <2> QED
    BY <1>3, <2>1 DEF Story, OrderInv
<1>8. order' \in Seq(Subjects) /\ OrderInv'
  <2>1. CASE Len(pending[s]) = 1
    <3> DEFINE k == CHOOSE k \in DOMAIN order : order[k] = s
    <3>1. k \in DOMAIN order /\ order[k] = s
      BY <1>7 DEF Has
    <3>2. order' = Drop(order, k)
      BY <1>1, <1>7, <2>1 DEF Pruned, Has
    <3> HIDE DEF k
    <3>3. /\ order' \in Seq(Subjects) /\ NoRepeats(order')
          /\ \A x : Has(order', x) <=> Has(order, x) /\ x # s
      BY <1>5, <1>7, <3>1, <3>2, DropMembers
    <3>4. \A x \in Subjects : Has(order', x) <=> pending'[x] # <<>>
      BY <1>4, <2>1, <3>3 DEF Story, OrderInv
    <3> QED
      BY <3>3, <3>4 DEF OrderInv, NoRepeats, Has
  <2>2. CASE Len(pending[s]) # 1
    <3>1. order' = order
      BY <1>1, <2>2 DEF Pruned
    <3>2. \A x \in Subjects : Has(order, x) <=> pending'[x] # <<>>
      BY <1>4, <1>7, <2>2 DEF Story, OrderInv
    <3> QED
      BY <1>5, <3>1, <3>2 DEF Story, OrderInv, NoRepeats, Has
  <2> QED
    BY <2>1, <2>2
<1>9. TypeOK'
  <2>1. passed' \in [Subjects -> Nat]
    BY <1>2, PassTyped DEF Story
  <2>2. entry' \in [Tickets -> {"released", "queued", "active"}]
    BY <1>2, <1>5
  <2>3. call' \in Calls
    BY <1>2 DEF Calls
  <2> QED
    BY <1>2, <1>4, <1>8, <2>1, <2>2, <2>3 DEF Story, TypeOK
<1>10. CallInv'
  BY <1>2 DEF CallInv
<1> QED
  BY <1>4, <1>6, <1>8, <1>9, <1>10 DEF Story

LEMMA StoryStep == ASSUME Story, [Next]_vars PROVE Story'
<1>1. ASSUME NEW t \in Tickets, NEW o \in {"submit", "trySubmit"}, Submit(t, o)
      PROVE  Story'
  <2>1. /\ entry[t] = "released" /\ call' = [op |-> o, ticket |-> t] /\ skipped' = 0
        /\ UNCHANGED <<entry, pending, order, active, queued, subjects, accounts, passed>>
    BY <1>1 DEF Submit
  <2>2. TypeOK'
    BY <2>1 DEF Story, TypeOK, Calls
  <2>3. CallInv'
    BY <2>1 DEF CallInv
  <2> QED
    BY <2>1, <2>2, <2>3, Unmoved DEF Story
<1>2. ASSUME AdmitReject \/ Released PROVE Story'
  <2>1. /\ call' = NoCall
        /\ UNCHANGED <<entry, pending, order, active, queued, subjects, accounts,
                       skipped, passed>>
    BY <1>2 DEF AdmitReject, Released
  <2>2. TypeOK'
    BY <2>1 DEF Story, TypeOK, Calls
  <2>3. CallInv'
    BY <2>1 DEF CallInv, NoCall
  <2> QED
    BY <2>1, <2>2, <2>3, Unmoved DEF Story
<1>3. ASSUME UNCHANGED vars PROVE Story'
  <2>1. TypeOK' /\ CallInv'
    BY <1>3 DEF Story, TypeOK, CallInv, vars
  <2> QED
    BY <1>3, <2>1, Unmoved DEF Story, vars
<1> QED
  BY <1>1, <1>2, <1>3, SkipStory, StartStory, AdmitStartStory, AdmitQueueStory,
     ReleaseActiveStory, ReleaseQueuedStory DEF Next, Running

LEMMA StoryInit == Init => Story
<1> SUFFICES ASSUME Init PROVE Story
  OBVIOUS
<1>1. TypeOK
  BY DEF Init, TypeOK, Calls
<1>2. /\ Actives = {} /\ Waiters = {}
      /\ \A s : ActivesOf(s) = {} /\ ActivesAt(s) = {}
  BY DEF Init, Actives, Waiters, ActivesOf, ActivesAt, IsActive
<1>3. RunsAgree /\ queued = Cardinality(Waiters)
  BY <1>2, FS_EmptySet DEF Init, RunsAgree
<1>4. WaitInv /\ OrderInv /\ CallInv
  BY DEF Init, WaitInv, OrderInv, CallInv, NoRepeats, Has, NoCall
<1> QED
  BY <1>1, <1>3, <1>4 DEF Story

LEMMA StoryHolds == Spec => []Story
BY StoryInit, StoryStep, PTL DEF Spec

\* Every reachable state of the scheduler is well typed; in particular no
\* counter goes below zero (decrement).
THEOREM TypeCorrect == Spec => []TypeOK
<1>1. Story => TypeOK
  BY DEF Story
<1> QED
  BY <1>1, StoryHolds, PTL

\* The counters are the requests they count, and the queues and the rotation
\* hold exactly what waits (start, release, prune, pump).
THEOREM BookkeepingHolds == Spec => []BookkeepingAgrees
<1>1. ASSUME Story PROVE BookkeepingAgrees
  <2>1. CountsAgree
    BY <1>1 DEF Story, RunsAgree, Actives, Waiters, ActivesOf, ActivesAt, CountsAgree
  <2>2. ASSUME NEW t \in Tickets, NEW s \in Subjects
        PROVE  Cardinality(Occurs(pending[s], t)) =
                  IF entry[t] = "queued" /\ SubjectOf[t] = s THEN 1 ELSE 0
    BY <1>1, OccursOnce DEF Story, WaitInv
  <2>3. ASSUME NEW s \in Subjects
        PROVE  Cardinality(Occurs(order, s)) = IF pending[s] = <<>> THEN 0 ELSE 1
    BY <1>1, OccursOnce DEF Story, OrderInv
  <2> QED
    BY <2>1, <2>2, <2>3 DEF BookkeepingAgrees, QueuesAgree
<1> QED
  BY <1>1, StoryHolds, PTL

-----------------------------------------------------------------------------
(* Limits *)

\* Only an eligible request starts.
LEMMA LimitsStart ==
    ASSUME Story, WithinLimits, NEW t \in Tickets, entry[t] # "active",
           Eligible(t), Started(t)
    PROVE  WithinLimits'
<1>1. /\ entry \in [Tickets -> {"released", "queued", "active"}]
      /\ CountersTyped /\ RunsAgree
  BY DEF Story, TypeOK, CountersTyped
<1>2. /\ \A s \in Subjects :
            subjects'[s] = IF s = SubjectOf[t] THEN subjects[s] + 1 ELSE subjects[s]
      /\ \A a \in Accounts :
            accounts'[a] = IF a = AccountOf[t] THEN accounts[a] + 1 ELSE accounts[a]
  BY <1>1, StartCounts
<1>3. /\ active < Total /\ active' = active + 1
      /\ subjects[SubjectOf[t]] < SubjectLimit[SubjectOf[t]]
      /\ AccountOf[t] # NoAccount => accounts[AccountOf[t]] < AccountLimit[AccountOf[t]]
  BY DEF Eligible, Within, Started
<1>4. active' <= Total
  BY <1>1, <1>3, SchedulerAssumption DEF CountersTyped
<1>5. ASSUME NEW s \in Subjects PROVE subjects'[s] <= SubjectLimit[s]
  BY <1>1, <1>2, <1>3, SchedulerAssumption DEF CountersTyped, WithinLimits
<1>6. ASSUME NEW a \in Accounts PROVE accounts'[a] <= AccountLimit[a]
  BY <1>1, <1>2, <1>3, SchedulerAssumption DEF CountersTyped, WithinLimits
<1> QED
  BY <1>4, <1>5, <1>6 DEF WithinLimits

LEMMA LimitsStep == ASSUME Story, WithinLimits, [Next]_vars PROVE WithinLimits'
<1>1. ASSUME PumpStart PROVE WithinLimits'
  <2>1. PICK i \in DOMAIN pending[Head(order)] :
            Eligible(pending[Head(order)][i]) /\ Started(pending[Head(order)][i])
    BY <1>1 DEF PumpStart, FirstEligible
  <2>2. Head(order) \in Subjects
    BY <1>1 DEF Story, TypeOK, PumpStart, Pumping
  <2>3. pending[Head(order)][i] \in Tickets
    BY <2>2 DEF Story, TypeOK
  <2>4. Has(pending[Head(order)], pending[Head(order)][i])
    BY DEF Has
  <2>5. entry[pending[Head(order)][i]] = "queued"
    BY <2>2, <2>3, <2>4 DEF Story, WaitInv
  <2> QED
    BY <2>1, <2>3, <2>5, LimitsStart
<1>2. ASSUME AdmitStart PROVE WithinLimits'
  <2>1. call.ticket \in Tickets /\ entry[call.ticket] = "released"
    BY <1>2, CallKinds DEF AdmitStart, Admitting, Story, CallInv
  <2> QED
    BY <1>2, <2>1, LimitsStart DEF AdmitStart
<1>3. ASSUME NEW t \in Tickets, ReleaseActive(t) PROVE WithinLimits'
  <2>1. /\ active' = active - 1
        /\ subjects' = [s \in Subjects |-> IF s = SubjectOf[t] THEN subjects[s] - 1
                                                                ELSE subjects[s]]
        /\ accounts' = [a \in Accounts |-> IF a = AccountOf[t] THEN accounts[a] - 1
                                                                ELSE accounts[a]]
    BY <1>3, SchedulerAssumption DEF ReleaseActive, Freed, Bump, Story, TypeOK
  <2>2. /\ active \in Nat /\ subjects \in [Subjects -> Nat] /\ accounts \in [Accounts -> Nat]
        /\ Total \in Nat
        /\ SubjectLimit \in [Subjects -> Nat] /\ AccountLimit \in [Accounts -> Nat]
    BY SchedulerAssumption DEF Story, TypeOK
  <2> QED
    BY <2>1, <2>2 DEF WithinLimits
<1>4. ASSUME active' = active, subjects' = subjects, accounts' = accounts
      PROVE  WithinLimits'
  BY <1>4 DEF WithinLimits
<1> QED
  BY <1>1, <1>2, <1>3, <1>4 DEF Next, Running, Submit, PumpSkip, AdmitQueue,
     AdmitReject, ReleaseQueued, Released, vars

\* No concurrency limit, of the host, a subject or an account, is ever exceeded
\* (eligible before every start).
THEOREM LimitsHold == Spec => []WithinLimits
<1>1. Init => WithinLimits
  BY SchedulerAssumption DEF Init, WithinLimits
<1>2. Story /\ WithinLimits /\ [Next]_vars => WithinLimits'
  BY LimitsStep
<1> QED
  BY <1>1, <1>2, StoryHolds, PTL DEF Spec

-----------------------------------------------------------------------------
(* What pump leaves behind *)

Blocked(s) == \A i \in DOMAIN pending[s] : ~Eligible(pending[s][i])

\* The loop invariant of pump: the subjects it has skipped stand at the back of
\* the rotation and are blocked.  Between calls every subject is.
PumpInv ==
    /\ call = NoCall => \A s \in Subjects : Blocked(s)
    /\ call # NoCall =>
          /\ skipped <= Len(order)
          /\ \A k \in DOMAIN order : k > Len(order) - skipped => Blocked(order[k])

\* When the loop has ended, nothing that waits can run.
LEMMA PumpDone ==
    ASSUME Story, PumpInv, call # NoCall, ~Pumping
    PROVE  \A s \in Subjects : Blocked(s)
<1>1. active \in Nat /\ order \in Seq(Subjects) /\ skipped \in Nat /\ Total \in Nat
  BY SchedulerAssumption DEF Story, TypeOK
<1>2. CASE ~(active < Total)
  BY <1>2 DEF Blocked, Eligible
<1>3. CASE active < Total
  <2>1. skipped = Len(order)
    BY <1>1, <1>3 DEF PumpInv, Pumping
  <2>2. \A k \in DOMAIN order : Blocked(order[k])
    BY <1>1, <2>1 DEF PumpInv
  <2>3. ASSUME NEW s \in Subjects PROVE Blocked(s)
    <3>1. CASE pending[s] = <<>>
      BY <3>1 DEF Blocked
    <3>2. CASE pending[s] # <<>>
      <4>1. Has(order, s)
        BY <3>2 DEF Story, OrderInv
      <4> QED
        BY <2>2, <4>1 DEF Has
    <3> QED
      BY <3>1, <3>2
  <2> QED
    BY <2>3
<1> QED
  BY <1>2, <1>3

\* A start takes capacity away from everybody.
LEMMA StartFills ==
    ASSUME Story, NEW t \in Tickets, entry[t] # "active", Started(t),
           NEW u \in Tickets, ~Within(u)
    PROVE  ~Within(u)'
<1>1. /\ entry \in [Tickets -> {"released", "queued", "active"}]
      /\ CountersTyped /\ RunsAgree
  BY DEF Story, TypeOK, CountersTyped
<1>2. /\ \A s \in Subjects : subjects'[s] >= subjects[s] /\ subjects'[s] \in Nat
      /\ \A a \in Accounts : accounts'[a] >= accounts[a] /\ accounts'[a] \in Nat
  <2>1. /\ CountersTyped'
        /\ \A s \in Subjects :
              subjects'[s] = IF s = SubjectOf[t] THEN subjects[s] + 1 ELSE subjects[s]
        /\ \A a \in Accounts :
              accounts'[a] = IF a = AccountOf[t] THEN accounts[a] + 1 ELSE accounts[a]
    BY <1>1, StartCounts
  <2> QED
    BY <1>1, <2>1 DEF CountersTyped
<1>3. /\ SubjectOf[u] \in Subjects /\ SubjectLimit[SubjectOf[u]] \in Nat
      /\ AccountOf[u] # NoAccount =>
            AccountOf[u] \in Accounts /\ AccountLimit[AccountOf[u]] \in Nat
  BY SchedulerAssumption
<1>4. CASE ~(subjects[SubjectOf[u]] < SubjectLimit[SubjectOf[u]])
  <2>1. ~(subjects'[SubjectOf[u]] < SubjectLimit[SubjectOf[u]])
    BY <1>1, <1>2, <1>3, <1>4 DEF CountersTyped
  <2> QED
    BY <2>1 DEF Within
<1>5. CASE AccountOf[u] # NoAccount
           /\ ~(accounts[AccountOf[u]] < AccountLimit[AccountOf[u]])
  <2>1. ~(accounts'[AccountOf[u]] < AccountLimit[AccountOf[u]])
    BY <1>1, <1>2, <1>3, <1>5 DEF CountersTyped
  <2> QED
    BY <1>5, <2>1 DEF Within
<1> QED
  BY <1>4, <1>5 DEF Within

LEMMA StartBlocks ==
    ASSUME Story, NEW t \in Tickets, entry[t] # "active", Started(t),
           NEW u \in Tickets, ~Eligible(u)
    PROVE  ~Eligible(u)'
<1>1. CASE ~(active < Total)
  <2>1. ~(active' < Total)
    BY <1>1, SchedulerAssumption DEF Story, TypeOK, Started
  <2> QED
    BY <2>1 DEF Eligible
<1>2. CASE ~Within(u)
  <2>1. ~Within(u)'
    BY <1>2, StartFills
  <2> QED
    BY <2>1 DEF Eligible
<1> QED
  BY <1>1, <1>2 DEF Eligible

LEMMA PumpSkipStep == ASSUME Story, PumpInv, PumpSkip PROVE PumpInv'
<1> DEFINE n == Len(order)
<1>1. /\ order \in Seq(Subjects) /\ n \in Nat /\ skipped \in Nat /\ skipped < n
      /\ DOMAIN order = 1..n /\ call # NoCall
  BY DEF Story, TypeOK, PumpSkip, Pumping
<1>2. /\ order' = Append(Tail(order), Head(order)) /\ skipped' = skipped + 1
      /\ UNCHANGED <<entry, pending, active, queued, subjects, accounts, call, passed>>
      /\ Blocked(Head(order))
  BY DEF PumpSkip, Blocked
<1>3. /\ Len(order') = n /\ DOMAIN order' = 1..n
      /\ \A k \in 1..n : order'[k] = IF k = n THEN Head(order) ELSE order[k + 1]
  <2> DEFINE rest == Tail(order)
  <2>1. /\ rest \in Seq(Subjects) /\ Len(rest) = n - 1
        /\ \A k \in 1..(n - 1) : rest[k] = order[k + 1]
        /\ Head(order) \in Subjects
    BY <1>1
  <2>2. order' = Append(rest, Head(order))
    BY <1>2
  <2> HIDE DEF rest, n
  <2>3. /\ order' \in Seq(Subjects) /\ Len(order') = n
        /\ \A k \in 1..n : order'[k] = IF k = n THEN Head(order) ELSE rest[k]
    BY <1>1, <2>1, <2>2, AppendProperties
  <2> QED
    BY <1>1, <2>1, <2>3
<1>4. \A s : Blocked(s)' = Blocked(s)
  BY <1>2 DEF Blocked, Eligible, Within
<1> HIDE DEF n
<1>5. ASSUME NEW k \in 1..n, k > n - (skipped + 1) PROVE Blocked(order'[k])
  <2>1. CASE k = n
    BY <1>2, <1>3, <2>1
  <2>2. CASE k # n
    <3>1. k + 1 \in 1..n /\ k + 1 > n - skipped /\ order'[k] = order[k + 1]
      BY <1>1, <1>3, <1>5, <2>2
    <3> QED
      BY <1>1, <3>1 DEF PumpInv, n
  <2> QED
    BY <2>1, <2>2
<1>6. ASSUME NEW k \in 1..n, k > n - (skipped + 1) PROVE Blocked(order[k])'
  BY <1>4, <1>5, <1>6 DEF Blocked, Eligible, Within
<1>7. skipped' <= Len(order')
  BY <1>1, <1>2, <1>3
<1>8. \A k \in DOMAIN order' : k > Len(order') - skipped' => Blocked(order[k])'
  BY <1>2, <1>3, <1>6
<1>9. call' # NoCall
  BY <1>1, <1>2
<1> QED
  BY <1>7, <1>8, <1>9 DEF PumpInv

LEMMA PumpStep == ASSUME Story, PumpInv, [Next]_vars PROVE PumpInv'
\* A step that begins or continues a call and has skipped nobody.
<1>0. ASSUME Story', call' # NoCall, skipped' = 0 PROVE PumpInv'
  <2>1. order' \in Seq(Subjects)
    BY <1>0 DEF Story, TypeOK
  <2>2. Len(order') \in Nat /\ DOMAIN order' = 1..Len(order')
    BY <2>1
  <2>3. \A k \in DOMAIN order' : ~(k > Len(order') - skipped')
    BY <1>0, <2>2
  <2> QED
    BY <1>0, <2>2, <2>3 DEF PumpInv
<1>1. CASE PumpSkip
  BY <1>1, PumpSkipStep
<1>2. CASE PumpStart
  <2>1. call # NoCall /\ call' = call /\ skipped' = 0
    BY <1>2 DEF PumpStart, Pumping
  <2> QED
    BY <1>0, <1>2, <2>1, StartStory
<1>3. ASSUME NEW t \in Tickets, NEW o \in {"submit", "trySubmit"}, Submit(t, o)
      PROVE  PumpInv'
  <2>1. call' # NoCall /\ skipped' = 0
    BY <1>3 DEF Submit, NoCall
  <2>2. Story'
    BY <1>3, StoryStep DEF Next
  <2> QED
    BY <1>0, <2>1, <2>2
<1>4. ASSUME NEW t \in Tickets, ReleaseActive(t) \/ ReleaseQueued(t) PROVE PumpInv'
  <2>1. call' # NoCall /\ skipped' = 0
    BY <1>4 DEF ReleaseActive, ReleaseQueued, NoCall
  <2>2. Story'
    BY <1>4, ReleaseActiveStory, ReleaseQueuedStory
  <2> QED
    BY <1>0, <2>1, <2>2
<1>5. CASE AdmitStart
  <2>1. /\ call # NoCall /\ call.ticket \in Tickets /\ entry[call.ticket] = "released"
        /\ ~Pumping
    BY <1>5, CallKinds DEF AdmitStart, Admitting, Story, CallInv
  <2>2. Started(call.ticket) /\ pending' = pending /\ call' = NoCall
    BY <1>5 DEF AdmitStart
  <2>3. ASSUME NEW s \in Subjects, NEW i \in DOMAIN pending[s]
        PROVE  ~Eligible(pending[s][i])'
    <3>1. pending[s][i] \in Tickets /\ ~Eligible(pending[s][i])
      BY <2>1, PumpDone DEF Story, TypeOK, Blocked
    <3>2. ASSUME NEW u \in Tickets, ~Eligible(u) PROVE ~Eligible(u)'
      BY <2>1, <2>2, <3>2, StartBlocks
    <3>3. ~(active' < Total /\ Within(pending[s][i])')
      BY <3>1, <3>2, <2>2 DEF Eligible, Within
    <3> QED
      BY <3>3 DEF Eligible
  <2> QED
    BY <2>2, <2>3 DEF PumpInv, Blocked, Eligible, Within
<1>6. CASE AdmitQueue
  <2> DEFINE t == call.ticket
             s == SubjectOf[t]
  <2>1. /\ call # NoCall /\ t \in Tickets /\ s \in Subjects
        /\ ~Pumping /\ ~Eligible(t)
    BY <1>6, CallKinds, SchedulerAssumption DEF AdmitQueue, Admitting, Story
  <2>2. /\ pending' = [pending EXCEPT ![s] = Append(@, t)] /\ call' = NoCall
        /\ UNCHANGED <<active, subjects, accounts>>
    BY <1>6 DEF AdmitQueue
  <2>3. \A u \in Subjects : Blocked(u)
    BY <2>1, PumpDone
  <2>p. pending \in [Subjects -> Seq(Tickets)]
    BY DEF Story, TypeOK
  <2> HIDE DEF t, s
  <2>4. ASSUME NEW u \in Subjects, NEW i \in DOMAIN pending'[u]
        PROVE  ~Eligible(pending'[u][i])
    <3>1. CASE u = s
      <4>1. pending'[u] = Append(pending[u], t) /\ pending[u] \in Seq(Tickets)
        BY <2>p, <2>2, <3>1
      <4>2. pending'[u][i] = t \/ \E j \in DOMAIN pending[u] : pending'[u][i] = pending[u][j]
        BY <2>1, <4>1
      <4> QED
        BY <2>1, <2>3, <4>2 DEF Blocked
    <3>2. CASE u # s
      <4>1. pending'[u] = pending[u]
        BY <2>p, <2>2, <3>2
      <4> QED
        BY <2>3, <4>1 DEF Blocked
    <3> QED
      BY <3>1, <3>2
  <2> QED
    BY <2>2, <2>4 DEF PumpInv, Blocked, Eligible, Within
<1>7. CASE AdmitReject \/ Released
  <2>1. /\ call # NoCall /\ ~Pumping /\ call' = NoCall
        /\ UNCHANGED <<pending, active, subjects, accounts>>
    BY <1>7 DEF AdmitReject, Admitting, Released, NoCall
  <2>2. \A s \in Subjects : Blocked(s)
    BY <2>1, PumpDone
  <2> QED
    BY <2>1, <2>2 DEF PumpInv, Blocked, Eligible, Within
<1>8. CASE UNCHANGED vars
  BY <1>8 DEF vars, PumpInv, Blocked, Eligible, Within
<1> QED
  BY <1>1, <1>2, <1>3, <1>4, <1>5, <1>6, <1>7, <1>8 DEF Next, Running

LEMMA PumpHolds == Spec => []PumpInv
<1>1. Init => PumpInv
  BY DEF Init, PumpInv, Blocked
<1>2. Story /\ PumpInv /\ [Next]_vars => PumpInv'
  BY PumpStep
<1> QED
  BY <1>1, <1>2, StoryHolds, PTL DEF Spec

\* Between calls no request waits that could run: one pump per admission and
\* per release is enough (admit, release).
THEOREM NothingRunnableWaits == Spec => []WorkConserving
<1>1. ASSUME Story, PumpInv PROVE WorkConserving
  <2> SUFFICES ASSUME call = NoCall, NEW t \in Tickets, entry[t] = "queued"
               PROVE  ~Eligible(t)
    BY DEF WorkConserving
  <2>1. SubjectOf[t] \in Subjects
    BY SchedulerAssumption
  <2>2. Has(pending[SubjectOf[t]], t)
    BY <1>1, <2>1 DEF Story, WaitInv
  <2> QED
    BY <1>1, <2>1, <2>2 DEF PumpInv, Blocked, Has
<1> QED
  BY <1>1, StoryHolds, PumpHolds, PTL

-----------------------------------------------------------------------------
(* Order *)

Overtakes(t, i) ==
    LET u == pending[SubjectOf[t]][i] IN
    /\ entry[t] # "active" /\ entry'[t] = "active"
    /\ u # t /\ entry'[u] = "queued" /\ AccountOf[u] = AccountOf[t]

\* No request starts while an earlier one of its subject and account waits: the
\* two are eligible together, pump takes the first eligible one of a subject,
\* and a new request starts at once only when pump has left nothing eligible
\* behind (pump, admit).
THEOREM ArrivalOrderHolds == Spec => ArrivalOrder
<1> DEFINE InOrder == \A t \in Tickets : \A i \in DOMAIN pending[SubjectOf[t]] :
              LET u == pending[SubjectOf[t]][i] IN
              /\ entry[t] # "active" /\ entry'[t] = "active"
              /\ u # t /\ entry'[u] = "queued" /\ AccountOf[u] = AccountOf[t]
              => \E j \in 1..(i - 1) : pending[SubjectOf[t]][j] = t
<1>1. Story /\ PumpInv /\ [Next]_vars => InOrder
  <2> SUFFICES ASSUME Story, PumpInv, [Next]_vars,
                      NEW t \in Tickets, NEW i \in DOMAIN pending[SubjectOf[t]],
                      Overtakes(t, i)
               PROVE  \E j \in 1..(i - 1) : pending[SubjectOf[t]][j] = t
    BY DEF Overtakes
  <2> DEFINE s == SubjectOf[t]
             u == pending[s][i]
  <2>1. /\ s \in Subjects /\ pending[s] \in Seq(Tickets)
        /\ i \in DOMAIN pending[s] /\ u \in Tickets
    BY SchedulerAssumption DEF Story, TypeOK
  <2>2. SubjectOf[u] = s
    <3>1. Has(pending[s], u)
      BY <2>1 DEF Has
    <3> QED
      BY <2>1, <3>1 DEF Story, WaitInv
  <2>3. Eligible(u) <=> Eligible(t)
    BY <2>2 DEF Overtakes, Eligible, Within
  <2>4. entry \in [Tickets -> {"released", "queued", "active"}]
    BY DEF Story, TypeOK
  <2>5. CASE PumpStart
    <3> DEFINE r == Head(order)
    <3>1. r \in Subjects /\ pending[r] \in Seq(Tickets)
      BY <2>5 DEF Story, TypeOK, PumpStart, Pumping
    <3>2. PICK k \in DOMAIN pending[r] : FirstEligible(r, k) /\ Started(pending[r][k])
      BY <2>5 DEF PumpStart
    <3>3. pending[r][k] = t
      BY <2>4, <3>2 DEF Started, Overtakes
    <3>4. r = s
      <4>1. Has(pending[r], t)
        BY <3>2, <3>3 DEF Has
      <4> QED
        BY <3>1, <4>1 DEF Story, WaitInv
    <3>5. /\ k \in DOMAIN pending[s] /\ pending[s][k] = t
          /\ \A j \in 1..(k - 1) : ~Eligible(pending[s][j])
          /\ Eligible(t)
      BY <3>2, <3>3, <3>4 DEF FirstEligible
    <3>6. i # k
      BY <3>5 DEF Overtakes
    <3>7. ~(i \in 1..(k - 1))
      BY <2>3, <3>5
    <3>8. k \in 1..(i - 1)
      BY <2>1, <3>5, <3>6, <3>7
    <3> QED
      BY <3>5, <3>8
  <2>6. CASE AdmitStart
    <3>1. call # NoCall /\ ~Pumping /\ Eligible(call.ticket) /\ Started(call.ticket)
      BY <2>6, CallKinds DEF AdmitStart, Admitting, Story
    <3>2. call.ticket = t
      BY <2>4, <3>1 DEF Started, Overtakes
    <3>3. ~Eligible(u)
      BY <2>1, <3>1, PumpDone DEF Blocked
    <3> QED
      BY <2>3, <3>1, <3>2, <3>3
  <2>7. ASSUME NEW x \in Tickets, ReleaseActive(x) \/ ReleaseQueued(x) PROVE FALSE
    BY <2>4, <2>7 DEF ReleaseActive, ReleaseQueued, Overtakes
  <2>8. CASE AdmitQueue
    BY <2>4, <2>8 DEF AdmitQueue, Overtakes
  <2>9. CASE entry' = entry
    BY <2>9 DEF Overtakes
  <2> QED
    BY <2>5, <2>6, <2>7, <2>8, <2>9
       DEF Next, Running, Submit, PumpSkip, AdmitReject, Released, vars
<1>2. Story /\ PumpInv /\ [Next]_vars => [InOrder]_vars
  BY <1>1
<1> QED
  BY <1>2, StoryHolds, PumpHolds, PTL DEF Spec, ArrivalOrder

-----------------------------------------------------------------------------
(* Overtaking *)

\* A subject that was passed is ready, and each time it was passed it came one place
\* nearer to the head of the rotation.
TurnInv ==
    /\ \A s \in Subjects : passed[s] > 0 => Ready(s)
    /\ \A k \in DOMAIN order : passed[order[k]] + k <= Cardinality(Subjects)

LEMMA RotationFits ==
    ASSUME NEW S, IsFiniteSet(S), NEW seq \in Seq(S), NoRepeats(seq)
    PROVE  Len(seq) <= Cardinality(S)
<1> DEFINE n == Len(seq)
<1>1. n \in Nat /\ seq \in [1..n -> S]
  OBVIOUS
<1>2. seq \in Injection(1..n, S)
  BY <1>1 DEF NoRepeats, Injection, IsInjective
<1> HIDE DEF n
<1>3. IsFiniteSet(1..n) /\ Cardinality(1..n) = n
  BY <1>1, FS_Interval
<1>4. Cardinality(1..n) <= Cardinality(S)
  BY <1>2, FS_Injection
<1> QED
  BY <1>3, <1>4 DEF n

\* A step after which each subject of the rotation begins to count anew, or is as
\* many places nearer to the head as it was passed.
LEMMA TurnsMove ==
    ASSUME IsFiniteSet(Subjects), Story, TurnInv, Story',
           \A s \in Subjects : passed'[s] > 0 => Ready(s)',
           \A k \in DOMAIN order' :
              \/ passed'[order'[k]] = 0
              \/ \E j \in DOMAIN order :
                    /\ order[j] = order'[k]
                    /\ passed'[order[j]] + k <= passed[order[j]] + j
    PROVE  TurnInv'
<1>1. /\ order \in Seq(Subjects) /\ order' \in Seq(Subjects) /\ NoRepeats(order')
      /\ passed \in [Subjects -> Nat] /\ passed' \in [Subjects -> Nat]
  BY DEF Story, TypeOK, OrderInv, NoRepeats
<1>2. Len(order') <= Cardinality(Subjects) /\ Cardinality(Subjects) \in Nat
  BY <1>1, RotationFits, FS_CardinalityType
<1>3. ASSUME NEW k \in DOMAIN order'
      PROVE  passed'[order'[k]] + k <= Cardinality(Subjects)
  <2>1. k \in Nat /\ k <= Len(order') /\ Len(order') \in Nat
    BY <1>1
  <2>2. CASE passed'[order'[k]] = 0
    BY <1>2, <2>1, <2>2
  <2>3. CASE passed'[order'[k]] # 0
    <3>1. PICK j \in DOMAIN order : /\ order[j] = order'[k]
                                    /\ passed'[order[j]] + k <= passed[order[j]] + j
      BY <2>3
    <3>2. /\ passed[order[j]] + j <= Cardinality(Subjects)
          /\ passed[order[j]] \in Nat /\ passed'[order[j]] \in Nat /\ j \in Nat
      BY <1>1 DEF TurnInv
    <3> QED
      BY <1>2, <2>1, <3>1, <3>2
  <2> QED
    BY <2>2, <2>3
<1> QED
  BY <1>3 DEF TurnInv

\* What a step adds to the history.
LEMMA Passes ==
    ASSUME TypeOK, NEW by, Pass(by), NEW s \in Subjects
    PROVE  /\ passed'[s] \in Nat /\ passed[s] \in Nat
           /\ passed'[s] > 0 => Ready(s)' /\ s \notin by
           /\ passed'[s] <= passed[s] + 1
           /\ by = {} => passed'[s] <= passed[s]
<1>1. passed'[s] = IF s \in by \/ ~Ready(s)' THEN 0
                   ELSE IF by = {} \/ passed[s] = MaxPassed THEN passed[s]
                   ELSE passed[s] + 1
  BY DEF Pass
<1>2. passed[s] \in Nat
  BY DEF TypeOK
<1> HIDE DEF Pass
<1> QED
  BY <1>1, <1>2

\* The rotation after its head was looked at.
LEMMA NextTurn ==
    ASSUME NEW S, NEW seq \in Seq(S), Len(seq) > 0, NEW next,
           next = Tail(seq) \/ next = Append(Tail(seq), Head(seq))
    PROVE  \A k \in DOMAIN next :
              \/ next[k] = Head(seq)
              \/ k + 1 \in DOMAIN seq /\ seq[k + 1] = next[k]
<1> DEFINE n == Len(seq)
           rest == Tail(seq)
<1>1. /\ n \in Nat /\ n > 0 /\ DOMAIN seq = 1..n /\ Head(seq) \in S
      /\ rest \in Seq(S) /\ Len(rest) = n - 1
      /\ \A k \in 1..(n - 1) : rest[k] = seq[k + 1]
  OBVIOUS
<1>2. next = rest \/ next = Append(rest, Head(seq))
  OBVIOUS
<1> HIDE DEF n, rest
<1>3. CASE next = rest
  BY <1>1, <1>3
<1>4. CASE next = Append(rest, Head(seq))
  <2>1. /\ DOMAIN next = 1..n
        /\ \A k \in 1..n : next[k] = IF k = n THEN Head(seq) ELSE rest[k]
    BY <1>1, <1>4, AppendProperties
  <2> QED
    BY <1>1, <2>1
<1> QED
  BY <1>2, <1>3, <1>4

LEMMA TurnStep ==
    ASSUME IsFiniteSet(Subjects), Story, PumpInv, TurnInv, [Next]_vars
    PROVE  TurnInv'
<1>1. /\ Story' /\ TypeOK /\ order \in Seq(Subjects) /\ Len(order) \in Nat
      /\ DOMAIN order = 1..Len(order) /\ passed \in [Subjects -> Nat]
      /\ \A k \in DOMAIN order : order[k] \in Subjects
  BY StoryStep DEF Story, TypeOK
\* Steps that leave the queues and the history.
<1>2. CASE UNCHANGED <<pending, subjects, accounts, order, passed>>
  <2>1. \A s \in Subjects : passed'[s] > 0 => Ready(s)'
    BY <1>2 DEF TurnInv, Ready, Within
  <2> QED
    BY <1>2, <2>1 DEF TurnInv
\* The head of the rotation is not ready: with a slot free it would be served.
<1>3. CASE PumpSkip
  <2>1. /\ order' = Append(Tail(order), Head(order)) /\ Len(order) > 0
        /\ UNCHANGED <<pending, subjects, accounts, passed>> /\ ~Ready(Head(order))
    BY <1>1, <1>3 DEF PumpSkip, Pumping, Eligible, Ready, Story, TypeOK
  <2>2. \A s \in Subjects : passed'[s] > 0 => Ready(s)'
    BY <2>1 DEF TurnInv, Ready, Within
  <2>3. Head(order) \in Subjects
    BY <1>1, <2>1
  <2>4. passed[Head(order)] = 0
    BY <1>1, <2>1, <2>3 DEF TurnInv
  <2>5. \A k \in DOMAIN order' :
           \/ order'[k] = Head(order)
           \/ k + 1 \in DOMAIN order /\ order[k + 1] = order'[k]
    BY <1>1, <2>1, NextTurn
  <2>6. ASSUME NEW k \in DOMAIN order', passed'[order'[k]] # 0
        PROVE  \E j \in DOMAIN order : /\ order[j] = order'[k]
                                        /\ passed'[order[j]] + k <= passed[order[j]] + j
    <3>1. k + 1 \in DOMAIN order /\ order[k + 1] = order'[k]
      BY <2>1, <2>4, <2>5, <2>6
    <3>2. passed'[order[k + 1]] + k <= passed[order[k + 1]] + (k + 1)
      BY <1>1, <2>1, <3>1
    <3> QED
      BY <3>1, <3>2
  <2> QED
    BY <1>1, <2>2, <2>6, TurnsMove
\* The head of the rotation is served: the others come nearer by the place it leaves.
<1>4. CASE PumpStart
  <2>1. /\ order' = Append(Tail(order), Head(order)) \/ order' = Tail(order)
        /\ Len(order) > 0 /\ Pass({Head(order)})
    BY <1>1, <1>4 DEF PumpStart, Pumping, Rotated, Story, TypeOK
  <2>2. \A s \in Subjects : passed'[s] > 0 => Ready(s)'
    BY <1>1, <2>1, Passes
  <2>5. \A s \in Subjects : s = Head(order) => passed'[s] = 0
    BY <2>1 DEF Pass
  <2>6. \A s \in Subjects : passed'[s] \in Nat /\ passed'[s] <= passed[s] + 1
    BY <1>1, <2>1, Passes
  <2>3. \A k \in DOMAIN order' :
           \/ order'[k] = Head(order)
           \/ k + 1 \in DOMAIN order /\ order[k + 1] = order'[k]
    BY <1>1, <2>1, NextTurn
  <2>4. ASSUME NEW k \in DOMAIN order', passed'[order'[k]] # 0
        PROVE  \E j \in DOMAIN order : /\ order[j] = order'[k]
                                        /\ passed'[order[j]] + k <= passed[order[j]] + j
    <3>1. order' \in Seq(Subjects)
      BY <1>1 DEF Story, TypeOK
    <3>2. order'[k] \in Subjects /\ k \in Nat
      BY <3>1
    <3>3. order'[k] # Head(order)
      BY <2>4, <2>5, <3>2
    <3>4. k + 1 \in DOMAIN order /\ order[k + 1] = order'[k]
      BY <2>3, <3>3
    <3>5. passed'[order[k + 1]] + k <= passed[order[k + 1]] + (k + 1)
      BY <1>1, <2>6, <3>2, <3>4
    <3> QED
      BY <3>4, <3>5
  <2> QED
    BY <1>1, <2>2, <2>4, TurnsMove
\* A request that starts at once finds nobody ready.
<1>5. CASE AdmitStart
  <2>1. /\ call # NoCall /\ ~Pumping /\ active < Total /\ Started(call.ticket)
        /\ call.ticket \in Tickets /\ entry[call.ticket] # "active"
        /\ pending' = pending /\ Pass({SubjectOf[call.ticket]})
    BY <1>5, CallKinds DEF AdmitStart, Admitting, Eligible, Story, CallInv
  <2>2. ASSUME NEW s \in Subjects PROVE ~Ready(s)'
    <3>1. ASSUME NEW i \in DOMAIN pending[s] PROVE ~Within(pending[s][i])'
      <4>1. pending[s][i] \in Tickets /\ ~Within(pending[s][i])
        BY <2>1, PumpDone DEF Story, TypeOK, Blocked, Eligible
      <4>2. ASSUME NEW u \in Tickets, ~Within(u) PROVE ~Within(u)'
        BY <2>1, <4>2, StartFills
      <4> QED
        BY <2>1, <4>1, <4>2 DEF Within
    <3> QED
      BY <2>1, <3>1 DEF Ready, Within
  <2>3. \A s \in Subjects : passed'[s] = 0
    BY <2>1, <2>2 DEF Pass
  <2>4. order' \in Seq(Subjects)
    BY <1>1 DEF Story, TypeOK
  <2>5. \A k \in DOMAIN order' : passed'[order'[k]] = 0
    BY <2>3, <2>4
  <2> QED
    BY <1>1, <2>3, <2>5, TurnsMove
\* A request waits: a subject that had none comes to the back, and was not passed.
<1>6. CASE AdmitQueue
  <2> DEFINE s == SubjectOf[call.ticket]
  <2>1. /\ s \in Subjects /\ Pass({})
        /\ order' = IF pending[s] = <<>> THEN Append(order, s) ELSE order
    BY <1>6, CallKinds, SchedulerAssumption DEF AdmitQueue, Admitting, Story
  <2> HIDE DEF s
  <2>2. \A u \in Subjects : passed'[u] > 0 => Ready(u)'
    BY <1>1, <2>1, Passes
  <2>6. \A u \in Subjects : passed'[u] \in Nat /\ passed'[u] <= passed[u]
    BY <1>1, <2>1, Passes
  <2>3. ASSUME pending[s] = <<>> PROVE passed'[s] = 0
    <3>1. ~Ready(s)
      BY <2>3 DEF Ready
    <3>2. passed[s] \in Nat /\ ~(passed[s] > 0)
      BY <1>1, <2>1, <3>1 DEF TurnInv
    <3> QED
      BY <2>1, <2>6, <3>2
  <2>4. \A k \in DOMAIN order' :
           \/ pending[s] = <<>> /\ order'[k] = s
           \/ k \in DOMAIN order /\ order[k] = order'[k]
    BY <1>1, <2>1
  <2>5. ASSUME NEW k \in DOMAIN order', passed'[order'[k]] # 0
        PROVE  \E j \in DOMAIN order : /\ order[j] = order'[k]
                                        /\ passed'[order[j]] + k <= passed[order[j]] + j
    <3>1. k \in DOMAIN order /\ order[k] = order'[k]
      BY <2>3, <2>4, <2>5
    <3>2. passed'[order[k]] + k <= passed[order[k]] + k
      BY <1>1, <2>6, <3>1
    <3> QED
      BY <3>1, <3>2
  <2> QED
    BY <1>1, <2>2, <2>5, TurnsMove
\* A subject that leaves the rotation brings those behind it nearer.
<1>7. ASSUME NEW t \in Tickets, ReleaseActive(t) \/ ReleaseQueued(t) PROVE TurnInv'
  <2>1. Pass({}) /\ (order' = order \/ \E i \in DOMAIN order : order' = Drop(order, i))
    <3>1. CASE ReleaseActive(t)
      BY <3>1 DEF ReleaseActive
    <3>2. CASE ReleaseQueued(t)
      BY <3>2 DEF ReleaseQueued, Pruned
    <3> QED
      BY <1>7, <3>1, <3>2
  <2>2. \A u \in Subjects : passed'[u] > 0 => Ready(u)'
    BY <1>1, <2>1, Passes
  <2>6. \A u \in Subjects : passed'[u] \in Nat /\ passed'[u] <= passed[u]
    BY <1>1, <2>1, Passes
  <2>3. ASSUME NEW k \in DOMAIN order'
        PROVE  \E j \in DOMAIN order : k <= j /\ order[j] = order'[k]
    <3>1. CASE order' = order
      BY <1>1, <3>1
    <3>2. ASSUME NEW i \in DOMAIN order, order' = Drop(order, i)
          PROVE  \E j \in DOMAIN order : k <= j /\ order[j] = order'[k]
      <4>1. /\ Drop(order, i) \in Seq(Subjects) /\ Len(Drop(order, i)) = Len(order) - 1
            /\ \A j \in 1..(Len(order) - 1) :
                  Drop(order, i)[j] = IF j < i THEN order[j] ELSE order[j + 1]
        BY <1>1, DropAt
      <4>2. /\ k \in 1..(Len(order) - 1)
            /\ order'[k] = IF k < i THEN order[k] ELSE order[k + 1]
        BY <3>2, <4>1
      <4>3. k \in DOMAIN order /\ k + 1 \in DOMAIN order /\ k <= k /\ k <= k + 1
        BY <1>1, <4>2
      <4> QED
        BY <4>2, <4>3
    <3> QED
      BY <2>1, <3>1, <3>2
  <2>4. \A k \in DOMAIN order' : \E j \in DOMAIN order :
           order[j] = order'[k] /\ passed'[order[j]] + k <= passed[order[j]] + j
    <3>1. order' \in Seq(Subjects)
      BY <1>1 DEF Story, TypeOK
    <3> SUFFICES ASSUME NEW k \in DOMAIN order'
                 PROVE  \E j \in DOMAIN order :
                           /\ order[j] = order'[k]
                           /\ passed'[order[j]] + k <= passed[order[j]] + j
      OBVIOUS
    <3>2. PICK j \in DOMAIN order : k <= j /\ order[j] = order'[k]
      BY <2>3
    <3>3. k \in Nat /\ j \in Nat /\ order[j] \in Subjects
      BY <1>1, <3>1
    <3>4. passed'[order[j]] + k <= passed[order[j]] + j
      BY <1>1, <2>6, <3>2, <3>3
    <3> QED
      BY <3>2, <3>4
  <2> QED
    BY <1>1, <2>2, <2>4, TurnsMove
<1>8. CASE \/ \E t \in Tickets : \E o \in {"submit", "trySubmit"} : Submit(t, o)
           \/ AdmitReject \/ Released \/ UNCHANGED vars
  BY <1>2, <1>8 DEF Submit, AdmitReject, Released, vars
<1> QED
  BY <1>3, <1>4, <1>5, <1>6, <1>7, <1>8 DEF Next, Running

\* Among finitely many subjects, one whose waiting request lacks only a slot is
\* passed fewer times than there are subjects before it is served, whatever arrives,
\* is withdrawn or starts at once meanwhile (pump, admit, release).
THEOREM OvertakingBounded ==
    ASSUME IsFiniteSet(Subjects) PROVE Spec => []BoundedOvertaking
<1>1. Init => TurnInv
  BY DEF Init, TurnInv
<1>2. Story /\ PumpInv /\ TurnInv /\ [Next]_vars => TurnInv'
  BY TurnStep
<1>3. Story /\ TurnInv => BoundedOvertaking
  <2> SUFFICES ASSUME Story, TurnInv, NEW s \in Subjects
               PROVE  passed[s] < Cardinality(Subjects)
    BY DEF BoundedOvertaking, MaxPassed
  <2>1. /\ passed[s] \in Nat /\ Cardinality(Subjects) \in Nat
        /\ order \in Seq(Subjects) /\ pending[s] \in Seq(Tickets)
    BY FS_CardinalityType DEF Story, TypeOK
  <2>2. CASE passed[s] = 0
    <3>1. Cardinality(Subjects) # 0
      BY FS_EmptySet
    <3> QED
      BY <2>1, <2>2, <3>1
  <2>3. CASE passed[s] > 0
    <3>1. pending[s] # <<>>
      BY <2>3 DEF TurnInv, Ready
    <3>2. PICK k \in DOMAIN order : order[k] = s
      BY <3>1 DEF Story, OrderInv, Has
    <3>3. k \in Nat /\ k > 0 /\ passed[s] + k <= Cardinality(Subjects)
      BY <2>1, <3>2 DEF TurnInv
    <3> QED
      BY <2>1, <3>3
  <2> QED
    BY <2>1, <2>2, <2>3
<1> QED
  BY <1>1, <1>2, <1>3, StoryHolds, PumpHolds, PTL DEF Spec

\* The counters are true, the limits bind and no runnable request waits, together.
THEOREM SchedulerSound == Spec => []SchedulerIsSound
  BY TypeCorrect, BookkeepingHolds, LimitsHold, NothingRunnableWaits, PTL DEF SchedulerIsSound

-----------------------------------------------------------------------------
(* The run loop: a completed run delivered its text, within its budget.      *)

Generators ==
    [at : Runs!Places, suspended : BOOLEAN, closed : BOOLEAN, step : Nat,
     account : Accounts \cup {"none"}, paused : BOOLEAN,
     status : {"cancelled", "completed", "failed"}, started : BOOLEAN,
     terminal : {"none", "cancelled", "completed", "failed"}]
ModelCalls ==
    [state : {"none", "running", "returned", "threw", "left"}, calls : BOOLEAN, tokens : Nat,
     reported : BOOLEAN]
Usages == [started : Nat, completed : Nat, reports : Nat, tokens : Nat]
Texts == [emitted : Nat, delivered : Nat]

RunTypes ==
    /\ provider \in Accounts /\ record \in Accounts \cup {"none"}
    /\ unknownUsage \in {"allow", "reject"}
    /\ run \in Generators /\ modelCall \in ModelCalls
    /\ events \in Seq(Nat) /\ Len(events) <= MaxEvents
    /\ timer \in BOOLEAN /\ runAborted \in BOOLEAN
    /\ usage \in Usages /\ text \in Texts

\* A model call is under way only where the generator waits for it.
CallFits ==
    /\ modelCall.state \in {"running", "returned", "threw"} => run.at \in {"model", "closing"}
    /\ modelCall.state = "left" => run.at = "ended"
    /\ modelCall.state \in {"none", "left"} => events = <<>>

\* A step is begun only below the limit.
StepFits ==
    /\ run.step <= MaxSteps
    /\ run.at \in {"new", "admission", "context"} => run.step = 0
    /\ run.at = "step" => run.step < MaxSteps

\* What was reported is of calls that returned, of those that were begun.
UsageFits ==
    /\ usage.reports <= usage.completed /\ usage.completed <= usage.started
    /\ run.at = "turn" \/ (run.at = "model" /\ modelCall.state # "none") =>
          usage.completed < usage.started

\* A call that is about to begin was allowed for.
BudgetFits ==
    /\ run.at = "authorizing" \/ (run.at = "model" /\ modelCall.state = "none")
    /\ usage.started > 0
    =>  /\ usage.tokens < MaxTokens
        /\ unknownUsage = "reject" => usage.reports = usage.started

TimerFits ==
    /\ timer => ~run.paused /\ run.at # "ended"
    /\ run.at = "context" => ~run.paused
    /\ run.at = "new" => run.paused

\* Until the run is aborted, what was emitted is what was delivered and what the queue
\* holds, in its order: there are its partial sums.
Counts == Nat
Balance(q, from, to) ==
    \E s \in [0 .. Len(q) -> Counts] :
        /\ s[0] = from /\ s[Len(q)] = to
        /\ \A i \in 1 .. Len(q) : s[i] = s[i - 1] + q[i]
TextFits ==
    /\ ~runAborted => Balance(events, text.delivered, text.emitted)
    /\ run.terminal # "none" => run.at \in {"closing", "ended"}
    /\ run.terminal = "completed" =>
          text.delivered = text.emitted /\ modelCall.state \in {"none", "left"}

RunInv ==
    /\ RunTypes /\ CallFits /\ StepFits /\ UsageFits /\ BudgetFits /\ TimerFits /\ TextFits

LEMMA RunBounds ==
    MaxSteps \in Nat /\ MaxSteps > 0 /\ MaxTokens \in Nat /\ MaxEvents \in Nat /\ Tokens \subseteq Nat
BY RequestsAssumption

LEMMA RunIs ==
    ASSUME RunInv
    PROVE  /\ provider \in Accounts /\ record \in Accounts \cup {"none"}
           /\ unknownUsage \in {"allow", "reject"}
           /\ run \in Generators /\ modelCall \in ModelCalls
           /\ events \in Seq(Nat) /\ Len(events) <= MaxEvents
           /\ timer \in BOOLEAN /\ runAborted \in BOOLEAN
           /\ usage \in Usages /\ text \in Texts
           /\ CallFits /\ StepFits /\ UsageFits /\ BudgetFits /\ TimerFits /\ TextFits
           /\ usage.started \in Nat /\ usage.completed \in Nat /\ usage.reports \in Nat
           /\ usage.tokens \in Nat /\ text.emitted \in Nat /\ text.delivered \in Nat
           /\ run.step \in Nat
           /\ modelCall.state \in {"none", "running", "returned", "threw", "left"}
BY DEF RunInv, RunTypes, Usages, Texts, Generators, ModelCalls

LEMMA AtIs ==
    ASSUME NEW g \in Generators, NEW place \in Runs!Places
    PROVE  LET h == [g EXCEPT !.at = place]
           IN  /\ h \in Generators /\ h.at = place /\ h.step = g.step /\ h.paused = g.paused
               /\ h.terminal = g.terminal /\ h.account = g.account
<1>1. [g EXCEPT !.at = place] \in Generators
  BY DEF Generators
<1> QED
  BY <1>1 DEF Generators

LEMMA YieldsIs ==
    ASSUME NEW g \in Generators, NEW place \in Runs!Places
    PROVE  LET h == [g EXCEPT !.at = place, !.suspended = TRUE, !.started = TRUE]
           IN  /\ h \in Generators /\ h.at = place /\ h.step = g.step /\ h.paused = g.paused
               /\ h.terminal = g.terminal /\ h.account = g.account
<1>1. [g EXCEPT !.at = place, !.suspended = TRUE, !.started = TRUE] \in Generators
  BY DEF Generators
<1> QED
  BY <1>1 DEF Generators

\* A step of the generator alone.
LEMMA GeneratorMoves ==
    ASSUME RunInv, run' \in Generators, timer' \in BOOLEAN, runAborted' \in BOOLEAN,
           UNCHANGED <<provider, unknownUsage, modelCall, events, usage, text, record>>,
           runAborted => runAborted', StepFits', BudgetFits', TimerFits',
           modelCall.state \in {"running", "returned", "threw"} => run'.at \in {"model", "closing"},
           modelCall.state = "left" => run'.at = "ended",
           run'.at = "turn" \/ (run'.at = "model" /\ modelCall.state # "none") =>
              usage.completed < usage.started,
           run'.terminal # "none" => run'.at \in {"closing", "ended"},
           run'.terminal = "completed" =>
              text.delivered = text.emitted /\ modelCall.state \in {"none", "left"}
    PROVE  RunInv'
<1>1. RunTypes'
  BY DEF RunInv, RunTypes
<1>2. CallFits' /\ UsageFits'
  BY DEF RunInv, CallFits, UsageFits
<1>3. TextFits'
  BY DEF RunInv, TextFits, Balance
<1> QED
  BY <1>1, <1>2, <1>3 DEF RunInv

LEMMA RejectStep == ASSUME RunInv, Runs!Reject PROVE RunInv'
<1>1. /\ run' = [run EXCEPT !.at = "ended"] /\ runAborted' = TRUE /\ run.at = "new"
      /\ UNCHANGED <<provider, unknownUsage, modelCall, events, timer, usage, text, record>>
  BY DEF Runs!Reject, Runs!Steps, Runs!At
<1>2. /\ run' \in Generators /\ run'.at = "ended" /\ run'.step = run.step
      /\ run'.paused = run.paused /\ run'.terminal = run.terminal
  BY <1>1, RunIs, AtIs DEF Runs!Places
<1>3. StepFits' /\ BudgetFits' /\ TimerFits'
  BY <1>1, <1>2, RunIs DEF StepFits, BudgetFits, TimerFits
<1>4. run.terminal = "none"
  BY <1>1, RunIs DEF TextFits, Generators
<1>5. modelCall.state \notin {"running", "returned", "threw"}
  BY <1>1, RunIs DEF CallFits
<1> QED
  BY <1>1, <1>2, <1>3, <1>4, <1>5, RunIs, GeneratorMoves

\* Before its end a run has no terminal event, and waits for its model only in "model".
LEMMA Midway ==
    ASSUME RunInv, run.at \notin {"closing", "ended"}
    PROVE  /\ run.terminal = "none"
           /\ modelCall.state # "left"
           /\ run.at # "model" => modelCall.state = "none" /\ events = <<>>
BY RunIs DEF TextFits, CallFits, Generators

\* The generator goes on to a place before its model call, or to its failure.
LEMMA GeneratorGoesTo ==
    ASSUME RunInv, run.at \notin {"model", "closing", "ended"}, run' \in Generators,
           run'.at \notin {"model", "turn", "ended"}, run'.terminal = run.terminal,
           timer' \in BOOLEAN, StepFits', BudgetFits', TimerFits',
           UNCHANGED <<provider, unknownUsage, modelCall, events, runAborted, usage, text, record>>
    PROVE  RunInv'
<1>1. run.terminal = "none" /\ modelCall.state = "none"
  BY Midway
<1> QED
  BY <1>1, RunIs, GeneratorMoves

LEMMA StartStep == ASSUME RunInv, Runs!Start PROVE RunInv'
<1>1. /\ run.at = "new" /\ run \in Generators /\ provider \in Accounts
      /\ UNCHANGED <<provider, unknownUsage, modelCall, events, timer, runAborted, usage, text,
                     record>>
  BY RunIs DEF Runs!Start, Runs!Steps
<1>2. PICK place \in {"failing", "admission"}, g \in Generators :
         /\ run' = [g EXCEPT !.account = provider] /\ g.at = place /\ g.step = run.step
         /\ g.paused = run.paused /\ g.terminal = run.terminal
  <2>1. CASE runAborted
    <3> DEFINE g == [run EXCEPT !.at = "failing"]
    <3>1. run' = [g EXCEPT !.account = provider]
      BY <2>1 DEF Runs!Start, Runs!At
    <3>2. /\ g \in Generators /\ g.at = "failing" /\ g.step = run.step
          /\ g.paused = run.paused /\ g.terminal = run.terminal
      BY <1>1, AtIs DEF Runs!Places
    <3> HIDE DEF g
    <3> QED
      BY <3>1, <3>2
  <2>2. CASE ~runAborted
    <3> DEFINE g == [run EXCEPT !.at = "admission", !.suspended = TRUE, !.started = TRUE]
    <3>1. run' = [g EXCEPT !.account = provider]
      BY <2>2 DEF Runs!Start, Runs!Yields
    <3>2. /\ g \in Generators /\ g.at = "admission" /\ g.step = run.step
          /\ g.paused = run.paused /\ g.terminal = run.terminal
      BY ZenonT(30), <1>1, YieldsIs DEF Runs!Places
    <3> HIDE DEF g
    <3> QED
      BY <3>1, <3>2
  <2> QED
    BY <2>1, <2>2
<1>3. run' \in Generators
  BY <1>1, <1>2 DEF Generators
<1>4. /\ run'.at = place /\ run'.step = run.step /\ run'.paused = run.paused
      /\ run'.terminal = run.terminal
  BY <1>2 DEF Generators
<1>5. StepFits' /\ BudgetFits' /\ TimerFits'
  BY <1>1, <1>4, RunIs DEF StepFits, BudgetFits, TimerFits
<1> QED
  BY <1>1, <1>3, <1>4, <1>5, RunIs, GeneratorGoesTo

LEMMA AdmittedStep ==
    ASSUME RunInv, NEW granted \in BOOLEAN, Runs!Admitted(granted) PROVE RunInv'
<1>1. /\ run.at = "admission" /\ run \in Generators /\ timer \in BOOLEAN
      /\ UNCHANGED <<provider, unknownUsage, modelCall, events, runAborted, usage, text, record>>
  BY RunIs DEF Runs!Admitted, Runs!Steps
<1>2. CASE granted /\ ~runAborted
  <2>1. run' = [[run EXCEPT !.at = "context"] EXCEPT !.paused = FALSE] /\ timer' \in BOOLEAN
    BY <1>1, <1>2 DEF Runs!Admitted, Runs!At, Runs!Progressed
  <2>2. run' \in Generators
    BY <1>1, <2>1 DEF Generators, Runs!Places
  <2>3. /\ run'.at = "context" /\ run'.step = run.step /\ run'.paused = FALSE
        /\ run'.terminal = run.terminal
    BY <1>1, <2>1 DEF Generators
  <2>4. StepFits' /\ BudgetFits' /\ TimerFits'
    BY <1>1, <2>3, RunIs DEF StepFits, BudgetFits, TimerFits
  <2> QED
    BY <1>1, <2>1, <2>2, <2>3, <2>4, GeneratorGoesTo
<1>3. CASE ~(granted /\ ~runAborted)
  <2>1. run' = [run EXCEPT !.at = "failing"] /\ timer' = timer
    BY <1>3 DEF Runs!Admitted, Runs!At
  <2>2. /\ run' \in Generators /\ run'.at = "failing" /\ run'.step = run.step
        /\ run'.paused = run.paused /\ run'.terminal = run.terminal
    BY <1>1, <2>1, AtIs DEF Runs!Places
  <2>3. StepFits' /\ BudgetFits' /\ TimerFits'
    BY <1>1, <2>1, <2>2, RunIs DEF StepFits, BudgetFits, TimerFits
  <2> QED
    BY <1>1, <2>1, <2>2, <2>3, GeneratorGoesTo
<1> QED
  BY <1>2, <1>3

LEMMA GatherStep == ASSUME RunInv, NEW found \in BOOLEAN, Runs!Gather(found) PROVE RunInv'
<1>1. /\ run.at = "context" /\ run \in Generators /\ timer \in BOOLEAN
      /\ UNCHANGED <<provider, unknownUsage, modelCall, events, runAborted, usage, text, record>>
  BY RunIs DEF Runs!Gather, Runs!Steps
<1>2. PICK place \in {"failing", "step"} : run' = [run EXCEPT !.at = place]
  BY DEF Runs!Gather, Runs!At
<1>n. place \in Runs!Places
  BY DEF Runs!Places
<1>3. /\ run' \in Generators /\ run'.at = place /\ run'.step = run.step
      /\ run'.paused = run.paused /\ run'.terminal = run.terminal
  BY <1>1, <1>2, <1>n, AtIs
<1>4. timer' \in BOOLEAN
  BY <1>1 DEF Runs!Gather, Runs!Progressed
<1>5. StepFits' /\ BudgetFits' /\ TimerFits'
  BY <1>1, <1>3, RunIs, RunBounds DEF StepFits, BudgetFits, TimerFits
<1> QED
  BY <1>1, <1>3, <1>4, <1>5, GeneratorGoesTo

LEMMA RefusedStep == ASSUME RunInv, Runs!Refused PROVE RunInv'
<1>1. /\ run.at \in {"admission", "context", "authorizing"} /\ run' = [run EXCEPT !.at = "failing"]
      /\ UNCHANGED <<provider, unknownUsage, modelCall, events, timer, runAborted, usage, text,
                     record>>
  BY DEF Runs!Refused, Runs!Steps, Runs!At
<1>2. /\ run' \in Generators /\ run'.at = "failing" /\ run'.step = run.step
      /\ run'.paused = run.paused /\ run'.terminal = run.terminal
  BY <1>1, RunIs, AtIs DEF Runs!Places
<1>3. StepFits' /\ BudgetFits' /\ TimerFits'
  BY <1>1, <1>2, RunIs DEF StepFits, BudgetFits, TimerFits
<1> QED
  BY <1>1, <1>2, <1>3, RunIs, GeneratorGoesTo

\* The budget is checked before the application is asked.
LEMMA NextStepStep == ASSUME RunInv, Runs!NextStep PROVE RunInv'
<1>1. /\ run.at = "step" /\ run \in Generators /\ timer \in BOOLEAN
      /\ UNCHANGED <<provider, unknownUsage, modelCall, events, runAborted, usage, text, record>>
  BY RunIs DEF Runs!NextStep, Runs!Steps
<1>2. CASE runAborted \/ Runs!Reached(TRUE)
  <2>1. run' = [run EXCEPT !.at = "failing"] /\ timer' = timer
    BY <1>2 DEF Runs!NextStep, Runs!At
  <2>2. /\ run' \in Generators /\ run'.at = "failing" /\ run'.step = run.step
        /\ run'.paused = run.paused /\ run'.terminal = run.terminal
    BY <1>1, <2>1, AtIs DEF Runs!Places
  <2>3. StepFits' /\ BudgetFits' /\ TimerFits'
    BY <1>1, <2>1, <2>2, RunIs DEF StepFits, BudgetFits, TimerFits
  <2> QED
    BY <1>1, <2>1, <2>2, <2>3, GeneratorGoesTo
<1>3. CASE ~(runAborted \/ Runs!Reached(TRUE))
  <2> DEFINE n == run.step + 1
             g == [run EXCEPT !.at = "authorizing"]
  <2>1. run' = [g EXCEPT !.step = n, !.paused = TRUE] /\ timer' = FALSE
    BY <1>1, <1>3 DEF Runs!NextStep, Runs!At, Generators
  <2>2. n \in Nat /\ n <= MaxSteps
    BY <1>1, RunIs, RunBounds DEF StepFits
  <2>3. g \in Generators /\ g.at = "authorizing" /\ g.terminal = run.terminal
    BY <1>1, AtIs DEF Runs!Places
  <2> HIDE DEF n, g
  <2>4. run' \in Generators
    BY <2>1, <2>2, <2>3 DEF Generators
  <2>5. /\ run'.at = "authorizing" /\ run'.step = n /\ run'.paused = TRUE
        /\ run'.terminal = run.terminal
    BY <2>1, <2>3 DEF Generators
  <2>6. StepFits'
    BY <2>2, <2>5 DEF StepFits
  <2>7. usage.started > 0 => /\ usage.tokens < MaxTokens
                             /\ unknownUsage = "reject" => usage.reports = usage.started
    <3>1. usage.started > 0 => /\ ~(usage.tokens >= MaxTokens)
                               /\ ~(usage.reports < usage.started /\ unknownUsage = "reject")
      BY <1>3 DEF Runs!Reached
    <3>2. usage.reports <= usage.started
      BY RunIs DEF UsageFits
    <3> QED
      BY <3>1, <3>2, RunIs, RunBounds
  <2>8. BudgetFits' /\ TimerFits'
    BY <1>1, <2>1, <2>5, <2>7 DEF BudgetFits, TimerFits
  <2> QED
    BY <1>1, <2>1, <2>4, <2>5, <2>6, <2>8, GeneratorGoesTo
<1> QED
  BY <1>2, <1>3

LEMMA AuthorizedStep ==
    ASSUME RunInv, NEW allowed \in BOOLEAN, Runs!Authorized(allowed) PROVE RunInv'
<1>1. /\ run.at = "authorizing" /\ run \in Generators /\ timer \in BOOLEAN
      /\ UNCHANGED <<provider, unknownUsage, modelCall, events, runAborted, usage, text, record>>
  BY RunIs DEF Runs!Authorized, Runs!Steps
<1>2. run.terminal = "none" /\ modelCall.state = "none"
  BY <1>1, Midway
<1>3. CASE allowed /\ ~runAborted
  <2> DEFINE g == [run EXCEPT !.at = "model", !.suspended = TRUE, !.started = TRUE]
  <2>1. run' = [g EXCEPT !.paused = FALSE] /\ timer' \in BOOLEAN
    BY <1>1, <1>3 DEF Runs!Authorized, Runs!Yields, Runs!Progressed
  <2>2. g \in Generators /\ g.at = "model" /\ g.terminal = run.terminal /\ g.step = run.step
    BY <1>1, YieldsIs DEF Runs!Places
  <2> HIDE DEF g
  <2>3. run' \in Generators
    BY <2>1, <2>2 DEF Generators
  <2>4. /\ run'.at = "model" /\ run'.step = run.step /\ run'.paused = FALSE
        /\ run'.terminal = run.terminal
    BY <2>1, <2>2 DEF Generators
  <2>5. StepFits' /\ BudgetFits' /\ TimerFits'
    BY <1>1, <2>4, RunIs DEF StepFits, BudgetFits, TimerFits
  <2> QED
    BY <1>1, <1>2, <2>1, <2>3, <2>4, <2>5, RunIs, GeneratorMoves
<1>4. CASE ~(allowed /\ ~runAborted)
  <2>1. run' = [run EXCEPT !.at = "failing"] /\ timer' = timer
    BY <1>4 DEF Runs!Authorized, Runs!At
  <2>2. /\ run' \in Generators /\ run'.at = "failing" /\ run'.step = run.step
        /\ run'.paused = run.paused /\ run'.terminal = run.terminal
    BY <1>1, <2>1, AtIs DEF Runs!Places
  <2>3. StepFits' /\ BudgetFits' /\ TimerFits'
    BY <1>1, <2>1, <2>2, RunIs DEF StepFits, BudgetFits, TimerFits
  <2> QED
    BY <1>1, <2>1, <2>2, <2>3, GeneratorGoesTo
<1> QED
  BY <1>3, <1>4

-----------------------------------------------------------------------------
(* Partial sums of the queue *)

LEMMA BalanceOfNothing ==
    ASSUME NEW from \in Nat, NEW to \in Nat, Balance(<<>>, from, to) PROVE from = to
<1>1. PICK s \in [0 .. Len(<<>>) -> Counts] : s[0] = from /\ s[Len(<<>>)] = to
  BY DEF Balance
<1>2. Len(<<>>) = 0
  OBVIOUS
<1> QED
  BY <1>1, <1>2

LEMMA NothingBalances == ASSUME NEW from \in Nat PROVE Balance(<<>>, from, from)
<1> DEFINE s == [i \in 0 .. 0 |-> from]
<1>1. Len(<<>>) = 0 /\ 1 .. 0 = {}
  OBVIOUS
<1>2. s \in [0 .. 0 -> Nat] /\ s[0] = from
  OBVIOUS
<1> HIDE DEF s
<1>3. \A i \in 1 .. Len(<<>>) : s[i] = s[i - 1] + <<>>[i]
  BY <1>1
<1> QED
  BY <1>1, <1>2, <1>3 DEF Balance, Counts

LEMMA TailBalances ==
    ASSUME NEW q \in Seq(Nat), q # <<>>, NEW from \in Nat, NEW to \in Nat, Balance(q, from, to)
    PROVE  Balance(Tail(q), from + Head(q), to)
<1>1. PICK s \in [0 .. Len(q) -> Nat] :
         s[0] = from /\ s[Len(q)] = to /\ \A i \in 1 .. Len(q) : s[i] = s[i - 1] + q[i]
  BY DEF Balance, Counts
<1> DEFINE n == Len(q) - 1
           t == [i \in 0 .. n |-> s[i + 1]]
<1>2. /\ n \in Nat /\ Len(q) = n + 1 /\ Len(Tail(q)) = n /\ Head(q) = q[1]
      /\ \A i \in 1 .. n : Tail(q)[i] = q[i + 1]
  BY HeadTailProperties
<1>3. \A i \in 0 .. n : i + 1 \in 0 .. Len(q)
  BY <1>2
<1>4. t \in [0 .. n -> Nat]
  BY <1>3
<1>5. t[0] = s[1] /\ t[n] = s[n + 1]
  BY <1>2
<1>6. s[1] = from + Head(q) /\ s[n + 1] = to
  BY <1>1, <1>2
<1>7. \A i \in 1 .. n : t[i] = t[i - 1] + Tail(q)[i]
  <2> TAKE i \in 1 .. n
  <2>1. i + 1 \in 1 .. Len(q) /\ (i + 1) - 1 = i /\ i - 1 \in 0 .. n /\ i \in 0 .. n
        /\ (i - 1) + 1 = i
    BY <1>2
  <2>2. s[i + 1] = s[i] + q[i + 1]
    BY <1>1, <2>1
  <2>3. t[i] = s[i + 1] /\ t[i - 1] = s[i]
    BY <2>1
  <2> QED
    BY <1>2, <2>2, <2>3
<1> HIDE DEF t, n
<1> QED
  BY <1>2, <1>4, <1>5, <1>6, <1>7 DEF Balance, Counts

LEMMA AppendBalances ==
    ASSUME NEW q \in Seq(Nat), NEW from \in Nat, NEW to \in Nat, NEW p \in Nat, Balance(q, from, to)
    PROVE  Balance(Append(q, p), from, to + p)
<1>1. PICK s \in [0 .. Len(q) -> Nat] :
         s[0] = from /\ s[Len(q)] = to /\ \A i \in 1 .. Len(q) : s[i] = s[i - 1] + q[i]
  BY DEF Balance, Counts
<1> DEFINE n == Len(q)
           t == [i \in 0 .. n + 1 |-> IF i = n + 1 THEN to + p ELSE s[i]]
           r == Append(q, p)
<1>2. /\ n \in Nat /\ Len(r) = n + 1 /\ r[n + 1] = p
      /\ \A i \in 1 .. n : r[i] = q[i]
  BY AppendProperties
<1>3. t \in [0 .. n + 1 -> Nat]
  <2>1. \A i \in 0 .. n + 1 : i # n + 1 => i \in 0 .. n
    BY <1>2
  <2>2. to + p \in Nat
    OBVIOUS
  <2> QED
    BY <2>1, <2>2
<1>4. t[0] = from /\ t[n + 1] = to + p
  BY <1>1, <1>2
<1>5. \A i \in 1 .. n + 1 : t[i] = t[i - 1] + r[i]
  <2> TAKE i \in 1 .. n + 1
  <2>1. CASE i = n + 1
    <3>1. t[i] = to + p /\ t[i - 1] = s[n] /\ r[i] = p
      BY <1>2, <2>1
    <3> QED
      BY <1>1, <3>1
  <2>2. CASE i # n + 1
    <3>1. i \in 1 .. n /\ i - 1 \in 0 .. n + 1 /\ i - 1 # n + 1 /\ i \in 0 .. n + 1
      BY <1>2, <2>2
    <3>2. t[i] = s[i] /\ t[i - 1] = s[i - 1] /\ r[i] = q[i]
      BY <1>2, <2>2, <3>1
    <3> QED
      BY <1>1, <3>1, <3>2
  <2> QED
    BY <2>1, <2>2
<1> HIDE DEF t, r
<1>6. t \in [0 .. Len(r) -> Nat] /\ t[Len(r)] = to + p
      /\ \A i \in 1 .. Len(r) : t[i] = t[i - 1] + r[i]
  BY <1>2, <1>3, <1>4, <1>5
<1>7. Balance(r, from, to + p)
  BY <1>4, <1>6 DEF Balance, Counts
<1> QED
  BY <1>7 DEF r

\* Text joins the text at the end of the queue.
LEMMA JoinBalances ==
    ASSUME NEW q \in Seq(Nat), q # <<>>, NEW from \in Nat, NEW to \in Nat, NEW p \in Nat,
           Balance(q, from, to)
    PROVE  /\ [q EXCEPT ![Len(q)] = @ + p] \in Seq(Nat)
           /\ Len([q EXCEPT ![Len(q)] = @ + p]) = Len(q)
           /\ Balance([q EXCEPT ![Len(q)] = @ + p], from, to + p)
<1>1. PICK s \in [0 .. Len(q) -> Nat] :
         s[0] = from /\ s[Len(q)] = to /\ \A i \in 1 .. Len(q) : s[i] = s[i - 1] + q[i]
  BY DEF Balance, Counts
<1> DEFINE n == Len(q)
           t == [s EXCEPT ![n] = to + p]
           r == [q EXCEPT ![n] = q[n] + p]
<1>2. n \in Nat /\ n > 0 /\ n \in 1 .. n /\ q[n] + p \in Nat /\ q \in [1 .. n -> Nat]
  BY EmptySeq, LenProperties
<1>3. r \in [1 .. n -> Nat] /\ \A i \in 1 .. n : r[i] = IF i = n THEN q[n] + p ELSE q[i]
  BY <1>2
<1>4. r \in Seq(Nat) /\ Len(r) = n
  <2>1. r \in Seq(Nat)
    BY <1>2, ExceptSeq
  <2> HIDE DEF r, n
  <2>2. DOMAIN r = 1 .. n
    BY <1>3
  <2> QED
    BY <1>2, <2>1, <2>2, LenProperties
<1>5. /\ t \in [0 .. n -> Nat]
      /\ \A i \in 0 .. n : t[i] = IF i = n THEN to + p ELSE s[i]
  BY <1>2
<1> HIDE DEF t, r
<1>6. t[0] = from /\ t[n] = to + p
  <2>1. 0 \in 0 .. n /\ n \in 0 .. n /\ 0 # n
    BY <1>2
  <2>2. t[n] = to + p /\ t[0] = s[0]
    BY <1>5, <2>1
  <2> QED
    BY <1>1, <2>2
<1>7. \A i \in 1 .. n : t[i] = t[i - 1] + r[i]
  <2> TAKE i \in 1 .. n
  <2>1. i \in 0 .. n /\ i - 1 \in 0 .. n /\ i - 1 # n
    BY <1>2
  <2>2. t[i - 1] = s[i - 1] /\ s[i] = s[i - 1] + q[i] /\ s[i - 1] \in Nat /\ q[i] \in Nat
    BY <1>1, <1>2, <1>5, <2>1
  <2>3. CASE i = n
    <3>1. t[i] = to + p /\ r[i] = q[i] + p /\ s[i] = to
      BY <1>1, <1>3, <1>5, <2>1, <2>3
    <3>2. \A x, y, z \in Nat : (x + y) + z = x + (y + z)
      OBVIOUS
    <3>3. t[i] = (s[i - 1] + q[i]) + p
      BY <2>2, <3>1
    <3> QED
      BY <2>2, <3>1, <3>2, <3>3
  <2>4. CASE i # n
    <3>1. t[i] = s[i] /\ r[i] = q[i]
      BY <1>3, <1>5, <2>1, <2>4
    <3> QED
      BY <2>2, <3>1
  <2> QED
    BY <2>3, <2>4
<1>8. Balance(r, from, to + p)
  BY <1>4, <1>5, <1>6, <1>7 DEF Balance, Counts
<1> QED
  BY <1>4, <1>8 DEF r

-----------------------------------------------------------------------------
(* The model call, its provider and the consumer *)

\* A model call is made only of a budget that allows for it; its text begins anew.
LEMMA CallStep == ASSUME RunInv, Runs!Call PROVE RunInv'
<1>1. /\ run.at = "model" /\ modelCall.state = "none" /\ run \in Generators
      /\ UNCHANGED <<provider, unknownUsage, events, timer, runAborted, record>>
  BY RunIs DEF Runs!Call, Runs!Steps
<1>2. run.terminal = "none"
  BY <1>1, Midway
<1>3. CASE runAborted
  <2>1. run' = [run EXCEPT !.at = "failing"] /\ UNCHANGED <<modelCall, usage, text>>
    BY <1>3 DEF Runs!Call, Runs!At
  <2>2. /\ run' \in Generators /\ run'.at = "failing" /\ run'.step = run.step
        /\ run'.paused = run.paused /\ run'.terminal = run.terminal
    BY <1>1, <2>1, AtIs DEF Runs!Places
  <2>3. StepFits' /\ BudgetFits' /\ TimerFits'
    BY <1>1, <2>1, <2>2, RunIs DEF StepFits, BudgetFits, TimerFits
  <2> QED
    BY <1>1, <1>2, <2>1, <2>2, <2>3, RunIs, GeneratorMoves
<1>4. CASE ~runAborted
  <2> DEFINE n == usage.started + 1
  <2>1. /\ modelCall' = [modelCall EXCEPT !.state = "running"] /\ run' = run
        /\ usage' = [usage EXCEPT !.started = n] /\ text' = [emitted |-> 0, delivered |-> 0]
    BY <1>4 DEF Runs!Call
  <2>2. n \in Nat /\ usage.started < n /\ usage.completed < n
    BY RunIs DEF UsageFits
  <2> HIDE DEF n
  <2>3. usage' \in Usages
    BY <2>1, <2>2, RunIs DEF Usages
  <2>4. usage'.started = n /\ usage'.completed = usage.completed /\ usage'.reports = usage.reports
    BY <2>1, RunIs DEF Usages
  <2>5. modelCall' \in ModelCalls /\ modelCall'.state = "running"
    BY <2>1, RunIs DEF ModelCalls
  <2>6. text' \in Texts /\ text'.emitted = 0 /\ text'.delivered = 0
    BY <2>1 DEF Texts
  <2>7. events = <<>>
    BY <1>1, RunIs DEF CallFits
  <2>8. RunTypes'
    BY <1>1, <2>1, <2>3, <2>5, <2>6, RunIs DEF RunTypes
  <2>9. CallFits' /\ StepFits' /\ BudgetFits' /\ TimerFits'
    BY <1>1, <2>1, <2>5, RunIs DEF CallFits, StepFits, BudgetFits, TimerFits
  <2>10. UsageFits'
    BY <1>1, <2>1, <2>2, <2>4, RunIs DEF UsageFits
  <2>11. Balance(events, 0, 0)
    BY <2>7, NothingBalances
  <2>12. TextFits'
    BY <1>1, <1>2, <2>1, <2>6, <2>11 DEF TextFits
  <2> QED
    BY <2>8, <2>9, <2>10, <2>12 DEF RunInv
<1> QED
  BY <1>3, <1>4

LEMMA DrainStep == ASSUME RunInv, Runs!Drain PROVE RunInv'
<1> DEFINE d == text.delivered + Head(events)
           g == [run EXCEPT !.at = "model", !.suspended = TRUE, !.started = TRUE]
<1>1. /\ run.at = "model" /\ events # <<>> /\ events' = Tail(events)
      /\ text' = [text EXCEPT !.delivered = d] /\ run' = g
      /\ UNCHANGED <<provider, unknownUsage, modelCall, timer, runAborted, usage, record>>
  BY DEF Runs!Drain, Runs!Steps, Runs!Yields
<1>2. /\ run' \in Generators /\ run'.at = "model" /\ run'.step = run.step
      /\ run'.paused = run.paused /\ run'.terminal = run.terminal
  BY <1>1, RunIs, YieldsIs DEF Runs!Places
<1>3. run.terminal = "none"
  BY <1>1, Midway
<1>4. /\ Head(events) \in Nat /\ Tail(events) \in Seq(Nat) /\ Len(Tail(events)) <= MaxEvents
      /\ events \in Seq(Nat)
  <2>1. /\ events \in Seq(Nat) /\ Len(events) <= MaxEvents
    BY RunIs
  <2>2. Head(events) \in Nat /\ Tail(events) \in Seq(Nat) /\ Len(Tail(events)) = Len(events) - 1
    BY <1>1, <2>1, HeadTailProperties
  <2> QED
    BY <2>1, <2>2, RunBounds
<1>5. d \in Nat
  BY <1>4, RunIs
<1>6. ~runAborted => Balance(Tail(events), d, text.emitted)
  BY <1>1, <1>4, RunIs, TailBalances DEF TextFits
<1> HIDE DEF d, g
<1>7. text' \in Texts /\ text'.delivered = d /\ text'.emitted = text.emitted
  BY <1>1, <1>5, RunIs DEF Texts
<1>8. RunTypes'
  BY <1>1, <1>2, <1>4, <1>7, RunIs DEF RunTypes
<1>9. CallFits'
  BY <1>1, <1>2, RunIs DEF CallFits
<1>10. StepFits' /\ BudgetFits' /\ TimerFits' /\ UsageFits'
  BY <1>1, <1>2, RunIs DEF StepFits, BudgetFits, TimerFits, UsageFits
<1>11. TextFits'
  BY <1>1, <1>2, <1>3, <1>6, <1>7 DEF TextFits
<1> QED
  BY <1>8, <1>9, <1>10, <1>11 DEF RunInv

LEMMA SettleStep == ASSUME RunInv, Runs!Settle PROVE RunInv'
<1>1. /\ run.at = "model" /\ events = <<>> /\ modelCall.state \in {"returned", "threw"}
      /\ modelCall' = [modelCall EXCEPT !.state = "none"]
      /\ UNCHANGED <<provider, unknownUsage, events, timer, runAborted, usage, text, record>>
  BY DEF Runs!Settle, Runs!Steps
<1>2. PICK place \in {"turn", "failing"} : run' = [run EXCEPT !.at = place]
  BY DEF Runs!Settle, Runs!At
<1>3. place \in Runs!Places
  BY DEF Runs!Places
<1>4. /\ run' \in Generators /\ run'.at = place /\ run'.step = run.step
      /\ run'.paused = run.paused /\ run'.terminal = run.terminal
  BY <1>2, <1>3, RunIs, AtIs
<1>5. run.terminal = "none"
  BY <1>1, Midway
<1>6. modelCall' \in ModelCalls /\ modelCall'.state = "none"
  BY <1>1, RunIs DEF ModelCalls
<1>7. RunTypes'
  BY <1>1, <1>4, <1>6, RunIs DEF RunTypes
<1>8. CallFits' /\ StepFits' /\ BudgetFits' /\ TimerFits' /\ UsageFits'
  BY <1>1, <1>4, <1>6, RunIs DEF CallFits, StepFits, BudgetFits, TimerFits, UsageFits
<1>9. TextFits'
  BY <1>1, <1>4, <1>5, RunIs DEF TextFits, Balance
<1> QED
  BY <1>7, <1>8, <1>9 DEF RunInv

LEMMA TurnStepRuns == ASSUME RunInv, Runs!Turn PROVE RunInv'
<1> DEFINE c == usage.completed + 1
           r == IF modelCall.reported THEN usage.reports + 1 ELSE usage.reports
           k == IF modelCall.reported THEN usage.tokens + modelCall.tokens ELSE usage.tokens
<1>1. /\ run.at = "turn" /\ usage' = [usage EXCEPT !.completed = c, !.reports = r, !.tokens = k]
      /\ modelCall' = [modelCall EXCEPT !.tokens = 0, !.reported = FALSE]
      /\ UNCHANGED <<provider, unknownUsage, events, timer, runAborted, text, record>>
  BY DEF Runs!Turn, Runs!Steps
<1>2. /\ run' \in Generators /\ run'.at = "answered" /\ run'.step = run.step
      /\ run'.paused = run.paused /\ run'.terminal = run.terminal
  <2>1. "answered" \in Runs!Places /\ run \in Generators
    BY RunIs DEF Runs!Places
  <2>2. CASE run' = Runs!Yields("answered")
    <3>1. run' = [run EXCEPT !.at = "answered", !.suspended = TRUE, !.started = TRUE]
      BY <2>2 DEF Runs!Yields
    <3> QED
      BY <2>1, <3>1, YieldsIs
  <2>3. CASE run' = Runs!At("answered")
    <3>1. run' = [run EXCEPT !.at = "answered"]
      BY <2>3 DEF Runs!At
    <3> QED
      BY <2>1, <3>1, AtIs
  <2> QED
    BY <2>2, <2>3 DEF Runs!Turn
<1>3. run.terminal = "none" /\ modelCall.state = "none"
  BY <1>1, Midway
<1>4. /\ c \in Nat /\ r \in Nat /\ k \in Nat /\ r <= c /\ c <= usage.started
  <2> DEFINE S == usage.started
             C == usage.completed
             R == usage.reports
             K == usage.tokens
             T == modelCall.tokens
  <2>1. S \in Nat /\ C \in Nat /\ R \in Nat /\ K \in Nat /\ T \in Nat
    BY RunIs DEF ModelCalls
  <2>2. R <= C /\ C < S
    BY <1>1, RunIs DEF UsageFits
  <2>3. (r = R + 1 \/ r = R) /\ (k = K + T \/ k = K) /\ c = C + 1
    OBVIOUS
  <2> HIDE DEF S, C, R, K, T, c, r, k
  <2>4. /\ c \in Nat /\ r \in Nat /\ k \in Nat /\ r <= c /\ c <= S
    BY <2>1, <2>2, <2>3
  <2> QED
    BY <2>4 DEF S
<1> HIDE DEF c, r, k
<1>5. usage' \in Usages
  BY <1>1, <1>4, RunIs DEF Usages
<1>6. usage'.completed = c /\ usage'.reports = r /\ usage'.started = usage.started
  BY <1>1, RunIs DEF Usages
<1>7. modelCall' \in ModelCalls /\ modelCall'.state = "none"
  BY <1>1, <1>3, RunIs DEF ModelCalls
<1>8. RunTypes'
  BY <1>1, <1>2, <1>5, <1>7, RunIs DEF RunTypes
<1>9. CallFits' /\ StepFits' /\ BudgetFits' /\ TimerFits'
  BY <1>1, <1>2, <1>3, <1>7, RunIs DEF CallFits, StepFits, BudgetFits, TimerFits
<1>10. UsageFits'
  BY <1>2, <1>4, <1>6 DEF UsageFits
<1>11. TextFits'
  BY <1>1, <1>2, <1>3, RunIs DEF TextFits, Balance
<1> QED
  BY <1>8, <1>9, <1>10, <1>11 DEF RunInv

\* The text of a run that completes has left the queue.
LEMMA AnswerStep == ASSUME RunInv, NEW valid \in BOOLEAN, Runs!Answer(valid) PROVE RunInv'
<1>1. /\ run.at = "answered" /\ run \in Generators
      /\ UNCHANGED <<provider, unknownUsage, modelCall, events, timer, runAborted, usage, text,
                     record>>
  BY RunIs DEF Runs!Answer, Runs!Steps
<1>2. run.terminal = "none" /\ modelCall.state = "none" /\ events = <<>>
  BY <1>1, Midway
<1>3. CASE run' = [run EXCEPT !.at = "failing"]
  <2>1. /\ run' \in Generators /\ run'.at = "failing" /\ run'.step = run.step
        /\ run'.paused = run.paused /\ run'.terminal = run.terminal
    BY <1>1, <1>3, AtIs DEF Runs!Places
  <2>2. StepFits' /\ BudgetFits' /\ TimerFits'
    BY <1>1, <2>1, RunIs DEF StepFits, BudgetFits, TimerFits
  <2> QED
    BY <1>1, <2>1, <2>2, RunIs, GeneratorGoesTo
<1>4. CASE run' = [run EXCEPT !.at = "step"] /\ run.step # MaxSteps
  <2>1. /\ run' \in Generators /\ run'.at = "step" /\ run'.step = run.step
        /\ run'.paused = run.paused /\ run'.terminal = run.terminal
    BY <1>1, <1>4, AtIs DEF Runs!Places
  <2>2. StepFits' /\ BudgetFits' /\ TimerFits'
    BY <1>1, <1>4, <2>1, RunIs, RunBounds DEF StepFits, BudgetFits, TimerFits
  <2> QED
    BY <1>1, <2>1, <2>2, RunIs, GeneratorGoesTo
<1>5. CASE ~runAborted /\ run' = [Runs!Yields("closing") EXCEPT !.status = "completed",
                                                                !.terminal = "completed"]
  <2> DEFINE g == [run EXCEPT !.at = "closing", !.suspended = TRUE, !.started = TRUE]
  <2>1. run' = [g EXCEPT !.status = "completed", !.terminal = "completed"]
    BY <1>5 DEF Runs!Yields
  <2>2. /\ g \in Generators /\ g.at = "closing" /\ g.step = run.step /\ g.paused = run.paused
    BY <1>1, YieldsIs DEF Runs!Places
  <2> HIDE DEF g
  <2>3. run' \in Generators
    BY <2>1, <2>2 DEF Generators
  <2>4. /\ run'.at = "closing" /\ run'.step = run.step /\ run'.paused = run.paused
    BY <2>1, <2>2 DEF Generators
  <2>5. StepFits' /\ BudgetFits' /\ TimerFits'
    BY <1>1, <2>4, RunIs DEF StepFits, BudgetFits, TimerFits
  <2>6. text.delivered = text.emitted
    BY <1>2, <1>5, RunIs, BalanceOfNothing DEF TextFits
  <2> QED
    BY <1>1, <1>2, <2>3, <2>4, <2>5, <2>6, RunIs, GeneratorMoves
<1> QED
  BY <1>3, <1>4, <1>5 DEF Runs!Answer, Runs!At, Runs!Steps

LEMMA FailStep == ASSUME RunInv, Runs!Fail PROVE RunInv'
<1>1. /\ run.at = "failing" /\ run \in Generators
      /\ UNCHANGED <<provider, unknownUsage, modelCall, events, timer, runAborted, usage, text,
                     record>>
  BY RunIs DEF Runs!Fail, Runs!Steps
<1>2. run.terminal = "none" /\ modelCall.state = "none" /\ events = <<>>
  BY <1>1, Midway
<1>3. CASE run' = Runs!Yields("failing")
  <2>1. /\ run' \in Generators /\ run'.at = "failing" /\ run'.step = run.step
        /\ run'.paused = run.paused /\ run'.terminal = run.terminal
    BY <1>1, <1>3, YieldsIs DEF Runs!Places, Runs!Yields
  <2>2. StepFits' /\ BudgetFits' /\ TimerFits'
    BY <1>1, <2>1, RunIs DEF StepFits, BudgetFits, TimerFits
  <2> QED
    BY <1>1, <2>1, <2>2, RunIs, GeneratorGoesTo
<1>4. CASE run' # Runs!Yields("failing")
  <2> DEFINE g == [run EXCEPT !.at = "closing", !.suspended = TRUE, !.started = TRUE]
             how == IF runAborted THEN "cancelled" ELSE "failed"
  <2>1. run' = [g EXCEPT !.status = how, !.terminal = how]
    BY <1>4 DEF Runs!Yields, Runs!Fail
  <2>2. /\ g \in Generators /\ g.at = "closing" /\ g.step = run.step /\ g.paused = run.paused
    BY <1>1, YieldsIs DEF Runs!Places
  <2>3. how \in {"cancelled", "failed"}
    OBVIOUS
  <2> HIDE DEF g, how
  <2>4. run' \in Generators
    BY <2>1, <2>2, <2>3 DEF Generators
  <2>5. /\ run'.at = "closing" /\ run'.step = run.step /\ run'.paused = run.paused
        /\ run'.terminal # "completed"
    BY <2>1, <2>2, <2>3 DEF Generators
  <2>6. StepFits' /\ BudgetFits' /\ TimerFits'
    BY <1>1, <2>5, RunIs DEF StepFits, BudgetFits, TimerFits
  <2> QED
    BY <1>1, <1>2, <2>4, <2>5, <2>6, RunIs, GeneratorMoves
<1> QED
  BY <1>3, <1>4

LEMMA FinishRunStep == ASSUME RunInv, Runs!Finish PROVE RunInv'
<1> DEFINE state == IF modelCall.state = "running" THEN "left" ELSE "none"
<1>1. /\ run.at = "closing" /\ run' = [run EXCEPT !.at = "ended"] /\ timer' = FALSE
      /\ runAborted' = TRUE /\ record' = run.account
      /\ modelCall' = [modelCall EXCEPT !.state = state]
      /\ events' = <<>> /\ UNCHANGED <<provider, unknownUsage, usage, text>>
  BY DEF Runs!Finish, Runs!Steps, Runs!At
<1>2. /\ run' \in Generators /\ run'.at = "ended" /\ run'.step = run.step
      /\ run'.paused = run.paused /\ run'.terminal = run.terminal
      /\ run.account \in Accounts \cup {"none"}
  <2>1. run.account \in Accounts \cup {"none"}
    BY RunIs DEF Generators
  <2> QED
    BY <1>1, <2>1, RunIs, AtIs DEF Runs!Places
<1>3. state \in {"left", "none"}
  OBVIOUS
<1> HIDE DEF state
<1>4. modelCall' \in ModelCalls /\ modelCall'.state = state
  BY <1>1, <1>3, RunIs DEF ModelCalls
<1>5. RunTypes'
  <2>1. events' \in Seq(Nat) /\ Len(events') <= MaxEvents
    BY <1>1, RunBounds
  <2> QED
    BY <1>1, <1>2, <1>4, <2>1, RunIs DEF RunTypes
<1>6. CallFits' /\ StepFits' /\ BudgetFits' /\ TimerFits' /\ UsageFits'
  BY <1>1, <1>2, <1>3, <1>4, RunIs
     DEF CallFits, StepFits, BudgetFits, TimerFits, UsageFits
<1>7. TextFits'
  BY <1>1, <1>2, <1>3, <1>4, RunIs DEF TextFits
<1> QED
  BY <1>5, <1>6, <1>7 DEF RunInv

-----------------------------------------------------------------------------
(* The provider *)

\* Steps that leave the generator, its usage and its budget alone.
LEMMA ProgressIs ==
    ASSUME RunInv, timer' = Runs!Progressed(run.paused), modelCall.state = "running",
           UNCHANGED run
    PROVE  timer' \in BOOLEAN /\ TimerFits'
<1>1. run.at \in {"model", "closing"} /\ timer \in BOOLEAN /\ run.paused \in BOOLEAN
  BY RunIs DEF CallFits, Generators
<1>2. (timer' = timer) \/ (timer' = TRUE /\ ~run.paused)
  BY DEF Runs!Progressed
<1>3. timer' \in BOOLEAN
  BY <1>1, <1>2
<1>4. TimerFits'
  BY <1>1, <1>2, RunIs DEF TimerFits
<1> QED
  BY <1>3, <1>4

LEMMA EmitStep ==
    ASSUME RunInv, NEW pieces \in Nat, Runs!Emit(pieces) PROVE RunInv'
<1> DEFINE e == text.emitted + pieces
<1>1. /\ modelCall.state = "running" /\ ~runAborted
      /\ text' = [text EXCEPT !.emitted = e]
      /\ timer' = Runs!Progressed(run.paused)
      /\ UNCHANGED <<provider, unknownUsage, run, modelCall, usage, record>>
  BY DEF Runs!Emit
<1>2. timer' \in BOOLEAN /\ TimerFits'
  BY <1>1, ProgressIs
<1>3. e \in Nat
  BY RunIs
<1>4. /\ events \in Seq(Nat) /\ Len(events) <= MaxEvents
      /\ Balance(events, text.delivered, text.emitted)
  BY <1>1, RunIs DEF TextFits
<1>5. /\ events' \in Seq(Nat) /\ Len(events') <= MaxEvents /\ runAborted' \in BOOLEAN
      /\ ~runAborted' => Balance(events', text.delivered, e)
  <2>1. CASE Len(events) >= MaxEvents
    <3>1. runAborted' = TRUE /\ events' = events
      BY <2>1 DEF Runs!Emit
    <3> QED
      BY <1>4, <3>1
  <2>2. CASE ~(Len(events) >= MaxEvents) /\ events # <<>> /\ events' # Append(events, pieces)
    <3>1. /\ runAborted' = runAborted
          /\ events' = [events EXCEPT ![Len(events)] = @ + pieces]
      BY <2>2 DEF Runs!Emit
    <3>n. runAborted' \in BOOLEAN
      BY <3>1, RunIs
    <3>2. /\ [events EXCEPT ![Len(events)] = @ + pieces] \in Seq(Nat)
          /\ Len([events EXCEPT ![Len(events)] = @ + pieces]) = Len(events)
          /\ Balance([events EXCEPT ![Len(events)] = @ + pieces], text.delivered,
                     text.emitted + pieces)
      BY <1>4, <2>2, RunIs, JoinBalances
    <3> HIDE DEF e
    <3>3. events' \in Seq(Nat) /\ Len(events') <= MaxEvents
      BY <1>4, <3>1, <3>2
    <3>4. Balance(events', text.delivered, e)
      BY <3>1, <3>2 DEF e
    <3> QED
      BY <3>n, <3>3, <3>4
  <2>3. CASE ~(Len(events) >= MaxEvents) /\ events' = Append(events, pieces)
    <3>1. runAborted' \in BOOLEAN
      BY <2>3, RunIs DEF Runs!Emit
    <3>2. Balance(Append(events, pieces), text.delivered, text.emitted + pieces)
      BY <1>4, RunIs, AppendBalances
    <3>3. Append(events, pieces) \in Seq(Nat) /\ Len(Append(events, pieces)) = Len(events) + 1
      BY <1>4, AppendProperties
    <3>4. Len(events) \in Nat /\ Len(events) + 1 <= MaxEvents
      BY <1>4, <2>3, RunBounds
    <3>5. Balance(events', text.delivered, e)
      BY <2>3, <3>2
    <3> HIDE DEF e
    <3> QED
      BY <2>3, <3>1, <3>3, <3>4, <3>5
  <2>4. events # <<>> \/ events' = Append(events, pieces) \/ Len(events) >= MaxEvents
    BY DEF Runs!Emit
  <2> QED
    BY <2>1, <2>2, <2>3, <2>4
<1> HIDE DEF e
<1>6. text' \in Texts /\ text'.emitted = e /\ text'.delivered = text.delivered
  BY <1>1, <1>3, RunIs DEF Texts
<1>7. RunTypes'
  BY <1>1, <1>2, <1>5, <1>6, RunIs DEF RunTypes
<1>8. CallFits' /\ StepFits' /\ UsageFits' /\ BudgetFits'
  BY <1>1, RunIs DEF CallFits, StepFits, UsageFits, BudgetFits
<1>9. TextFits'
  BY <1>1, <1>5, <1>6, RunIs DEF TextFits
<1> QED
  BY <1>2, <1>7, <1>8, <1>9 DEF RunInv

\* The call's outcome: what the generator knows does not change.
LEMMA OutcomeStep ==
    ASSUME RunInv, modelCall.state = "running", modelCall' \in ModelCalls,
           modelCall'.state \in {"returned", "threw"}, timer' \in BOOLEAN, TimerFits',
           UNCHANGED <<provider, unknownUsage, run, events, runAborted, usage, text, record>>
    PROVE  RunInv'
<1>1. RunTypes'
  BY RunIs DEF RunTypes
<1>2. CallFits' /\ StepFits' /\ UsageFits' /\ BudgetFits'
  BY RunIs DEF CallFits, StepFits, UsageFits, BudgetFits
<1>3. TextFits'
  BY RunIs DEF TextFits, Balance
<1> QED
  BY <1>1, <1>2, <1>3 DEF RunInv

LEMMA ReturnStep ==
    ASSUME RunInv, NEW wants \in BOOLEAN, NEW tokens \in Tokens, NEW reported \in BOOLEAN,
           Runs!Return(wants, tokens, reported)
    PROVE  RunInv'
<1>1. /\ modelCall.state = "running" /\ timer' = Runs!Progressed(run.paused)
      /\ modelCall' = [state |-> "returned", calls |-> wants, tokens |-> tokens,
                       reported |-> reported]
      /\ UNCHANGED <<provider, unknownUsage, run, events, runAborted, usage, text, record>>
  BY DEF Runs!Return
<1>2. tokens \in Nat
  BY RunBounds
<1>3. modelCall' \in ModelCalls /\ modelCall'.state = "returned"
  BY <1>1, <1>2 DEF ModelCalls
<1>4. timer' \in BOOLEAN /\ TimerFits'
  BY <1>1, ProgressIs
<1> QED
  BY <1>1, <1>3, <1>4, OutcomeStep

LEMMA ThrowStep == ASSUME RunInv, Runs!Throw \/ Runs!Leave PROVE RunInv'
<1>1. /\ modelCall.state = "running" /\ modelCall' = [modelCall EXCEPT !.state = "threw"]
      /\ UNCHANGED <<provider, unknownUsage, run, events, timer, runAborted, usage, text, record>>
  BY DEF Runs!Throw, Runs!Leave
<1>2. modelCall' \in ModelCalls /\ modelCall'.state = "threw"
  BY <1>1, RunIs DEF ModelCalls
<1>3. timer' \in BOOLEAN /\ TimerFits'
  BY <1>1, RunIs DEF TimerFits
<1> QED
  BY <1>1, <1>2, <1>3, OutcomeStep

-----------------------------------------------------------------------------
(* The consumer and the world *)

LEMMA PullStep == ASSUME RunInv, Runs!Pull PROVE RunInv'
<1>1. /\ run' = [run EXCEPT !.suspended = FALSE]
      /\ UNCHANGED <<provider, unknownUsage, modelCall, events, timer, runAborted, usage, text,
                     record>>
  BY DEF Runs!Pull
<1>2. run' \in Generators
  BY <1>1, RunIs DEF Generators
<1>3. /\ run'.at = run.at /\ run'.step = run.step /\ run'.paused = run.paused
      /\ run'.terminal = run.terminal
  BY <1>1, RunIs DEF Generators
<1>4. StepFits' /\ BudgetFits' /\ TimerFits'
  BY <1>1, <1>3, RunIs DEF StepFits, BudgetFits, TimerFits
<1> QED
  BY <1>1, <1>2, <1>3, <1>4, RunIs, GeneratorMoves DEF CallFits, UsageFits, TextFits

LEMMA CloseRunStep == ASSUME RunInv, Runs!Close PROVE RunInv'
<1>1. /\ run.at \notin {"new", "ended"} /\ runAborted' = TRUE /\ run \in Generators
      /\ timer \in BOOLEAN
      /\ UNCHANGED <<provider, unknownUsage, modelCall, events, timer, usage, text, record>>
  BY RunIs DEF Runs!Close
<1>2. CASE run.suspended
  <2>1. run' = [run EXCEPT !.closed = TRUE, !.at = "closing", !.suspended = FALSE]
    BY <1>2 DEF Runs!Close
  <2>2. run' \in Generators
    BY <1>1, <2>1 DEF Generators, Runs!Places
  <2>3. /\ run'.at = "closing" /\ run'.step = run.step /\ run'.paused = run.paused
        /\ run'.terminal = run.terminal
    BY <1>1, <2>1 DEF Generators
  <2>4. StepFits' /\ BudgetFits' /\ TimerFits'
    BY <1>1, <2>3, RunIs DEF StepFits, BudgetFits, TimerFits
  <2> QED
    BY <1>1, <2>2, <2>3, <2>4, RunIs, GeneratorMoves DEF CallFits, TextFits
<1>3. CASE ~run.suspended
  <2>1. run' = run
    BY <1>3 DEF Runs!Close
  <2>2. StepFits' /\ BudgetFits' /\ TimerFits'
    BY <1>1, <2>1, RunIs DEF StepFits, BudgetFits, TimerFits
  <2> QED
    BY <1>1, <2>1, <2>2, RunIs, GeneratorMoves DEF CallFits, UsageFits, TextFits
<1> QED
  BY <1>2, <1>3

LEMMA SignalStep == ASSUME RunInv, Runs!Abort \/ Runs!Idle PROVE RunInv'
<1>1. /\ runAborted' = TRUE /\ timer' \in BOOLEAN /\ (timer' => timer)
      /\ UNCHANGED <<provider, unknownUsage, run, modelCall, events, usage, text, record>>
  <2>1. timer \in BOOLEAN
    BY RunIs
  <2>2. CASE Runs!Abort
    <3>1. UNCHANGED <<provider, unknownUsage, run, modelCall, events, timer, usage, text, record>>
          /\ runAborted' = TRUE
      BY <2>2 DEF Runs!Abort
    <3> QED
      BY <2>1, <3>1
  <2>3. CASE Runs!Idle
    <3>1. /\ runAborted' = TRUE /\ timer' = FALSE
          /\ UNCHANGED <<provider, unknownUsage, run, modelCall, events, usage, text, record>>
      BY <2>3 DEF Runs!Idle
    <3> QED
      BY <3>1
  <2> QED
    BY <2>2, <2>3
<1>2. StepFits' /\ BudgetFits' /\ TimerFits' /\ timer' \in BOOLEAN
  BY <1>1, RunIs DEF StepFits, BudgetFits, TimerFits
<1> QED
  BY <1>1, <1>2, RunIs, GeneratorMoves DEF CallFits, UsageFits, TextFits

LEMMA ConfigureStep == ASSUME RunInv, Runs!Configure PROVE RunInv'
<1>1. /\ provider' \in Accounts
      /\ UNCHANGED <<unknownUsage, run, modelCall, events, timer, runAborted, usage, text, record>>
  BY DEF Runs!Configure
<1>2. RunTypes'
  BY <1>1, RunIs DEF RunTypes
<1>3. CallFits' /\ StepFits' /\ UsageFits' /\ BudgetFits' /\ TimerFits'
  BY <1>1, RunIs DEF CallFits, StepFits, UsageFits, BudgetFits, TimerFits
<1>4. TextFits'
  BY <1>1, RunIs DEF TextFits, Balance
<1> QED
  BY <1>2, <1>3, <1>4 DEF RunInv

LEMMA RunNext == ASSUME RunInv, Runs!Next PROVE RunInv'
<1>1. CASE Runs!Generator
  <2>1. TRUE \in BOOLEAN /\ FALSE \in BOOLEAN
    OBVIOUS
  <2> QED
    BY <1>1, <2>1, StartStep, NextStepStep, CallStep, DrainStep, SettleStep, TurnStepRuns,
       FailStep, FinishRunStep, AnswerStep, AdmittedStep, GatherStep, AuthorizedStep
       DEF Runs!Generator
<1>2. CASE Runs!Provider
  <2>1. 0 \in Nat /\ 1 \in Nat
    OBVIOUS
  <2> QED
    BY <1>2, <2>1, EmitStep, ReturnStep, ThrowStep DEF Runs!Provider
<1>3. CASE Runs!World
  <2>1. TRUE \in BOOLEAN /\ FALSE \in BOOLEAN
    OBVIOUS
  <2> QED
    BY <1>3, <2>1, RejectStep, AdmittedStep, GatherStep, AuthorizedStep, RefusedStep,
       CloseRunStep, SignalStep, ConfigureStep DEF Runs!World
<1> QED
  BY <1>1, <1>2, <1>3, ThrowStep, PullStep DEF Runs!Next

LEMMA RunRests == ASSUME RunInv, UNCHANGED runVars PROVE RunInv'
<1>1. UNCHANGED <<provider, unknownUsage, run, modelCall, events, timer, runAborted, usage, text,
                  record>>
  BY DEF runVars
<1>2. RunTypes' /\ CallFits' /\ StepFits' /\ UsageFits' /\ BudgetFits' /\ TimerFits'
  BY <1>1, RunIs
     DEF RunInv, RunTypes, CallFits, StepFits, UsageFits, BudgetFits, TimerFits
<1>3. TextFits'
  BY <1>1, RunIs DEF TextFits, Balance
<1> QED
  BY <1>2, <1>3 DEF RunInv

LEMMA RunBegins == ASSUME Runs!Init PROVE RunInv
<1>1. run \in Generators /\ run.at = "new" /\ run.step = 0 /\ run.paused /\ run.terminal = "none"
  BY DEF Runs!Init, Generators, Runs!Places
<1>2. modelCall \in ModelCalls /\ modelCall.state = "none"
  BY DEF Runs!Init, ModelCalls
<1>3. /\ usage \in Usages /\ usage.started = 0 /\ usage.completed = 0 /\ usage.reports = 0
      /\ text \in Texts /\ text.emitted = 0 /\ text.delivered = 0
  BY DEF Runs!Init, Usages, Texts
<1>4. events = <<>> /\ events \in Seq(Nat) /\ Len(events) <= MaxEvents
  BY RunBounds DEF Runs!Init
<1>5. RunTypes
  BY <1>1, <1>2, <1>3, <1>4 DEF Runs!Init, RunTypes
<1>6. CallFits /\ StepFits /\ UsageFits
  BY <1>1, <1>2, <1>3, <1>4, RunBounds DEF CallFits, StepFits, UsageFits
<1>7. BudgetFits /\ TimerFits
  BY <1>1, <1>2, <1>3 DEF Runs!Init, BudgetFits, TimerFits
<1>8. TextFits
  BY <1>1, <1>3, <1>4, NothingBalances DEF TextFits
<1> QED
  BY <1>5, <1>6, <1>7, <1>8 DEF RunInv

LEMMA RunHolds == RequestsSpec => []RunInv
<1>1. RequestsInit => RunInv
  BY RunBegins DEF RequestsInit
<1>2. RunInv /\ [RequestsNext]_allVars => RunInv'
  BY RunNext, RunRests DEF RequestsNext, allVars
<1> QED
  BY <1>1, <1>2, PTL DEF RequestsSpec

\* A run that completes has delivered the text of its answer, and its idle timer runs only
\* while it waits for nobody else, for any budget, limit of steps and length of the queue
\* (src/src/driver.ts).
THEOREM RunsDeliverAll == RequestsSpec => []RunsAreWhole
<1>1. RunInv => RunsAreWhole
  <2> SUFFICES ASSUME RunInv PROVE RunsAreWhole
    OBVIOUS
  <2>1. Runs!TypeOK
    <3>1. run.at \in Runs!Places /\ run.step \in 0 .. MaxSteps
      BY RunIs, RunBounds DEF StepFits, Generators
    <3>2. usage.completed <= usage.started
      BY RunIs DEF UsageFits
    <3> QED
      BY <3>1, <3>2, RunIs DEF Runs!TypeOK
  <2>2. Runs!CompletedIsWhole /\ Runs!IdleIsOwn
    BY RunIs DEF TextFits, TimerFits, Runs!CompletedIsWhole, Runs!IdleIsOwn
  <2> QED
    BY <2>1, <2>2 DEF RunsAreWhole
<1> QED
  BY <1>1, RunHolds, PTL

-----------------------------------------------------------------------------
(* What a step may never do *)

SpendsStep ==
    usage'.started > usage.started /\ usage.started > 0 =>
        /\ usage.tokens < MaxTokens
        /\ unknownUsage = "reject" => usage.reports = usage.started
ChargesStep == record' # record => record' = run.account

\* Only a call spends, and only the end of a run charges.
LEMMA OthersSpendNothing ==
    ASSUME RunInv, Runs!Next, ~Runs!Call PROVE usage'.started = usage.started
<1>1. CASE UNCHANGED usage
  BY <1>1
<1>2. CASE Runs!Turn
  <2> DEFINE c == usage.completed + 1
             r == IF modelCall.reported THEN usage.reports + 1 ELSE usage.reports
             k == IF modelCall.reported THEN usage.tokens + modelCall.tokens ELSE usage.tokens
  <2>1. usage' = [usage EXCEPT !.completed = c, !.reports = r, !.tokens = k]
    BY <1>2 DEF Runs!Turn
  <2> HIDE DEF c, r, k
  <2> QED
    BY <2>1, RunIs DEF Usages
<1>3. UNCHANGED usage \/ Runs!Turn
  BY DEF Runs!Next, Runs!Generator, Runs!Provider, Runs!World, Runs!Start, Runs!NextStep,
         Runs!Drain, Runs!Settle, Runs!Fail, Runs!Finish, Runs!Answer, Runs!Admitted, Runs!Gather,
         Runs!Authorized, Runs!Emit, Runs!Return, Runs!Throw, Runs!Leave, Runs!Pull, Runs!Reject,
         Runs!Refused, Runs!Close, Runs!Abort, Runs!Idle, Runs!Configure
<1> QED
  BY <1>1, <1>2, <1>3

LEMMA SpendsAllowed == ASSUME RunInv, Runs!Next PROVE SpendsStep
<1>1. CASE ~Runs!Call
  <2>1. usage'.started = usage.started /\ usage.started \in Nat
    BY <1>1, RunIs, OthersSpendNothing
  <2>2. ~(usage'.started > usage.started)
    BY <2>1
  <2> QED
    BY <2>2 DEF SpendsStep
<1>2. CASE Runs!Call
  <2>1. run.at = "model" /\ modelCall.state = "none"
    BY <1>2 DEF Runs!Call, Runs!Steps
  <2> QED
    BY <2>1, RunIs DEF BudgetFits, SpendsStep
<1> QED
  BY <1>1, <1>2

LEMMA ChargesOwn == ASSUME Runs!Next PROVE ChargesStep
<1>1. UNCHANGED record \/ Runs!Finish
  BY DEF Runs!Next, Runs!Generator, Runs!Provider, Runs!World, Runs!Start, Runs!NextStep,
         Runs!Call, Runs!Turn,
         Runs!Drain, Runs!Settle, Runs!Fail, Runs!Answer, Runs!Admitted, Runs!Gather,
         Runs!Authorized, Runs!Emit, Runs!Return, Runs!Throw, Runs!Leave, Runs!Pull, Runs!Reject,
         Runs!Refused, Runs!Close, Runs!Abort, Runs!Idle, Runs!Configure
<1> QED
  BY <1>1 DEF Runs!Finish, ChargesStep

\* No model call begins once the tokens reported reach the budget, nor, when the budget
\* rejects unknown usage, after a call that did not report; and the record of a run names
\* the account that served it, whatever providers were configured meanwhile
\* (src/src/driver.ts).
THEOREM RunsKeepTheirBudget == RequestsSpec => BudgetBinds
<1>1. RunInv /\ [RequestsNext]_allVars
      => [SpendsStep]_Runs!driverVars /\ [ChargesStep]_Runs!driverVars
  BY SpendsAllowed, ChargesOwn DEF RequestsNext, allVars, runVars, Runs!driverVars
<1>2. RequestsSpec => [][SpendsStep]_Runs!driverVars /\ [][ChargesStep]_Runs!driverVars
  BY <1>1, RunHolds, PTL DEF RequestsSpec
<1> QED
  BY <1>2 DEF BudgetBinds, Runs!BudgetBinds, Runs!AccountIsKept, SpendsStep, ChargesStep

-----------------------------------------------------------------------------
(* The client: what it gives to the application is of the run.               *)

Sent == [run : {"mine", "other"}, sequence : Nat, type : Clients!Types, of : {"mine", "other"}]
Reads ==
    [at : {"idle", "asking", "reading", "given", "closing", "done", "failed", "closed"},
     run : {"none", "mine", "other"}, sequence : Nat, called : BOOLEAN,
     connection : {"none", "open", "broken", "closed"}]
Asked == [at : {"idle", "asked", "finished"}, after : Nat, limit : Nat]
Operating ==
    [at : {"idle", "sent", "done", "refused", "accepted", "failed"},
     kind : Clients!Kinds \cup {"none"}, target : Targets \cup {"none"}, did : BOOLEAN]

\* The envelopes of a run, with whatever payload.
TypesOf(l, r) == IF r = "mine" THEN l ELSE Clients!OtherLog
Genuine(l) ==
    {e \in Sent : /\ e.sequence \in 1 .. Len(TypesOf(l, e.run))
                  /\ e.type = TypesOf(l, e.run)[e.sequence]}

ClientTypes ==
    /\ use \in {"stream", "follow", "operate"}
    /\ log \in Seq(Clients!Types) /\ Len(log) <= MaxLog /\ faults \in 0 .. MaxFaults
    /\ wire \in Seq(Genuine(log)) /\ seen \in Seq(Genuine(log))
    /\ stream \in Reads /\ page \in Asked /\ calls \in [{1, 2} -> Operating]

\* The log ends at a terminal event, and a client does one thing.
LogFits == \A n \in 1 .. Len(log) : log[n] \in Clients!Terminal => n = Len(log)
UseFits ==
    /\ use # "stream" => stream.at = "idle" /\ stream.connection = "none"
    /\ use # "follow" => page.at = "idle"

\* s is what is shown of the first k events of a run.
Shown(l, r, k, s) ==
    /\ r = "none" => s = <<>> /\ k = 0
    /\ r # "none" => k \in 1 .. Len(TypesOf(l, r))
    /\ \A n \in 1 .. Len(s) :
          /\ s[n].run = r /\ s[n].sequence <= k /\ s[n].type # "note"
          /\ s[n].type \in Clients!Named => s[n].of = r
    /\ \A m, n \in 1 .. Len(s) : m < n => s[m].sequence < s[n].sequence
    /\ \A i \in 1 .. k : TypesOf(l, r)[i] # "note" => \E n \in 1 .. Len(s) : s[n].sequence = i

\* After a terminal event nothing follows; one call at most is shown.
EndFits(read, s) ==
    /\ \A n \in 1 .. Len(s) : s[n].type \in Clients!Terminal =>
          n = Len(s) /\ read.at \in {"given", "done", "closed"}
    /\ read.at \in {"given", "done"} => s # <<>>
    /\ read.at = "done" => s[Len(s)].type \in Clients!Terminal
    /\ read.at \in {"done", "failed", "closed"} => read.connection # "open"
    /\ \A n \in 1 .. Len(s) : s[n].type = "call" => read.called
    /\ \A m, n \in 1 .. Len(s) : s[m].type = "call" /\ s[n].type = "call" => m = n

StreamFits == use = "stream" => Shown(log, stream.run, stream.sequence, seen) /\ EndFits(stream, seen)

PageFits ==
    use = "follow" =>
        /\ page.after = Len(seen) /\ page.after <= Len(log)
        /\ \A n \in 1 .. Len(seen) : seen[n] = Clients!Event("mine", n, log[n])
        /\ page.at = "finished" => /\ page.after = Len(log) /\ log # <<>>
                                   /\ log[Len(log)] \in Clients!Terminal

CallsFit ==
    /\ \A c \in {1, 2} : calls[c].at \in {"idle", "sent"} => ~calls[c].did
    /\ \A c \in {1, 2} : calls[c].at = "accepted" =>
          \E d \in {1, 2} : /\ calls[d].did
                            /\ calls[d].kind = calls[c].kind /\ calls[d].target = calls[c].target

ClientInv == ClientTypes /\ LogFits /\ UseFits /\ StreamFits /\ PageFits /\ CallsFit

LEMMA WireBounds == /\ MaxLog \in Nat /\ MaxWire \in Nat /\ MaxFaults \in Nat
                    /\ Limits \subseteq Nat
BY RequestsAssumption

LEMMA ClientIs ==
    ASSUME ClientInv
    PROVE  /\ ClientTypes /\ LogFits /\ UseFits /\ StreamFits /\ PageFits /\ CallsFit
           /\ use \in {"stream", "follow", "operate"}
           /\ log \in Seq(Clients!Types) /\ Len(log) <= MaxLog /\ faults \in 0 .. MaxFaults
           /\ wire \in Seq(Genuine(log)) /\ seen \in Seq(Genuine(log))
           /\ stream \in Reads /\ page \in Asked /\ calls \in [{1, 2} -> Operating]
           /\ Len(log) \in Nat /\ Len(seen) \in Nat
           /\ stream.run \in {"none", "mine", "other"} /\ stream.sequence \in Nat
           /\ stream.at \in {"idle", "asking", "reading", "given", "closing", "done", "failed",
                             "closed"}
           /\ stream.called \in BOOLEAN
           /\ page.after \in Nat /\ page.limit \in Nat
BY DEF ClientInv, ClientTypes, Reads, Asked

LEMMA OtherTypes ==
    /\ Clients!OtherLog \in Seq(Clients!Types) /\ Len(Clients!OtherLog) = 3
    /\ DOMAIN Clients!OtherLog = 1 .. 3
    /\ \A i \in 1 .. 3 : Clients!OtherLog[i] \in Clients!Types
<1>1. Clients!OtherLog \in Seq(Clients!Types) /\ Len(Clients!OtherLog) = 3
  BY DEF Clients!OtherLog, Clients!Types, Clients!Terminal
<1>2. DOMAIN Clients!OtherLog = 1 .. 3
  BY <1>1, LenProperties
<1> QED
  BY <1>1, <1>2, ElementOfSeq

LEMMA GenuineGrows ==
    ASSUME NEW l \in Seq(Clients!Types), NEW type \in Clients!Types
    PROVE  /\ Genuine(l) \subseteq Genuine(Append(l, type))
           /\ Seq(Genuine(l)) \subseteq Seq(Genuine(Append(l, type)))
<1> DEFINE g == Append(l, type)
<1>1. /\ Len(l) \in Nat /\ Len(g) = Len(l) + 1
      /\ \A n \in 1 .. Len(l) : g[n] = l[n] /\ n \in 1 .. Len(g)
  BY AppendProperties
<1> HIDE DEF g
<1>2. ASSUME NEW e \in Genuine(l) PROVE e \in Genuine(g)
  <2>1. CASE e.run = "mine"
    BY <1>1, <2>1 DEF Genuine, TypesOf
  <2>2. CASE e.run # "mine"
    BY <2>2 DEF Genuine, TypesOf
  <2> QED
    BY <2>1, <2>2
<1>3. Genuine(l) \subseteq Genuine(g)
  BY <1>2
<1>4. Seq(Genuine(l)) \subseteq Seq(Genuine(g))
  BY <1>3
<1> QED
  BY <1>3, <1>4 DEF g

LEMMA ShownGrows ==
    ASSUME NEW l \in Seq(Clients!Types), NEW type \in Clients!Types, NEW r, NEW k \in Nat,
           NEW s, Shown(l, r, k, s)
    PROVE  Shown(Append(l, type), r, k, s)
<1> DEFINE g == Append(l, type)
<1>1. /\ Len(l) \in Nat /\ Len(g) = Len(l) + 1
      /\ \A n \in 1 .. Len(l) : g[n] = l[n] /\ n \in 1 .. Len(g)
  BY AppendProperties
<1> HIDE DEF g
<1>2. Shown(g, r, k, s)
  <2>1. CASE r = "mine"
    <3>1. k \in 1 .. Len(l) /\ \A i \in 1 .. k : i \in 1 .. Len(l) /\ g[i] = l[i]
      BY <1>1, <2>1 DEF Shown, TypesOf
    <3> QED
      BY <1>1, <2>1, <3>1 DEF Shown, TypesOf
  <2>2. CASE r # "mine"
    BY <2>2 DEF Shown, TypesOf
  <2> QED
    BY <2>1, <2>2
<1> QED
  BY <1>2 DEF g

\* The next event of the run: a note is skipped, what else comes is shown.
LEMMA ShownSkips ==
    ASSUME NEW l \in Seq(Clients!Types), NEW r, NEW k \in Nat, NEW s, Shown(l, r, k, s),
           s \in Seq(Genuine(l)),
           NEW e \in Genuine(l), r \in {"none", e.run}, e.sequence = k + 1, e.type = "note"
    PROVE  Shown(l, e.run, k + 1, s)
<1>1. e.run \in {"mine", "other"} /\ k + 1 \in 1 .. Len(TypesOf(l, e.run))
      /\ TypesOf(l, e.run)[k + 1] = "note"
  BY DEF Genuine, Sent
<1>2. CASE r = "none"
  <2>1. s = <<>> /\ k = 0 /\ 1 .. Len(s) = {}
    BY <1>2 DEF Shown
  <2> HIDE DEF Shown
  <2>2. \A i \in 1 .. k + 1 : i = k + 1
    BY <2>1
  <2> QED
    BY <1>1, <2>1, <2>2 DEF Shown
<1>3. CASE r = e.run
  <2>1. \A i \in 1 .. k + 1 : i \in 1 .. k \/ i = k + 1
    OBVIOUS
  <2>2. \A n \in 1 .. Len(s) : s[n].sequence \in Nat
    BY DEF Genuine, Sent
  <2>3. \A n \in 1 .. Len(s) : s[n].sequence <= k + 1
    BY <2>2 DEF Shown
  <2> QED
    BY <1>1, <1>3, <2>1, <2>3 DEF Shown
<1> QED
  BY <1>2, <1>3

LEMMA ShownNext ==
    ASSUME NEW l \in Seq(Clients!Types), NEW r, NEW k \in Nat, NEW s, Shown(l, r, k, s),
           s \in Seq(Genuine(l)),
           NEW e \in Genuine(l), r \in {"none", e.run}, e.sequence = k + 1, e.type # "note",
           e.type \in Clients!Named => e.of = e.run
    PROVE  Shown(l, e.run, k + 1, Append(s, e))
<1> DEFINE t == Append(s, e)
           L == Len(s)
<1>1. e.run \in {"mine", "other"} /\ k + 1 \in 1 .. Len(TypesOf(l, e.run))
  BY DEF Genuine, Sent
<1>2. L \in Nat /\ Len(t) = L + 1 /\ t[L + 1] = e /\ \A n \in 1 .. L : t[n] = s[n]
  BY AppendProperties
<1>3. \A n \in 1 .. L + 1 : n \in 1 .. L \/ n = L + 1
  BY <1>2
<1>4. \A n \in 1 .. L : s[n].sequence \in Nat /\ s[n].sequence <= k /\ s[n].run = e.run
                        /\ s[n].type # "note"
                        /\ (s[n].type \in Clients!Named => s[n].of = e.run)
  <2>1. CASE r = "none"
    <3>1. 1 .. L = {}
      BY <2>1 DEF Shown
    <3> QED
      BY <3>1
  <2>2. CASE r = e.run
    BY <2>2 DEF Shown, Genuine, Sent
  <2> QED
    BY <2>1, <2>2
<1>5. \A i \in 1 .. k : TypesOf(l, e.run)[i] # "note" => \E n \in 1 .. L : s[n].sequence = i
  <2>1. CASE r = "none"
    <3>1. 1 .. k = {}
      BY <2>1 DEF Shown
    <3> QED
      BY <3>1
  <2>2. CASE r = e.run
    BY <2>2 DEF Shown
  <2> QED
    BY <2>1, <2>2
<1>6. \A m, n \in 1 .. L : m < n => s[m].sequence < s[n].sequence
  BY DEF Shown
<1> HIDE DEF t, L, Shown
<1>7. \A n \in 1 .. L + 1 : t[n].run = e.run /\ t[n].sequence <= k + 1 /\ t[n].type # "note"
                            /\ (t[n].type \in Clients!Named => t[n].of = e.run)
  <2> TAKE n \in 1 .. L + 1
  <2>1. CASE n \in 1 .. L
    <3>1. s[n].sequence <= k + 1
      BY <1>4, <2>1
    <3> QED
      BY <1>2, <1>4, <2>1, <3>1
  <2>2. CASE n = L + 1
    BY <1>2, <2>2
  <2> QED
    BY <1>3, <2>1, <2>2
<1>8. \A m, n \in 1 .. L + 1 : m < n => t[m].sequence < t[n].sequence
  <2> TAKE m, n \in 1 .. L + 1
  <2> HAVE m < n
  <2>1. m \in 1 .. L
    BY <1>2
  <2>2. CASE n \in 1 .. L
    BY <1>2, <1>6, <2>1, <2>2
  <2>3. CASE n = L + 1
    <3>1. s[m].sequence < k + 1
      BY <1>4, <2>1
    <3> QED
      BY <1>2, <2>1, <2>3, <3>1
  <2> QED
    BY <1>3, <2>2, <2>3
<1>9. \A i \in 1 .. k + 1 : TypesOf(l, e.run)[i] # "note" =>
         \E n \in 1 .. L + 1 : t[n].sequence = i
  <2> TAKE i \in 1 .. k + 1
  <2> HAVE TypesOf(l, e.run)[i] # "note"
  <2>1. CASE i = k + 1
    BY <1>2, <2>1
  <2>2. CASE i # k + 1
    <3>1. i \in 1 .. k
      BY <2>2
    <3>2. PICK n \in 1 .. L : s[n].sequence = i
      BY <1>5, <3>1
    <3>3. n \in 1 .. L + 1 /\ t[n] = s[n]
      BY <1>2
    <3> QED
      BY <3>2, <3>3
  <2> QED
    BY <2>1, <2>2
<1>10. Shown(l, e.run, k + 1, t)
  BY <1>1, <1>2, <1>7, <1>8, <1>9 DEF Shown
<1> QED
  BY <1>10 DEF t

-----------------------------------------------------------------------------
(* The run, and the stream of its events *)

\* Steps of the stream alone.
LEMMA StreamMoves ==
    ASSUME ClientInv, UNCHANGED <<use, log, page, calls>>, faults' \in 0 .. MaxFaults,
           wire' \in Seq(Genuine(log)), seen' \in Seq(Genuine(log)), stream' \in Reads,
           use # "stream" => stream'.at = "idle" /\ stream'.connection = "none" /\ seen' = seen,
           use = "stream" =>
              Shown(log, stream'.run, stream'.sequence, seen') /\ EndFits(stream', seen')
    PROVE  ClientInv'
<1>1. ClientTypes' /\ LogFits' /\ UseFits' /\ CallsFit'
  BY ClientIs DEF ClientTypes, LogFits, UseFits, CallsFit
<1>2. StreamFits'
  BY DEF StreamFits, Shown, EndFits
<1>3. PageFits'
  BY ClientIs DEF PageFits
<1> QED
  BY <1>1, <1>2, <1>3 DEF ClientInv

\* What was shown stays, the connection or the place changes.
LEMMA StreamTurns ==
    ASSUME ClientInv, UNCHANGED <<use, log, seen, page, calls>>, faults' \in 0 .. MaxFaults,
           wire' \in Seq(Genuine(log)), stream' \in Reads, use = "stream",
           stream'.run = stream.run, stream'.sequence = stream.sequence,
           EndFits(stream', seen)
    PROVE  ClientInv'
BY ClientIs, StreamMoves DEF StreamFits

LEMMA LogGrowsStep ==
    ASSUME ClientInv, NEW type \in Clients!Types, Clients!Produce(type) PROVE ClientInv'
<1> DEFINE n == Len(log) + 1
<1>1. /\ Len(log) < MaxLog /\ log' = Append(log, type)
      /\ wire' = wire \/ wire' = Append(wire, Clients!Event("mine", n, type))
      /\ UNCHANGED <<use, faults, stream, seen, page, calls>>
  BY DEF Clients!Produce
<1>2. log # <<>> => log[Len(log)] \notin Clients!Terminal
  BY DEF Clients!Produce, Clients!Ended, Clients!Last
<1>3. /\ log' \in Seq(Clients!Types) /\ Len(log') = n /\ log'[n] = type
      /\ \A i \in 1 .. Len(log) : log'[i] = log[i] /\ log \in Seq(Clients!Types)
  BY <1>1, ClientIs, AppendProperties
<1>4. Len(log) \in Nat /\ n \in Nat /\ n <= MaxLog /\ n \in 1 .. n
  BY <1>1, ClientIs, WireBounds
<1>5. wire \in Seq(Genuine(log')) /\ seen' \in Seq(Genuine(log'))
  BY <1>1, ClientIs, GenuineGrows
<1>6. Clients!Event("mine", n, type) \in Genuine(log')
  BY <1>3, <1>4 DEF Clients!Event, Genuine, Sent, TypesOf
<1>7. wire' \in Seq(Genuine(log'))
  BY <1>1, <1>5, <1>6, AppendProperties
<1>8. ClientTypes'
  BY <1>1, <1>3, <1>4, <1>5, <1>7, ClientIs DEF ClientTypes
<1>9. LogFits'
  <2> SUFFICES ASSUME NEW i \in 1 .. n, log'[i] \in Clients!Terminal PROVE i = n
    BY <1>3 DEF LogFits
  <2>1. CASE i # n
    <3>1. i \in 1 .. Len(log) /\ log # <<>>
      BY <1>4, <2>1, ClientIs
    <3>2. log[i] \in Clients!Terminal
      BY <1>3, <3>1
    <3> QED
      BY <1>2, <3>1, <3>2, ClientIs DEF LogFits
  <2> QED
    BY <2>1
<1>10. UseFits' /\ CallsFit'
  BY <1>1, ClientIs DEF UseFits, CallsFit
<1>11. StreamFits'
  <2> SUFFICES ASSUME use = "stream"
               PROVE  Shown(log', stream.run, stream.sequence, seen) /\ EndFits(stream, seen)
    BY <1>1 DEF StreamFits, Shown, EndFits
  <2>1. Shown(log, stream.run, stream.sequence, seen) /\ EndFits(stream, seen)
    BY ClientIs DEF StreamFits
  <2> QED
    BY <1>1, <2>1, ClientIs, ShownGrows
<1>12. PageFits'
  <2> SUFFICES ASSUME use = "follow"
               PROVE  /\ page.after = Len(seen) /\ page.after <= n
                      /\ \A i \in 1 .. Len(seen) : seen[i] = Clients!Event("mine", i, log'[i])
                      /\ page.at # "finished"
    BY <1>1, <1>3 DEF PageFits, Clients!Event
  <2>1. /\ page.after = Len(seen) /\ page.after <= Len(log) /\ page.after \in Nat
        /\ \A i \in 1 .. Len(seen) : seen[i] = Clients!Event("mine", i, log[i])
        /\ page.at # "finished"
    BY <1>2, ClientIs DEF PageFits
  <2>2. page.after <= n /\ \A i \in 1 .. Len(seen) : i \in 1 .. Len(log)
    BY <1>4, <2>1
  <2> QED
    BY <1>3, <2>1, <2>2
<1> QED
  BY <1>8, <1>9, <1>10, <1>11, <1>12 DEF ClientInv

\* Whatever the proxies do, what is on its way was sent, but for its payload.
LEMMA SpoilStep == ASSUME ClientInv, Clients!Spoil PROVE ClientInv'
<1> DEFINE G == Genuine(log)
<1>1. /\ faults < MaxFaults /\ wire # <<>> /\ faults' = faults + 1
      /\ UNCHANGED <<use, log, stream, seen, page, calls>>
  BY DEF Clients!Spoil
<1>2. wire \in Seq(G) /\ faults' \in 0 .. MaxFaults
  BY <1>1, ClientIs, WireBounds
<1>3. Head(wire) \in G /\ Tail(wire) \in Seq(G) /\ <<Head(wire)>> \in Seq(G)
  BY <1>1, <1>2, HeadTailProperties
<1>4. wire' \in Seq(G)
  <2>1. CASE wire' = Tail(wire)
    BY <1>3, <2>1
  <2>2. CASE wire' = <<Head(wire)>> \o wire
    BY <1>2, <1>3, <2>2, ConcatProperties
  <2>3. CASE wire' = Tail(wire) \o <<Head(wire)>>
    BY <1>3, <2>3, ConcatProperties
  <2>4. CASE \E e \in Clients!Range(Clients!LogOf("other")) : wire' = <<e>> \o wire
    <3>1. PICK e \in Clients!Range(Clients!LogOf("other")) : wire' = <<e>> \o wire
      BY <2>4
    <3>2. PICK i \in DOMAIN Clients!OtherLog : e = Clients!Event("other", i, Clients!OtherLog[i])
      BY <3>1 DEF Clients!Range, Clients!LogOf, Clients!Events
    <3>3. i \in 1 .. 3 /\ Clients!OtherLog[i] \in Clients!Types
      BY <3>2, OtherTypes
    <3>n. /\ e \in Sent /\ e.run = "other" /\ e.sequence = i
          /\ e.type = Clients!OtherLog[i]
      BY <3>2, <3>3 DEF Clients!Event, Sent
    <3>4. e \in G
      BY <3>3, <3>n, OtherTypes DEF Genuine, TypesOf
    <3> QED
      BY <1>2, <3>1, <3>4, ConcatProperties
  <2>5. CASE wire' = [wire EXCEPT ![1].of = "other"]
    <3> DEFINE h == [wire[1] EXCEPT !.of = "other"]
    <3>1. 1 \in 1 .. Len(wire) /\ wire[1] \in G
      BY <1>1, <1>2, <1>3, HeadTailProperties
    <3>2. h \in Sent
      BY <3>1 DEF Genuine, Sent
    <3>3. h.run = wire[1].run /\ h.sequence = wire[1].sequence /\ h.type = wire[1].type
      BY <3>1 DEF Genuine, Sent
    <3>4. h \in G
      BY <3>1, <3>2, <3>3 DEF Genuine
    <3>5. wire' = [wire EXCEPT ![1] = h]
      BY <2>5
    <3> HIDE DEF h, G
    <3> QED
      BY <1>2, <3>1, <3>4, <3>5, ExceptSeq
  <2> QED
    BY <2>1, <2>2, <2>3, <2>4, <2>5 DEF Clients!Spoil
<1>5. use # "stream" => stream.at = "idle" /\ stream.connection = "none"
  BY ClientIs DEF UseFits
<1>6. use = "stream" => Shown(log, stream.run, stream.sequence, seen) /\ EndFits(stream, seen)
  BY ClientIs DEF StreamFits
<1> QED
  BY <1>1, <1>2, <1>4, <1>5, <1>6, ClientIs, StreamMoves

\* A generator that is over has given what it has given.
LEMMA OverIs ==
    ASSUME ClientInv, NEW how \in {"done", "failed", "closed"}, Clients!Over(how),
           use = "stream",
           how = "done" => seen # <<>> /\ seen[Len(seen)].type \in Clients!Terminal,
           how = "failed" => stream.at \notin {"given", "done", "closed"}
    PROVE  /\ stream' \in Reads /\ stream'.run = stream.run
           /\ stream'.sequence = stream.sequence /\ EndFits(stream', seen)
<1>1. stream' = [stream EXCEPT !.at = how, !.connection = "closed"] /\ stream \in Reads
  BY ClientIs DEF Clients!Over
<1>2. stream' \in Reads
  BY <1>1 DEF Reads
<1>3. /\ stream'.at = how /\ stream'.connection = "closed" /\ stream'.run = stream.run
      /\ stream'.sequence = stream.sequence /\ stream'.called = stream.called
  BY <1>1 DEF Reads
<1>4. EndFits(stream, seen)
  BY ClientIs DEF StreamFits
<1>5. EndFits(stream', seen)
  BY <1>3, <1>4 DEF EndFits
<1> QED
  BY <1>2, <1>3, <1>5

\* Only a client that streams has a generator.
LEMMA Streaming ==
    ASSUME ClientInv, stream.at # "idle" \/ stream.connection # "none"
    PROVE  use = "stream" /\ EndFits(stream, seen)
           /\ Shown(log, stream.run, stream.sequence, seen)
BY ClientIs DEF UseFits, StreamFits

LEMMA AskStep == ASSUME ClientInv, Clients!Ask PROVE ClientInv'
<1>1. /\ use = "stream" /\ stream.at = "idle" /\ stream' = [stream EXCEPT !.at = "asking"]
      /\ UNCHANGED <<use, log, wire, faults, seen, page, calls>>
  BY DEF Clients!Ask
<1>2. stream' \in Reads
  BY <1>1, ClientIs DEF Reads
<1>3. /\ stream'.at = "asking" /\ stream'.connection = stream.connection
      /\ stream'.run = stream.run
      /\ stream'.sequence = stream.sequence /\ stream'.called = stream.called
  BY <1>1, ClientIs DEF Reads
<1>4. EndFits(stream', seen)
  BY <1>1, <1>3, ClientIs DEF StreamFits, EndFits
<1> QED
  BY <1>1, <1>2, <1>3, <1>4, ClientIs, StreamTurns

LEMMA AnswerAskStep == ASSUME ClientInv, Clients!Answer PROVE ClientInv'
<1>1. /\ stream.at = "asking"
      /\ UNCHANGED <<use, log, wire, faults, seen, page, calls>>
  BY DEF Clients!Answer
<1>2. use = "stream" /\ EndFits(stream, seen)
  BY <1>1, Streaming
<1>3. CASE Clients!Over("failed")
  <2>1. /\ stream' \in Reads /\ stream'.run = stream.run
        /\ stream'.sequence = stream.sequence /\ EndFits(stream', seen)
    BY <1>1, <1>2, <1>3, OverIs
  <2> QED
    BY <1>1, <1>2, <2>1, ClientIs, StreamTurns
<1>4. CASE stream' = [stream EXCEPT !.at = "reading", !.connection = "open"]
  <2>2. stream' \in Reads
    BY <1>4, ClientIs DEF Reads
  <2>3. /\ stream'.at = "reading" /\ stream'.run = stream.run
        /\ stream'.sequence = stream.sequence /\ stream'.called = stream.called
    BY <1>4, ClientIs DEF Reads
  <2>4. EndFits(stream', seen)
    BY <1>1, <1>2, <2>3 DEF EndFits
  <2> QED
    BY <1>1, <1>2, <2>2, <2>3, <2>4, ClientIs, StreamTurns
<1> QED
  BY <1>3, <1>4 DEF Clients!Answer

\* The event that arrives is skipped, shown, or refused.
LEMMA ReceiveStep == ASSUME ClientInv, Clients!Receive PROVE ClientInv'
<1> DEFINE e == Head(wire)
           k == stream.sequence
           read == [stream EXCEPT !.run = e.run, !.sequence = e.sequence]
<1>1. /\ stream.at = "reading" /\ wire # <<>> /\ wire' = Tail(wire)
      /\ UNCHANGED <<use, log, faults, page, calls>>
  BY DEF Clients!Receive
<1>2. e \in Genuine(log) /\ wire' \in Seq(Genuine(log))
  BY <1>1, ClientIs, HeadTailProperties
<1>3. e.run \in {"mine", "other"} /\ e.sequence \in Nat /\ e.type \in Clients!Types
  BY <1>2 DEF Genuine, Sent
<1>4. use = "stream" /\ EndFits(stream, seen) /\ Shown(log, stream.run, k, seen)
  BY <1>1, Streaming
<1>5. faults' \in 0 .. MaxFaults /\ k \in Nat /\ seen \in Seq(Genuine(log))
      /\ log \in Seq(Clients!Types)
  BY <1>1, ClientIs
<1>6. read \in Reads /\ read.run = e.run /\ read.sequence = e.sequence /\ read.at = stream.at
      /\ read.called = stream.called /\ read.connection = stream.connection
  <2>1. read \in Reads
    BY <1>3, ClientIs DEF Reads
  <2> QED
    BY <2>1, ClientIs DEF Reads
<1>7. ASSUME Clients!Fits(e)
      PROVE  stream.run \in {"none", e.run} /\ e.sequence = k + 1
  BY <1>7 DEF Clients!Fits
<1>8. CASE Clients!Fits(e) /\ e.type = "note" /\ stream' = read /\ seen' = seen
  <2>1. Shown(log, e.run, k + 1, seen)
    BY <1>2, <1>4, <1>5, <1>7, <1>8, ShownSkips
  <2>2. EndFits(stream', seen)
    BY <1>4, <1>6, <1>8 DEF EndFits
  <2> HIDE DEF e, k, read
  <2>3. Shown(log, stream'.run, stream'.sequence, seen)
    BY <1>6, <1>7, <1>8, <2>1
  <2> QED
    BY <1>1, <1>2, <1>4, <1>5, <1>6, <1>8, <2>2, <2>3, StreamMoves
<1>9. CASE /\ Clients!Fits(e) /\ e.type \notin {"note", "novel"} /\ Clients!Belongs(e)
           /\ stream' = [read EXCEPT !.at = "given", !.called = @ \/ e.type = "call"]
           /\ seen' = Append(seen, e)
  <2> DEFINE called == stream.called \/ e.type = "call"
             L == Len(seen)
             t == Append(seen, e)
  <2>1. called \in BOOLEAN
    OBVIOUS
  <2>2. stream' = [read EXCEPT !.at = "given", !.called = called]
    BY <1>6, <1>9
  <2>3. /\ e.type \in Clients!Named => e.of = e.run
        /\ e.type = "call" => ~stream.called
    BY <1>9 DEF Clients!Belongs
  <2>4. Shown(log, e.run, k + 1, t)
    BY <1>2, <1>4, <1>5, <1>7, <1>9, <2>3, ShownNext
  <2>5. t \in Seq(Genuine(log)) /\ L \in Nat /\ Len(t) = L + 1 /\ t[L + 1] = e
        /\ \A n \in 1 .. L : t[n] = seen[n]
    BY <1>2, <1>5, AppendProperties
  <2>6. \A n \in 1 .. L + 1 : n \in 1 .. L \/ n = L + 1
    BY <2>5
  <2>7. called <=> stream.called \/ e.type = "call"
    OBVIOUS
  <2>8. e.type = "call" => e.type \notin Clients!Terminal
    BY DEF Clients!Terminal
  <2> HIDE DEF e, k, read, called, L, t
  <2>9. stream' \in Reads
    BY <1>6, <2>1, <2>2 DEF Reads
  <2>10. /\ stream'.at = "given" /\ stream'.run = e.run /\ stream'.sequence = k + 1
         /\ stream'.called = called
    BY <1>6, <1>7, <1>9, <2>2 DEF Reads
  <2>11. \A n \in 1 .. L : seen[n].type \notin Clients!Terminal
    BY <1>1, <1>4 DEF EndFits, L
  <2>12. \A n \in 1 .. L : seen[n].type = "call" => stream.called
    BY <1>4 DEF EndFits, L
  <2>13. \A m, n \in 1 .. L : seen[m].type = "call" /\ seen[n].type = "call" => m = n
    BY <1>4 DEF EndFits, L
  <2>14. \A n \in 1 .. L + 1 : t[n].type \in Clients!Terminal => n = L + 1
    BY <2>5, <2>6, <2>11
  <2>15. \A n \in 1 .. L + 1 : t[n].type = "call" => called
    BY <2>5, <2>6, <2>7, <2>12
  <2>16. \A m, n \in 1 .. L + 1 : t[m].type = "call" /\ t[n].type = "call" => m = n
    BY <2>3, <2>5, <2>6, <2>12, <2>13
  <2>17. t # <<>>
    BY <2>5, EmptySeq
  <2>18. EndFits(stream', t)
    BY <2>5, <2>10, <2>14, <2>15, <2>16, <2>17 DEF EndFits
  <2>19. seen' = t
    BY <1>9 DEF t
  <2> QED
    BY <1>1, <1>2, <1>4, <1>5, <2>4, <2>5, <2>9, <2>10, <2>18, <2>19, StreamMoves
<1>10. CASE Clients!Over("failed") /\ seen' = seen
  <2>1. /\ stream' \in Reads /\ stream'.run = stream.run
        /\ stream'.sequence = stream.sequence /\ EndFits(stream', seen)
    BY <1>1, <1>4, <1>10, OverIs
  <2> HIDE DEF e, k, read
  <2> QED
    BY <1>1, <1>2, <1>4, <1>5, <1>10, <2>1, StreamTurns
<1> QED
  BY <1>8, <1>9, <1>10 DEF Clients!Receive

LEMMA ResumeStep == ASSUME ClientInv, Clients!Resume PROVE ClientInv'
<1>1. /\ stream.at = "given" /\ UNCHANGED <<use, log, wire, faults, seen, page, calls>>
  BY DEF Clients!Resume
<1>2. use = "stream" /\ EndFits(stream, seen)
  BY <1>1, Streaming
<1>3. seen # <<>>
  BY <1>1, <1>2 DEF EndFits
<1>4. CASE seen[Len(seen)].type \in Clients!Terminal
  <2>1. Clients!Over("done")
    BY <1>4 DEF Clients!Resume, Clients!Last
  <2>2. /\ stream' \in Reads /\ stream'.run = stream.run
        /\ stream'.sequence = stream.sequence /\ EndFits(stream', seen)
    BY <1>2, <1>3, <1>4, <2>1, OverIs
  <2> QED
    BY <1>1, <1>2, <2>2, ClientIs, StreamTurns
<1>5. CASE seen[Len(seen)].type \notin Clients!Terminal
  <2>1. stream' = [stream EXCEPT !.at = "reading"]
    BY <1>5 DEF Clients!Resume, Clients!Last
  <2>2. stream' \in Reads
    BY <2>1, ClientIs DEF Reads
  <2>3. /\ stream'.at = "reading" /\ stream'.run = stream.run
        /\ stream'.sequence = stream.sequence /\ stream'.called = stream.called
    BY <2>1, ClientIs DEF Reads
  <2>4. EndFits(stream', seen)
    BY <1>2, <1>5, <2>3 DEF EndFits
  <2> QED
    BY <1>1, <1>2, <2>2, <2>3, <2>4, ClientIs, StreamTurns
<1> QED
  BY <1>4, <1>5

LEMMA BreakStep == ASSUME ClientInv, Clients!Break PROVE ClientInv'
<1>1. /\ stream.connection = "open" /\ faults < MaxFaults /\ faults' = faults + 1
      /\ wire' = <<>> /\ stream' = [stream EXCEPT !.connection = "broken"]
      /\ UNCHANGED <<use, log, seen, page, calls>>
  BY DEF Clients!Break, Clients!Open
<1>2. use = "stream" /\ EndFits(stream, seen)
  BY <1>1, Streaming
<1>3. faults' \in 0 .. MaxFaults /\ wire' \in Seq(Genuine(log))
  BY <1>1, ClientIs, WireBounds
<1>4. stream' \in Reads
  BY <1>1, ClientIs DEF Reads
<1>5. /\ stream'.at = stream.at /\ stream'.connection = "broken" /\ stream'.run = stream.run
      /\ stream'.sequence = stream.sequence /\ stream'.called = stream.called
  BY <1>1, ClientIs DEF Reads
<1>6. EndFits(stream', seen)
  BY <1>2, <1>5 DEF EndFits
<1> QED
  BY <1>1, <1>2, <1>3, <1>4, <1>5, <1>6, StreamTurns

LEMMA OverStep ==
    ASSUME ClientInv, NEW how \in {"failed", "closed"}, Clients!Over(how), stream.at # "idle",
           how = "failed" => stream.at \notin {"given", "done", "closed"},
           UNCHANGED <<use, log, wire, faults, seen, page, calls>>
    PROVE  ClientInv'
<1>1. use = "stream"
  BY Streaming
<1>2. /\ stream' \in Reads /\ stream'.run = stream.run
      /\ stream'.sequence = stream.sequence /\ EndFits(stream', seen)
  BY <1>1, OverIs
<1> QED
  BY <1>1, <1>2, ClientIs, StreamTurns

LEMMA CloseClientStep ==
    ASSUME ClientInv, Clients!Close \/ Clients!Closed \/ Clients!Incomplete PROVE ClientInv'
<1>1. CASE Clients!Incomplete
  <2>1. "failed" \in {"failed", "closed"} /\ stream.at = "reading" /\ Clients!Over("failed")
        /\ UNCHANGED <<use, log, wire, faults, seen, page, calls>>
    BY <1>1 DEF Clients!Incomplete
  <2> QED
    BY <2>1, OverStep
<1>2. CASE Clients!Closed \/ (Clients!Close /\ stream.at = "given")
  <2>1. "closed" \in {"failed", "closed"} /\ stream.at \in {"closing", "given"}
        /\ Clients!Over("closed")
        /\ UNCHANGED <<use, log, wire, faults, seen, page, calls>>
    BY <1>2 DEF Clients!Closed, Clients!Close
  <2> QED
    BY <2>1, OverStep
<1>3. CASE Clients!Close /\ stream.at # "given"
  <2>1. /\ stream.at \in {"asking", "reading"}
        /\ stream' = [stream EXCEPT !.at = "closing", !.connection = "broken"]
        /\ UNCHANGED <<use, log, wire, faults, seen, page, calls>>
    BY <1>3 DEF Clients!Close
  <2>2. use = "stream" /\ EndFits(stream, seen)
    BY <2>1, Streaming
  <2>3. stream' \in Reads
    BY <2>1, ClientIs DEF Reads
  <2>4. /\ stream'.at = "closing" /\ stream'.connection = "broken" /\ stream'.run = stream.run
        /\ stream'.sequence = stream.sequence /\ stream'.called = stream.called
    BY <2>1, ClientIs DEF Reads
  <2>5. EndFits(stream', seen)
    BY <2>1, <2>2, <2>4 DEF EndFits
  <2> QED
    BY <2>1, <2>2, <2>3, <2>4, <2>5, ClientIs, StreamTurns
<1> QED
  BY <1>1, <1>2, <1>3

-----------------------------------------------------------------------------
(* The job that is followed page by page *)

Envelopes(l) == {e \in Genuine(l) : e.of = e.run}

\* A job is over when the last of its events is terminal.
JobFits(j) ==
    /\ j.cursor \in 0 .. Len(log)
    /\ j.state \notin {"queued", "running"} => j.cursor > 0 /\ log[j.cursor] \in Clients!Terminal

LEMMA EnvelopeIs ==
    ASSUME NEW l, NEW e \in Envelopes(l), e.run = "mine"
    PROVE  e = Clients!Event("mine", e.sequence, l[e.sequence]) /\ e.sequence \in 1 .. Len(l)
BY DEF Envelopes, Genuine, Sent, TypesOf, Clients!Event

LEMMA JobIs ==
    ASSUME log \in Seq(Clients!Types), NEW n \in 0 .. Len(log)
    PROVE  /\ Clients!JobAt("mine", n).run = "mine" /\ JobFits(Clients!JobAt("mine", n))
           /\ Clients!JobAt("other", 3).run = "other"
<1> DEFINE types == [i \in 1 .. n |-> Clients!LogOf("mine")[i].type]
           j == Clients!JobAt("mine", n)
<1>1. n > 0 => types[n] = log[n]
  <2> SUFFICES ASSUME n > 0 PROVE types[n] = log[n]
    OBVIOUS
  <2>1. n \in 1 .. n /\ n \in 1 .. Len(log) /\ DOMAIN log = 1 .. Len(log)
    BY LenProperties
  <2>2. Clients!LogOf("mine")[n] = Clients!Event("mine", n, log[n])
    BY <2>1 DEF Clients!LogOf, Clients!Events
  <2> QED
    BY <2>1, <2>2 DEF Clients!Event
<1>2. /\ j.run = "mine" /\ j.cursor = n
      /\ j.state = IF n = 0 THEN "queued"
                   ELSE IF types[n] = "uncertain" THEN "interrupted"
                   ELSE IF types[n] \in Clients!Terminal THEN types[n] ELSE "running"
  BY DEF Clients!JobAt
<1> HIDE DEF types, j
<1>3. j.state \notin {"queued", "running"} => n > 0 /\ types[n] \in Clients!Terminal
  BY <1>2 DEF Clients!Terminal
<1>4. JobFits(j)
  BY <1>1, <1>2, <1>3 DEF JobFits
<1>5. Clients!JobAt("other", 3).run = "other"
  BY DEF Clients!JobAt
<1> QED
  BY <1>2, <1>4, <1>5 DEF j

LEMMA LowerIs ==
    ASSUME NEW a \in Int, NEW b \in Int
    PROVE  Clients!Min({a, b}) \in {a, b} /\ Clients!Min({a, b}) <= b
<1>1. \E x \in {a, b} : \A y \in {a, b} : x <= y
  <2>1. CASE a <= b
    BY <2>1
  <2>2. CASE b <= a
    BY <2>2
  <2> QED
    BY <2>1, <2>2
<1>2. /\ Clients!Min({a, b}) \in {a, b}
      /\ \A y \in {a, b} : Clients!Min({a, b}) <= y
  BY <1>1 DEF Clients!Min
<1> QED
  BY <1>2

LEMMA PageIs ==
    ASSUME log \in Seq(Clients!Types), NEW n \in 0 .. Len(log), NEW after \in Nat,
           NEW limit \in Nat
    PROVE  LET p == Clients!PageOf("mine", n, after, limit)
           IN  p.events \in Seq(Envelopes(log)) /\ p.job = Clients!JobAt("mine", n)
<1> DEFINE m == Clients!Min({after + limit, n})
           s == Clients!LogOf("mine")
<1>1. m \in Int /\ m <= n /\ n <= Len(log) /\ Len(log) \in Nat
  BY LowerIs
<1> HIDE DEF m
<1>2. ASSUME NEW i \in after + 1 .. m PROVE s[i] \in Envelopes(log)
  <2>1. i \in 1 .. Len(log) /\ DOMAIN log = 1 .. Len(log) /\ log[i] \in Clients!Types
    BY <1>1, LenProperties
  <2>2. s[i] = Clients!Event("mine", i, log[i])
    BY <2>1 DEF Clients!LogOf, Clients!Events
  <2>3. Clients!Event("mine", i, log[i]) \in Sent
    BY <2>1 DEF Clients!Event, Sent
  <2> QED
    BY <2>1, <2>2, <2>3 DEF Clients!Event, Envelopes, Genuine, TypesOf
<1> HIDE DEF s
<1>3. SubSeq(s, after + 1, m) \in Seq(Envelopes(log))
  BY <1>1, <1>2, SubSeqProperties
<1> QED
  BY <1>3 DEF Clients!PageOf, m, s

LEMMA RemovedIs ==
    ASSUME NEW S, NEW s \in Seq(S), NEW n \in DOMAIN s
    PROVE  Clients!RemoveAt(s, n) \in Seq(S)
<1>1. n \in 1 .. Len(s) /\ Len(s) \in Nat
  BY LenProperties
<1>2. \A i \in 1 .. n - 1 : s[i] \in S
  BY <1>1, ElementOfSeq
<1>3. \A i \in n + 1 .. Len(s) : s[i] \in S
  BY <1>1, ElementOfSeq
<1>4. SubSeq(s, 1, n - 1) \in Seq(S)
  BY <1>1, <1>2, SubSeqProperties
<1>5. SubSeq(s, n + 1, Len(s)) \in Seq(S)
  BY <1>1, <1>3, SubSeqProperties
<1> QED
  BY <1>4, <1>5, ConcatProperties DEF Clients!RemoveAt

\* Steps of the page alone.
LEMMA PageMoves ==
    ASSUME ClientInv, use = "follow", UNCHANGED <<use, log, wire, stream, calls>>,
           faults' \in 0 .. MaxFaults, seen' \in Seq(Genuine(log)), page' \in Asked, PageFits'
    PROVE  ClientInv'
<1>1. ClientTypes'
  BY ClientIs DEF ClientTypes
<1>2. LogFits' /\ UseFits' /\ CallsFit' /\ StreamFits'
  BY ClientIs DEF LogFits, UseFits, CallsFit, StreamFits
<1> QED
  BY <1>1, <1>2 DEF ClientInv

\* A caller that has no page asks again from where it is.
LEMMA PageRests ==
    ASSUME ClientInv, use = "follow", UNCHANGED <<use, log, wire, stream, seen, calls>>,
           faults' \in 0 .. MaxFaults, NEW at \in {"idle", "asked"}, NEW limit \in Nat,
           page' = [page EXCEPT !.at = at, !.limit = limit]
    PROVE  ClientInv'
<1>1. page' \in Asked
  BY ClientIs DEF Asked
<1>2. page'.at = at /\ page'.after = page.after
  BY ClientIs DEF Asked
<1>3. PageFits'
  BY <1>2, ClientIs DEF PageFits
<1> QED
  BY <1>1, <1>3, ClientIs, PageMoves

LEMMA PageTaken ==
    ASSUME ClientInv, page.at = "asked", UNCHANGED <<use, log, wire, stream, calls>>,
           faults' \in 0 .. MaxFaults, NEW p, Clients!Take(p),
           p.job.run = "mine" => p.events \in Seq(Envelopes(log)) /\ JobFits(p.job)
    PROVE  ClientInv'
<1>1. use = "follow" /\ page.after \in Nat /\ page.limit \in Nat /\ page \in Asked
      /\ seen \in Seq(Genuine(log)) /\ log \in Seq(Clients!Types) /\ Len(log) \in Nat
      /\ Len(seen) = page.after
      /\ \A n \in 1 .. Len(seen) : seen[n] = Clients!Event("mine", n, log[n])
  BY ClientIs DEF UseFits, PageFits
<1>2. CASE ~Clients!Accepts(p, page.after, page.limit)
  <2>1. page' = [page EXCEPT !.at = "idle"] /\ UNCHANGED seen
    BY <1>2 DEF Clients!Take
  <2>2. page' = [page EXCEPT !.at = "idle", !.limit = page.limit]
    BY <1>1, <2>1 DEF Asked
  <2> QED
    BY <1>1, <2>1, <2>2, PageRests
<1>3. CASE Clients!Accepts(p, page.after, page.limit)
  <2> DEFINE E == p.events
             a == page.after
             at == IF ~p.more /\ p.job.state \notin {"queued", "running"}
                   THEN "finished" ELSE "idle"
             t == seen \o E
             after == p.next
  <2>1. /\ p.job.run = "mine" /\ after = a + Len(E) /\ after <= p.job.cursor
        /\ p.more <=> after < p.job.cursor
        /\ \A n \in DOMAIN E : E[n].run = "mine" /\ E[n].sequence = a + n
    BY <1>3 DEF Clients!Accepts
  <2>2. page' = [page EXCEPT !.after = after, !.at = at] /\ seen' = t
    BY <1>3 DEF Clients!Take
  <2>3. E \in Seq(Envelopes(log)) /\ JobFits(p.job)
    BY <2>1
  <2>4. Len(E) \in Nat /\ DOMAIN E = 1 .. Len(E)
    BY <2>3, LenProperties
  <2>5. \A n \in 1 .. Len(E) : E[n] = Clients!Event("mine", a + n, log[a + n])
    <3> TAKE n \in 1 .. Len(E)
    <3>1. E[n] \in Envelopes(log) /\ E[n].run = "mine" /\ E[n].sequence = a + n
      BY <2>1, <2>3, <2>4, ElementOfSeq
    <3> HIDE DEF E, a
    <3> QED
      BY <3>1, EnvelopeIs
  <2>6. E \in Seq(Genuine(log))
    <3>1. Envelopes(log) \subseteq Genuine(log)
      BY DEF Envelopes
    <3> QED
      BY <2>3, <3>1
  <2>7. /\ t \in Seq(Genuine(log)) /\ Len(t) = a + Len(E)
        /\ \A n \in 1 .. a + Len(E) : t[n] = IF n <= a THEN seen[n] ELSE E[n - a]
    <3> HIDE DEF E
    <3>1. /\ seen \o E \in Seq(Genuine(log)) /\ Len(seen \o E) = Len(seen) + Len(E)
          /\ \A n \in 1 .. Len(seen) + Len(E) :
                (seen \o E)[n] = IF n <= Len(seen) THEN seen[n] ELSE E[n - Len(seen)]
      BY <1>1, <2>6, ConcatProperties
    <3> QED
      BY <1>1, <3>1
  <2>8. p.job.cursor \in Nat /\ p.job.cursor <= Len(log)
    BY <1>1, <2>3 DEF JobFits
  <2>9. at = "finished" => /\ p.job.cursor > 0 /\ log[p.job.cursor] \in Clients!Terminal
                           /\ ~(after < p.job.cursor)
    BY <2>1, <2>3 DEF JobFits
  <2>10. at \in {"finished", "idle"}
    OBVIOUS
  <2> HIDE DEF E, at, t, after, a
  <2>11. after \in Nat /\ after = Len(t) /\ after <= Len(log) /\ a \in Nat
    BY <1>1, <2>1, <2>4, <2>7, <2>8 DEF a
  <2>12. \A n \in 1 .. Len(t) : t[n] = Clients!Event("mine", n, log[n])
    <3> TAKE n \in 1 .. Len(t)
    <3>1. CASE n <= a
      <4>1. n \in 1 .. Len(seen) /\ t[n] = seen[n]
        BY <1>1, <2>7, <2>11, <3>1 DEF a
      <4> QED
        BY <1>1, <4>1
    <3>2. CASE ~(n <= a)
      <4>1. n - a \in 1 .. Len(E) /\ t[n] = E[n - a] /\ a + (n - a) = n
        BY <2>4, <2>7, <2>11, <3>2
      <4> QED
        BY <2>5, <4>1
    <3> QED
      BY <3>1, <3>2
  <2>13. at = "finished" =>
            after = Len(log) /\ log # <<>> /\ log[Len(log)] \in Clients!Terminal
    <3> SUFFICES ASSUME at = "finished"
                 PROVE  after = Len(log) /\ log # <<>> /\ log[Len(log)] \in Clients!Terminal
      OBVIOUS
    <3>1. p.job.cursor \in 1 .. Len(log) /\ after = p.job.cursor
      BY <1>1, <2>1, <2>8, <2>9, <2>11
    <3>2. p.job.cursor = Len(log)
      BY <2>9, <3>1, ClientIs DEF LogFits
    <3>3. log # <<>>
      BY <1>1, <3>1
    <3> QED
      BY <2>9, <3>1, <3>2, <3>3
  <2>14. page' \in Asked
    BY <1>1, <2>2, <2>10, <2>11 DEF Asked
  <2>15. page'.after = after /\ page'.at = at
    BY <1>1, <2>2 DEF Asked
  <2>16. PageFits'
    BY <2>2, <2>11, <2>12, <2>13, <2>15 DEF PageFits, Clients!Event
  <2> QED
    BY <1>1, <2>2, <2>7, <2>14, <2>16, PageMoves
<1> QED
  BY <1>2, <1>3

LEMMA AskPageStep ==
    ASSUME ClientInv, NEW limit \in Limits, Clients!AskPage(limit) PROVE ClientInv'
<1>1. /\ use = "follow" /\ page' = [page EXCEPT !.at = "asked", !.limit = limit]
      /\ UNCHANGED <<use, log, wire, faults, stream, seen, calls>>
  BY DEF Clients!AskPage
<1>2. limit \in Nat /\ faults' \in 0 .. MaxFaults
  BY <1>1, WireBounds, ClientIs
<1> QED
  BY <1>1, <1>2, PageRests

LEMMA AnswerPageStep == ASSUME ClientInv, Clients!AnswerPage PROVE ClientInv'
<1> DEFINE p == Clients!PageOf("mine", Len(log), page.after, page.limit)
<1>1. /\ page.at = "asked" /\ Clients!Take(p)
      /\ UNCHANGED <<use, log, wire, faults, stream, calls>>
  BY DEF Clients!AnswerPage
<1>2. Len(log) \in 0 .. Len(log) /\ faults' \in 0 .. MaxFaults
  BY <1>1, ClientIs
<1>3. p.events \in Seq(Envelopes(log)) /\ JobFits(p.job)
  BY <1>2, ClientIs, PageIs, JobIs
<1> HIDE DEF p
<1> QED
  BY <1>1, <1>2, <1>3, PageTaken

\* No page but one that continues the caller's log is taken.
LEMMA SpoilPageStep == ASSUME ClientInv, Clients!SpoilPage PROVE ClientInv'
<1>1. /\ page.at = "asked" /\ faults < MaxFaults /\ faults' = faults + 1
      /\ UNCHANGED <<use, log, wire, stream, calls>>
  BY DEF Clients!SpoilPage
<1>2. faults' \in 0 .. MaxFaults /\ use = "follow" /\ page \in Asked
  BY <1>1, ClientIs, WireBounds DEF UseFits
<1>3. Len(log) \in 0 .. Len(log)
  BY ClientIs
<1>4. CASE page' = [page EXCEPT !.at = "idle"] /\ UNCHANGED seen
  <2>1. page' = [page EXCEPT !.at = "idle", !.limit = page.limit]
    BY <1>2, <1>4 DEF Asked
  <2> QED
    BY <1>1, <1>2, <1>4, <2>1, ClientIs, PageRests
<1>5. CASE \E n \in 0 .. Len(log), after \in 0 .. Len(log), limit \in Limits :
              after <= n /\ Clients!Take(Clients!PageOf("mine", n, after, limit))
  <2>1. PICK n \in 0 .. Len(log), after \in 0 .. Len(log), limit \in Limits :
           Clients!Take(Clients!PageOf("mine", n, after, limit))
    BY <1>5
  <2> DEFINE p == Clients!PageOf("mine", n, after, limit)
  <2>2. limit \in Nat /\ after \in Nat
    BY WireBounds, ClientIs
  <2>3. p.events \in Seq(Envelopes(log)) /\ JobFits(p.job)
    BY <2>2, ClientIs, PageIs, JobIs
  <2>4. Clients!Take(p)
    BY <2>1
  <2> HIDE DEF p
  <2> QED
    BY <1>1, <1>2, <2>3, <2>4, PageTaken
<1>6. CASE Clients!Take(Clients!PageOf("other", 3, page.after, page.limit))
  <2> DEFINE p == Clients!PageOf("other", 3, page.after, page.limit)
  <2>1. p.job.run = "other"
    BY <1>3, ClientIs, JobIs DEF Clients!PageOf
  <2>2. Clients!Take(p)
    BY <1>6
  <2> HIDE DEF p
  <2> QED
    BY <1>1, <1>2, <2>1, <2>2, PageTaken
<1> DEFINE w == Clients!PageOf("mine", Len(log), page.after, page.limit)
<1>7. w.events \in Seq(Envelopes(log)) /\ JobFits(w.job)
  BY <1>3, ClientIs, PageIs, JobIs
<1>8. CASE \E n \in DOMAIN w.events :
              Clients!Take([w EXCEPT !.events = Clients!RemoveAt(@, n)])
  <2>1. PICK n \in DOMAIN w.events : Clients!Take([w EXCEPT !.events = Clients!RemoveAt(@, n)])
    BY <1>8
  <2> DEFINE p == [w EXCEPT !.events = Clients!RemoveAt(@, n)]
  <2>2. p.job = w.job /\ p.events = Clients!RemoveAt(w.events, n)
    BY DEF Clients!PageOf
  <2>3. Clients!Take(p)
    BY <2>1
  <2> HIDE DEF p, w
  <2>4. p.events \in Seq(Envelopes(log)) /\ JobFits(p.job)
    BY <1>7, <2>2, RemovedIs
  <2> QED
    BY <1>1, <1>2, <2>3, <2>4, PageTaken
<1>9. CASE \E n \in 0 .. Len(log) : Clients!Take([w EXCEPT !.job = Clients!JobAt("mine", n)])
  <2>1. PICK n \in 0 .. Len(log) : Clients!Take([w EXCEPT !.job = Clients!JobAt("mine", n)])
    BY <1>9
  <2> DEFINE p == [w EXCEPT !.job = Clients!JobAt("mine", n)]
  <2>2. p.job = Clients!JobAt("mine", n) /\ p.events = w.events
    BY DEF Clients!PageOf
  <2>3. Clients!Take(p)
    BY <2>1
  <2> HIDE DEF p, w
  <2>4. p.events \in Seq(Envelopes(log)) /\ JobFits(p.job)
    BY <1>7, <2>2, ClientIs, JobIs
  <2> QED
    BY <1>1, <1>2, <2>3, <2>4, PageTaken
<1> QED
  BY <1>4, <1>5, <1>6, <1>8, <1>9 DEF Clients!SpoilPage

-----------------------------------------------------------------------------
(* Operations, and the client as a whole *)

\* Steps of the operations alone.
LEMMA CallsMove ==
    ASSUME ClientInv, UNCHANGED <<use, log, wire, stream, seen, page>>,
           faults' \in 0 .. MaxFaults, calls' \in [{1, 2} -> Operating], CallsFit'
    PROVE  ClientInv'
<1>1. ClientTypes'
  BY ClientIs DEF ClientTypes
<1>2. LogFits' /\ UseFits' /\ StreamFits' /\ PageFits'
  BY ClientIs DEF LogFits, UseFits, StreamFits, PageFits
<1> QED
  BY <1>1, <1>2 DEF ClientInv

LEMMA CallOperation ==
    ASSUME ClientInv, NEW c \in {1, 2}, NEW kind \in Clients!Kinds, NEW target \in Targets,
           Clients!Call(c, kind, target)
    PROVE  ClientInv'
<1> DEFINE o == [at |-> "sent", kind |-> kind, target |-> target, did |-> FALSE]
<1>1. /\ calls[c].at = "idle" /\ calls' = [calls EXCEPT ![c] = o]
      /\ UNCHANGED <<use, log, wire, faults, stream, seen, page>>
  BY DEF Clients!Call
<1>2. o \in Operating /\ o.at = "sent" /\ ~o.did
  BY DEF Operating
<1> HIDE DEF o
<1>3. /\ calls' \in [{1, 2} -> Operating] /\ calls'[c] = o
      /\ \A d \in {1, 2} : d # c => calls'[d] = calls[d]
  BY <1>1, <1>2, ClientIs
<1>4. ~calls[c].did
  BY <1>1, ClientIs DEF CallsFit
<1>5. CallsFit'
  <2>1. \A d \in {1, 2} : calls'[d].at \in {"idle", "sent"} => ~calls'[d].did
    BY <1>2, <1>3, ClientIs DEF CallsFit
  <2>2. ASSUME NEW b \in {1, 2}, calls'[b].at = "accepted"
        PROVE  \E d \in {1, 2} : /\ calls'[d].did
                                 /\ calls'[d].kind = calls'[b].kind
                                 /\ calls'[d].target = calls'[b].target
    <3>1. b # c /\ calls'[b] = calls[b]
      BY <1>2, <1>3, <2>2
    <3>2. PICK d \in {1, 2} : /\ calls[d].did /\ calls[d].kind = calls[b].kind
                              /\ calls[d].target = calls[b].target
      BY <2>2, <3>1, ClientIs DEF CallsFit
    <3>3. calls'[d] = calls[d]
      BY <1>3, <1>4, <3>2
    <3> QED
      BY <3>1, <3>2, <3>3
  <2> QED
    BY <2>1, <2>2 DEF CallsFit
<1> QED
  BY <1>1, <1>3, <1>5, ClientIs, CallsMove

\* An operation has an outcome; what was asked of it stays, and what was done.
LEMMA OutcomeOfCall ==
    ASSUME ClientInv, UNCHANGED <<use, log, wire, stream, seen, page>>, faults' \in 0 .. MaxFaults,
           NEW c \in {1, 2}, NEW o \in Operating, calls' = [calls EXCEPT ![c] = o],
           o.at \notin {"idle", "sent"}, o.kind = calls[c].kind, o.target = calls[c].target,
           calls[c].did => o.did,
           o.at = "accepted" =>
              \E d \in {1, 2} : /\ calls[d].did
                                /\ calls[d].kind = calls[c].kind
                                /\ calls[d].target = calls[c].target
    PROVE  ClientInv'
<1>1. /\ calls' \in [{1, 2} -> Operating] /\ calls'[c] = o
      /\ \A d \in {1, 2} : d # c => calls'[d] = calls[d]
  BY ClientIs
<1>2. \A d \in {1, 2} : /\ calls'[d].kind = calls[d].kind /\ calls'[d].target = calls[d].target
                        /\ calls[d].did => calls'[d].did
  BY <1>1
<1>3. \A d \in {1, 2} : calls'[d].at \in {"idle", "sent"} => ~calls'[d].did
  BY <1>1, ClientIs DEF CallsFit
<1>4. ASSUME NEW b \in {1, 2}, calls'[b].at = "accepted"
      PROVE  \E d \in {1, 2} : /\ calls'[d].did
                               /\ calls'[d].kind = calls'[b].kind
                               /\ calls'[d].target = calls'[b].target
  <2>1. \E d \in {1, 2} : /\ calls[d].did /\ calls[d].kind = calls[b].kind
                          /\ calls[d].target = calls[b].target
    <3>1. CASE b = c
      BY <1>1, <1>4, <3>1
    <3>2. CASE b # c
      BY <1>1, <1>4, <3>2, ClientIs DEF CallsFit
    <3> QED
      BY <3>1, <3>2
  <2> QED
    BY <1>2, <2>1
<1>5. CallsFit'
  BY <1>3, <1>4 DEF CallsFit
<1> QED
  BY <1>1, <1>5, CallsMove

LEMMA CallIs ==
    ASSUME ClientInv, NEW c \in {1, 2}, NEW at \in {"done", "refused", "accepted", "failed"}
    PROVE  LET o == [calls[c] EXCEPT !.at = at]
           IN  /\ o \in Operating /\ o.at = at /\ o.kind = calls[c].kind
               /\ o.target = calls[c].target /\ o.did = calls[c].did
<1>1. calls[c] \in Operating
  BY ClientIs
<1> QED
  BY <1>1 DEF Operating

LEMMA DoStep == ASSUME ClientInv, NEW c \in {1, 2}, Clients!Do(c) PROVE ClientInv'
<1>1. PICK how \in {"done", "refused"} :
         calls' = [calls EXCEPT ![c].at = how, ![c].did = how = "done"]
  BY DEF Clients!Do
<1>2. calls[c].at = "sent" /\ UNCHANGED <<use, log, wire, faults, stream, seen, page>>
  BY DEF Clients!Do
<1> DEFINE did == how = "done"
           o == [calls[c] EXCEPT !.at = how, !.did = did]
<1>3. calls' = [calls EXCEPT ![c] = o] /\ did \in BOOLEAN /\ calls[c] \in Operating
  BY <1>1, ClientIs
<1> HIDE DEF did
<1>4. o \in Operating
  BY <1>3 DEF Operating
<1>5. o.at = how /\ o.did = did /\ o.kind = calls[c].kind /\ o.target = calls[c].target
  BY <1>3 DEF Operating
<1> HIDE DEF o
<1>6. CASE how = "done"
  <2>1. o.did
    BY <1>5, <1>6 DEF did
  <2> QED
    BY <1>2, <1>3, <1>4, <1>5, <1>6, <2>1, ClientIs, OutcomeOfCall
<1>7. CASE how = "refused"
  <2>1. ~calls[c].did
    BY <1>2, ClientIs DEF CallsFit
  <2> QED
    BY <1>2, <1>3, <1>4, <1>5, <1>7, <2>1, ClientIs, OutcomeOfCall
<1> QED
  BY <1>6, <1>7

LEMMA FailedStep == ASSUME ClientInv, NEW c \in {1, 2}, Clients!Failed(c) PROVE ClientInv'
<1> DEFINE o == [calls[c] EXCEPT !.at = "failed"]
<1>1. /\ calls' = [calls EXCEPT ![c] = o]
      /\ UNCHANGED <<use, log, wire, faults, stream, seen, page>>
  BY ClientIs DEF Clients!Failed
<1>2. /\ o \in Operating /\ o.at = "failed" /\ o.kind = calls[c].kind
      /\ o.target = calls[c].target /\ o.did = calls[c].did
  BY CallIs
<1> HIDE DEF o
<1> QED
  BY <1>1, <1>2, ClientIs, OutcomeOfCall

LEMMA ReceiptStep ==
    ASSUME ClientInv, NEW c \in {1, 2}, NEW from \in {1, 2}, Clients!Receipt(c, from)
    PROVE  ClientInv'
<1> DEFINE at == IF Clients!Matches(calls[from], calls[c]) THEN "accepted" ELSE "failed"
           o == [calls[c] EXCEPT !.at = at]
<1>1. /\ calls' = [calls EXCEPT ![c] = o] /\ calls[from].did
      /\ from # c => faults < MaxFaults
      /\ faults' = IF from # c THEN faults + 1 ELSE faults
      /\ UNCHANGED <<use, log, wire, stream, seen, page>>
  BY ClientIs DEF Clients!Receipt
<1>2. faults' \in 0 .. MaxFaults
  BY <1>1, ClientIs, WireBounds
<1>3. at \in {"accepted", "failed"}
  OBVIOUS
<1>4. at = "accepted" => calls[from].kind = calls[c].kind /\ calls[from].target = calls[c].target
  BY DEF Clients!Matches
<1> HIDE DEF at
<1>5. /\ o \in Operating /\ o.at = at /\ o.kind = calls[c].kind
      /\ o.target = calls[c].target /\ o.did = calls[c].did
  BY <1>3, CallIs
<1> HIDE DEF o
<1> QED
  BY <1>1, <1>2, <1>3, <1>4, <1>5, ClientIs, OutcomeOfCall

LEMMA ClientNext == ASSUME ClientInv, Clients!Next PROVE ClientInv'
BY LogGrowsStep, SpoilStep, AskStep, AnswerAskStep, ReceiveStep, ResumeStep, BreakStep,
   CloseClientStep, AskPageStep, AnswerPageStep, SpoilPageStep, CallOperation, DoStep,
   FailedStep, ReceiptStep DEF Clients!Next

LEMMA ClientRests == ASSUME ClientInv, UNCHANGED clientVars PROVE ClientInv'
<1>1. UNCHANGED <<use, log, wire, faults, stream, seen, page, calls>>
  BY DEF clientVars
<1>2. ClientTypes' /\ LogFits' /\ UseFits' /\ StreamFits' /\ PageFits' /\ CallsFit'
  BY <1>1, ClientIs DEF ClientTypes, LogFits, UseFits, StreamFits, PageFits, CallsFit
<1> QED
  BY <1>2 DEF ClientInv

LEMMA ClientBegins == ASSUME Clients!Init PROVE ClientInv
<1>1. /\ use \in {"stream", "follow", "operate"} /\ log = <<>> /\ wire = <<>> /\ seen = <<>>
      /\ faults = 0 /\ stream = Clients!NoStream /\ page = Clients!NoPage
      /\ calls = [c \in {1, 2} |-> Clients!NoCall]
  BY DEF Clients!Init
<1>2. stream \in Reads /\ stream.at = "idle" /\ stream.connection = "none"
      /\ stream.run = "none" /\ stream.sequence = 0
  BY <1>1 DEF Clients!NoStream, Reads
<1>3. page \in Asked /\ page.at = "idle" /\ page.after = 0
  BY <1>1 DEF Clients!NoPage, Asked
<1>4. Clients!NoCall \in Operating
  BY DEF Clients!NoCall, Operating
<1>5. Len(<<>>) = 0 /\ 1 .. 0 = {}
  OBVIOUS
<1>6. ClientTypes
  BY <1>1, <1>2, <1>3, <1>4, WireBounds DEF ClientTypes
<1>7. LogFits /\ UseFits
  BY <1>1, <1>2, <1>3 DEF LogFits, UseFits
<1>8. StreamFits
  BY <1>1, <1>2, <1>5 DEF StreamFits, Shown, EndFits
<1>9. PageFits
  BY <1>1, <1>3, <1>5 DEF PageFits
<1>10. CallsFit
  BY <1>1 DEF CallsFit, Clients!NoCall
<1> QED
  BY <1>6, <1>7, <1>8, <1>9, <1>10 DEF ClientInv

LEMMA SeesTheStream == ASSUME ClientInv PROVE Clients!StreamIsWhole
<1> SUFFICES ASSUME use = "stream" PROVE Clients!StreamIsWhole
  BY DEF Clients!StreamIsWhole
<1> DEFINE r == stream.run
           sent == Clients!LogOf(r)
<1>1. Shown(log, r, stream.sequence, seen) /\ EndFits(stream, seen) /\ stream.sequence \in Nat
  BY ClientIs DEF StreamFits
<1>2. DOMAIN seen = 1 .. Len(seen) /\ \A n \in 1 .. Len(seen) : seen[n] \in Genuine(log)
  BY ClientIs, LenProperties, ElementOfSeq
<1>3. ASSUME r # "none"
      PROVE  \A i \in 1 .. stream.sequence : sent[i].type = TypesOf(log, r)[i]
  <2> TAKE i \in 1 .. stream.sequence
  <2>1. stream.sequence \in 1 .. Len(TypesOf(log, r)) /\ r \in {"mine", "other"}
    BY <1>1, <1>3, ClientIs DEF Shown
  <2>2. TypesOf(log, r) \in Seq(Clients!Types)
    BY ClientIs, OtherTypes DEF TypesOf
  <2>3. i \in DOMAIN TypesOf(log, r)
    BY <1>1, <2>1, <2>2, LenProperties
  <2>4. sent[i] = Clients!Event(r, i, TypesOf(log, r)[i])
    BY <2>3 DEF Clients!LogOf, Clients!Events, TypesOf
  <2> QED
    BY <2>4 DEF Clients!Event
<1>4. r # "none" =>
         /\ {seen[n].sequence : n \in DOMAIN seen}
               = {n \in 1 .. stream.sequence : sent[n].type # "note"}
         /\ \A n \in DOMAIN seen : /\ seen[n].run = r
                                   /\ seen[n].type = sent[seen[n].sequence].type
         /\ \A m, n \in DOMAIN seen : m < n => seen[m].sequence < seen[n].sequence
  <2> SUFFICES ASSUME r # "none"
               PROVE  /\ {seen[n].sequence : n \in DOMAIN seen}
                            = {n \in 1 .. stream.sequence : sent[n].type # "note"}
                      /\ \A n \in DOMAIN seen : /\ seen[n].run = r
                                                /\ seen[n].type = sent[seen[n].sequence].type
                      /\ \A m, n \in DOMAIN seen : m < n => seen[m].sequence < seen[n].sequence
    OBVIOUS
  <2>1. ASSUME NEW n \in 1 .. Len(seen)
        PROVE  /\ seen[n].run = r /\ seen[n].sequence \in 1 .. stream.sequence
               /\ seen[n].type = sent[seen[n].sequence].type /\ seen[n].type # "note"
    <3>1. /\ seen[n].run = r /\ seen[n].sequence <= stream.sequence /\ seen[n].type # "note"
      BY <1>1 DEF Shown
    <3>2. /\ seen[n].sequence \in 1 .. Len(TypesOf(log, r))
          /\ seen[n].type = TypesOf(log, r)[seen[n].sequence]
      BY <1>2, <3>1 DEF Genuine
    <3>3. seen[n].sequence \in 1 .. stream.sequence
      BY <1>1, <3>1, <3>2
    <3> QED
      BY <1>3, <3>1, <3>2, <3>3
  <2>2. \A i \in 1 .. stream.sequence :
           sent[i].type # "note" => \E n \in 1 .. Len(seen) : seen[n].sequence = i
    BY <1>1, <1>3 DEF Shown
  <2>3. {seen[n].sequence : n \in DOMAIN seen}
           = {n \in 1 .. stream.sequence : sent[n].type # "note"}
    BY <1>2, <2>1, <2>2
  <2>4. \A m, n \in 1 .. Len(seen) : m < n => seen[m].sequence < seen[n].sequence
    BY <1>1 DEF Shown
  <2> QED
    BY <1>2, <2>1, <2>3, <2>4
<1>5. /\ \A n \in DOMAIN seen : seen[n].type \in Clients!Named => seen[n].of = r
      /\ stream.at = "done" => Clients!Last(seen).type \in Clients!Terminal
  <2>1. \A n \in DOMAIN seen : seen[n].type \in Clients!Named => seen[n].of = r
    BY <1>1, <1>2 DEF Shown
  <2>2. stream.at = "done" => seen[Len(seen)].type \in Clients!Terminal
    BY <1>1 DEF EndFits
  <2> QED
    BY <2>1, <2>2 DEF Clients!Last
<1>6. /\ \A m, n \in DOMAIN seen : seen[m].type = "call" /\ seen[n].type = "call" => m = n
      /\ \A n \in DOMAIN seen : seen[n].type \in Clients!Terminal => n = Len(seen)
      /\ stream.at \in {"done", "failed", "closed"} => ~Clients!Open
  BY <1>1, <1>2 DEF EndFits, Clients!Open
<1> QED
  BY <1>4, <1>5, <1>6 DEF Clients!StreamIsWhole

LEMMA SeesThePages == ASSUME ClientInv PROVE Clients!PagesAreTheLog
<1> SUFFICES ASSUME use = "follow" PROVE Clients!PagesAreTheLog
  BY DEF Clients!PagesAreTheLog
<1> DEFINE s == Clients!LogOf("mine")
           a == page.after
<1>1. /\ a = Len(seen) /\ a <= Len(log) /\ a \in Nat
      /\ \A n \in 1 .. a : seen[n] = Clients!Event("mine", n, log[n])
      /\ page.at = "finished" => /\ a = Len(log) /\ log # <<>>
                                 /\ log[Len(log)] \in Clients!Terminal
  BY ClientIs DEF PageFits
<1>2. \A n \in 1 .. a : s[n] = Clients!Event("mine", n, log[n])
  <2> TAKE n \in 1 .. a
  <2>1. n \in DOMAIN log
    BY <1>1, ClientIs, LenProperties
  <2> QED
    BY <2>1 DEF Clients!LogOf, Clients!Events
<1> HIDE DEF s
<1>3. \A n \in 1 .. a : s[n] \in Genuine(log)
  BY <1>1, <1>2, ClientIs, ElementOfSeq
<1>4. /\ SubSeq(s, 1, a) \in Seq(Genuine(log)) /\ Len(SubSeq(s, 1, a)) = a
      /\ \A n \in 1 .. a : SubSeq(s, 1, a)[n] = s[n]
  <2>1. a - 1 + 1 = a /\ (1 <= a \/ a = 0)
    BY <1>1
  <2>2. /\ SubSeq(s, 1, a) \in Seq(Genuine(log))
        /\ Len(SubSeq(s, 1, a)) = IF 1 <= a THEN a - 1 + 1 ELSE 0
        /\ \A n \in 1 .. a - 1 + 1 : SubSeq(s, 1, a)[n] = s[1 + n - 1]
    BY <1>1, <1>3, SubSeqProperties
  <2>3. \A n \in 1 .. a : 1 + n - 1 = n
    BY <1>1
  <2> QED
    BY <2>1, <2>2, <2>3
<1>5. seen = SubSeq(s, 1, a)
  <2>1. /\ seen \in Seq(Genuine(log)) /\ Len(seen) = a
    BY <1>1, ClientIs
  <2>2. \A n \in 1 .. Len(seen) : seen[n] = SubSeq(s, 1, a)[n]
    BY <1>1, <1>2, <1>4
  <2> QED
    BY <1>4, <2>1, <2>2, SeqEqual
<1>6. page.at = "finished" => Clients!Ended /\ Len(seen) = Len(log)
  BY <1>1 DEF Clients!Ended, Clients!Last
<1> QED
  BY <1>5, <1>6 DEF Clients!PagesAreTheLog, s

\* What a client shows of a stream is what the host sent of one run, in its order and
\* without a gap, and it tells of an end only after the last event; the pages it takes are
\* the log of its job; and what it reports as done was done, however many proxies lose,
\* repeat, reorder and misroute what they carry (src/src/client.ts).
THEOREM ClientsSeeTheirRun == RequestsSpec => []ClientsSeeTheRun
<1>1. RequestsInit => ClientInv
  BY ClientBegins DEF RequestsInit
<1>2. ClientInv /\ [RequestsNext]_allVars => ClientInv'
  BY ClientNext, ClientRests DEF RequestsNext, allVars
<1>3. ClientInv => ClientsSeeTheRun
  <2> SUFFICES ASSUME ClientInv PROVE ClientsSeeTheRun
    OBVIOUS
  <2>1. Clients!TypeOK
    BY ClientIs DEF ClientTypes, Reads, Asked, Clients!TypeOK
  <2>2. Clients!ReceiptsAreOwn
    BY ClientIs DEF CallsFit, Clients!ReceiptsAreOwn
  <2> QED
    BY <2>1, <2>2, SeesTheStream, SeesThePages DEF ClientsSeeTheRun
<1> QED
  BY <1>1, <1>2, <1>3, PTL DEF RequestsSpec

-----------------------------------------------------------------------------
(* Requests of the HTTP host: types, the grant of what runs, and the close.   *)

Handlers ==
    [at : {"idle", "authenticating", "reading", "queued", "admitted", "running", "draining",
           "job", "manage", "ended"},
     kind : Http!Kinds, grant : Nat, aborted : BOOLEAN, connected : BOOLEAN,
     ticket : {"none", "waiting", "held"}, active : BOOLEAN, sure : BOOLEAN]

HandlerTypes ==
    /\ host \in {"starting", "serving", "closing", "waiting", "closed", "failed"}
    /\ jobs \in {"none", "open", "closing", "closed"} /\ storeOpen \in BOOLEAN
    /\ grant \in 0 .. MaxChanges
    /\ request \in [{r1, r2} -> Handlers]

\* A place in the scheduler is held by who runs; whoever was admitted under an older
\* grant is known not to be sure.
Serves(h) ==
    /\ h.ticket = "held" <=> h.at \in {"admitted", "running", "draining"}
    /\ h.active <=> h.at \in {"queued", "admitted", "running", "draining", "job"}
    /\ h.grant <= grant
    /\ h.at = "admitted" => h.sure \/ h.grant # grant
    /\ h.at \in {"running", "draining"} => h.sure
    /\ h.at \notin {"idle", "ended"} => host \in {"serving", "closing"}
    /\ Http!Closing /\ h.active => h.aborted \/ h.at = "job"

\* The job service works on an open store, from the start of the host to its end.
StoreFits ==
    /\ jobs \in {"open", "closing"} => storeOpen
    /\ host = "starting" => jobs \in {"none", "open"}
    /\ host \in {"serving", "closing", "waiting"} => storeOpen /\ jobs # "none"

HoldersOf(req) == {r \in {r1, r2} : req[r].ticket = "held"}

HttpInv ==
    /\ HandlerTypes /\ StoreFits
    /\ \A r \in {r1, r2} : Serves(request[r])
    /\ Cardinality(HoldersOf(request)) <= Slots

LEMMA HttpCount == \A S : Http!Cardinality(S) = Cardinality(S)
BY DEF Http!Cardinality, Cardinality

LEMMA HandlersFinite == \A S \in SUBSET {r1, r2} : IsFiniteSet(S) /\ Cardinality(S) \in Nat
<1>1. IsFiniteSet({r1, r2})
  <2>1. IsFiniteSet({r1})
    BY FS_Singleton
  <2>2. IsFiniteSet({r1} \cup {r2}) /\ {r1} \cup {r2} = {r1, r2}
    BY <2>1, FS_AddElement
  <2> QED
    BY <2>2
<1> QED
  BY <1>1, FS_Subset, FS_CardinalityType

LEMMA SlotsNat == Slots \in Nat /\ MaxChanges \in Nat
BY RequestsAssumption

LEMMA HoldersChange ==
    ASSUME NEW r \in {r1, r2}, NEW req \in [{r1, r2} -> Handlers], NEW h \in Handlers,
           Cardinality(HoldersOf(req)) <= Slots,
           h.ticket = "held" => req[r].ticket = "held" \/ Cardinality(HoldersOf(req)) < Slots
    PROVE  Cardinality(HoldersOf([req EXCEPT ![r] = h])) <= Slots
<1> DEFINE new == [req EXCEPT ![r] = h]
<1>1. HoldersOf(req) \in SUBSET {r1, r2} /\ HoldersOf(new) \in SUBSET {r1, r2}
  BY DEF HoldersOf
<1>2. /\ Cardinality(HoldersOf(req)) \in Nat /\ Cardinality(HoldersOf(new)) \in Nat
      /\ IsFiniteSet(HoldersOf(req))
  BY <1>1, HandlersFinite
<1>3. CASE h.ticket = "held" => req[r].ticket = "held"
  <2>1. HoldersOf(new) \subseteq HoldersOf(req)
    BY <1>3 DEF HoldersOf
  <2>2. Cardinality(HoldersOf(new)) <= Cardinality(HoldersOf(req))
    BY <1>2, <2>1, FS_Subset
  <2> QED
    BY <1>2, <2>2, SlotsNat
<1>4. CASE h.ticket = "held" /\ req[r].ticket # "held"
  <2>1. HoldersOf(new) = HoldersOf(req) \cup {r} /\ r \notin HoldersOf(req)
    BY <1>4 DEF HoldersOf
  <2>2. Cardinality(HoldersOf(new)) = Cardinality(HoldersOf(req)) + 1
    BY <1>2, <2>1, FS_AddElement
  <2> QED
    BY <1>2, <1>4, <2>2, SlotsNat
<1> QED
  BY <1>3, <1>4

\* The scheduler gives a place only while one is free.
LEMMA HandlerMoves ==
    ASSUME HttpInv, NEW r \in {r1, r2}, NEW h \in Handlers, Serves(h),
           request' = [request EXCEPT ![r] = h], UNCHANGED <<host, jobs, storeOpen, grant>>,
           h.ticket = "held" =>
              request[r].ticket = "held" \/ Cardinality(HoldersOf(request)) < Slots
    PROVE  HttpInv'
<1>1. request \in [{r1, r2} -> Handlers] /\ HandlerTypes /\ StoreFits
  BY DEF HttpInv, HandlerTypes
<1>2. HandlerTypes'
  BY <1>1 DEF HandlerTypes
<1>3. StoreFits'
  BY <1>1 DEF StoreFits
<1>4. ASSUME NEW q \in {r1, r2} PROVE Serves(request[q])'
  <2>1. request'[q] = IF q = r THEN h ELSE request[q]
    BY <1>1
  <2>2. Serves(request'[q])
    BY <2>1 DEF HttpInv
  <2> QED
    BY <2>2 DEF Serves, Http!Closing
<1>5. Cardinality(HoldersOf(request)) <= Slots
  BY DEF HttpInv
<1>6. Cardinality(HoldersOf([request EXCEPT ![r] = h])) <= Slots
  BY <1>1, <1>5, HoldersChange
<1>7. (Cardinality(HoldersOf(request)) <= Slots)'
  <2>1. HoldersOf(request)' = HoldersOf([request EXCEPT ![r] = h])
    BY DEF HoldersOf
  <2> QED
    BY <1>6, <2>1
<1> QED
  BY <1>2, <1>3, <1>4, <1>7 DEF HttpInv

LEMMA EndedIs ==
    /\ Http!NoHandler \in Handlers /\ Http!Ended \in Handlers
    /\ Http!Ended.at = "ended" /\ Http!Ended.ticket = "none" /\ Http!Ended.grant = 0
    /\ Http!Ended.active = FALSE
<1>1. Http!NoHandler \in Handlers /\ "ended" \in {"ended"}
  BY DEF Http!NoHandler, Handlers, Http!Kinds
<1>2. /\ Http!NoHandler.ticket = "none" /\ Http!NoHandler.grant = 0
      /\ Http!NoHandler.active = FALSE
  BY DEF Http!NoHandler
<1>3. [Http!NoHandler EXCEPT !.at = "ended"] \in Handlers
  BY <1>1 DEF Handlers
<1>4. /\ Http!Ended.at = "ended" /\ Http!Ended.ticket = "none" /\ Http!Ended.grant = 0
      /\ Http!Ended.active = FALSE
  BY <1>2 DEF Http!Ended, Http!NoHandler
<1> QED
  BY <1>1, <1>3, <1>4 DEF Http!Ended

LEMMA EndedServes ==
    /\ Http!Ended \in Handlers /\ Http!Ended.ticket # "held"
    /\ grant \in Nat => Serves(Http!Ended)
BY EndedIs DEF Serves

LEMMA HandlerIs ==
    ASSUME HttpInv, NEW r \in {r1, r2}
    PROVE  /\ request[r] \in Handlers /\ Serves(request[r]) /\ grant \in Nat
           /\ host \in {"starting", "serving", "closing", "waiting", "closed", "failed"}
BY SlotsNat DEF HttpInv, HandlerTypes

LEMMA HandlerEnds ==
    ASSUME HttpInv, NEW r \in {r1, r2}, Http!End(r), UNCHANGED <<host, jobs, storeOpen, grant>>
    PROVE  HttpInv'
BY HandlerMoves, EndedServes, HandlerIs DEF Http!End

LEMMA AcceptStep ==
    ASSUME HttpInv, NEW r \in {r1, r2}, NEW kind \in Http!Kinds, Http!Accept(r, kind)
    PROVE  HttpInv'
<1>1. UNCHANGED <<host, jobs, storeOpen, grant>>
  BY DEF Http!Accept
<1>2. CASE Http!End(r)
  BY <1>1, <1>2, HandlerEnds
<1>3. CASE ~Http!End(r)
  <2> DEFINE at == IF kind = "exchange" THEN "reading" ELSE "authenticating"
             h == [Http!NoHandler EXCEPT !.kind = kind, !.connected = TRUE, !.at = at]
  <2>1. request' = [request EXCEPT ![r] = h] /\ host = "serving"
    BY <1>3 DEF Http!Accept
  <2>2. at \in {"reading", "authenticating"}
    OBVIOUS
  <2> HIDE DEF at
  <2>3. h \in Handlers
    BY <2>2, EndedIs DEF Handlers
  <2>4. h.at = at /\ h.ticket = "none" /\ h.active = FALSE /\ h.grant = 0
    BY <2>2 DEF Http!NoHandler
  <2> HIDE DEF h
  <2>5. Serves(h) /\ h.ticket # "held"
    BY <2>1, <2>2, <2>4, HandlerIs DEF Serves
  <2> QED
    BY <1>1, <2>1, <2>3, <2>5, HandlerMoves
<1> QED
  BY <1>2, <1>3

LEMMA AuthenticateStep ==
    ASSUME HttpInv, NEW r \in {r1, r2}, NEW known \in BOOLEAN, Http!Authenticate(r, known)
    PROVE  HttpInv'
<1>1. UNCHANGED <<host, jobs, storeOpen, grant>>
  BY DEF Http!Authenticate
<1>2. CASE Http!End(r)
  BY <1>1, <1>2, HandlerEnds
<1>3. CASE ~Http!End(r)
  <2> DEFINE h == [request[r] EXCEPT !.at = "reading", !.grant = grant]
  <2>1. request' = [request EXCEPT ![r] = h] /\ request[r].at = "authenticating"
    BY <1>3 DEF Http!Authenticate
  <2>2. request[r] \in Handlers /\ Serves(request[r]) /\ grant \in Nat
    BY HandlerIs
  <2>3. h \in Handlers
    BY <2>2 DEF Handlers
  <2>4. /\ h.at = "reading" /\ h.ticket = request[r].ticket /\ h.active = request[r].active
        /\ h.grant = grant
    BY <2>2 DEF Handlers
  <2> HIDE DEF h
  <2>5. Serves(h) /\ (h.ticket = "held" => request[r].ticket = "held")
    BY <2>1, <2>2, <2>4 DEF Serves
  <2> QED
    BY <1>1, <2>1, <2>3, <2>5, HandlerMoves
<1> QED
  BY <1>2, <1>3

LEMMA RouteStep == ASSUME HttpInv, NEW r \in {r1, r2}, Http!Route(r) PROVE HttpInv'
<1>1. UNCHANGED <<host, jobs, storeOpen, grant>> /\ request[r].at = "reading"
  BY DEF Http!Route
<1>2. CASE Http!End(r)
  BY <1>1, <1>2, HandlerEnds
<1>3. request[r] \in Handlers /\ Serves(request[r]) /\ grant \in Nat
  BY HandlerIs
<1>4. CASE ~Http!Closing /\ request' = [request EXCEPT ![r].at = "queued", ![r].active = TRUE,
                                                       ![r].ticket = "waiting"]
  <2> DEFINE h == [request[r] EXCEPT !.at = "queued", !.active = TRUE, !.ticket = "waiting"]
  <2>1. request' = [request EXCEPT ![r] = h]
    BY <1>4
  <2>2. h \in Handlers
    BY <1>3 DEF Handlers
  <2>3. h.at = "queued" /\ h.active = TRUE /\ h.ticket = "waiting" /\ h.grant = request[r].grant
    BY <1>3 DEF Handlers
  <2> HIDE DEF h
  <2>4. Serves(h) /\ h.ticket # "held"
    BY <1>1, <1>3, <1>4, <2>3 DEF Serves
  <2> QED
    BY <1>1, <2>1, <2>2, <2>4, HandlerMoves
<1>5. CASE request' = [request EXCEPT ![r].at = "job", ![r].active = TRUE]
  <2> DEFINE h == [request[r] EXCEPT !.at = "job", !.active = TRUE]
  <2>1. request' = [request EXCEPT ![r] = h]
    BY <1>5
  <2>2. h \in Handlers
    BY <1>3 DEF Handlers
  <2>3. /\ h.at = "job" /\ h.active = TRUE /\ h.ticket = request[r].ticket
        /\ h.grant = request[r].grant
    BY <1>3 DEF Handlers
  <2> HIDE DEF h
  <2>4. Serves(h) /\ h.ticket # "held"
    BY <1>1, <1>3, <2>3 DEF Serves
  <2> QED
    BY <1>1, <2>1, <2>2, <2>4, HandlerMoves
<1>6. CASE request' = [request EXCEPT ![r].at = "manage"]
  <2> DEFINE h == [request[r] EXCEPT !.at = "manage"]
  <2>1. request' = [request EXCEPT ![r] = h]
    BY <1>6
  <2>2. h \in Handlers
    BY <1>3 DEF Handlers
  <2>3. /\ h.at = "manage" /\ h.active = request[r].active /\ h.ticket = request[r].ticket
        /\ h.grant = request[r].grant
    BY <1>3 DEF Handlers
  <2> HIDE DEF h
  <2>4. Serves(h) /\ h.ticket # "held"
    BY <1>1, <1>3, <2>3 DEF Serves
  <2> QED
    BY <1>1, <2>1, <2>2, <2>4, HandlerMoves
<1> QED
  BY <1>2, <1>4, <1>5, <1>6 DEF Http!Route

LEMMA AdmitStep == ASSUME HttpInv, NEW r \in {r1, r2}, Http!Admit(r) PROVE HttpInv'
<1>1. UNCHANGED <<host, jobs, storeOpen, grant>> /\ request[r].at = "queued"
  BY DEF Http!Admit
<1>2. CASE Http!End(r)
  BY <1>1, <1>2, HandlerEnds
<1>3. CASE ~Http!End(r)
  <2> DEFINE sure == request[r].grant = grant
             h == [request[r] EXCEPT !.at = "admitted", !.ticket = "held", !.sure = sure]
  <2>1. /\ request' = [request EXCEPT ![r] = h] /\ ~request[r].aborted
        /\ Http!Cardinality(Http!Running) < Slots
    BY <1>3 DEF Http!Admit
  <2>2. request[r] \in Handlers /\ Serves(request[r]) /\ grant \in Nat
    BY HandlerIs
  <2>3. sure \in BOOLEAN
    OBVIOUS
  <2>4. sure <=> request[r].grant = grant
    OBVIOUS
  <2> HIDE DEF sure
  <2>5. h \in Handlers
    BY <2>2, <2>3 DEF Handlers
  <2>6. /\ h.at = "admitted" /\ h.ticket = "held" /\ h.sure = sure
        /\ h.active = request[r].active /\ h.grant = request[r].grant
        /\ h.aborted = request[r].aborted
    BY <2>2 DEF Handlers
  <2> HIDE DEF h
  <2>7. Serves(h)
    BY <1>1, <2>1, <2>2, <2>4, <2>6 DEF Serves
  <2>8. Cardinality(HoldersOf(request)) < Slots
    <3>1. Http!Running = HoldersOf(request)
      BY DEF Http!Running, HoldersOf
    <3> QED
      BY <2>1, <3>1, HttpCount
  <2> QED
    BY <1>1, <2>1, <2>5, <2>7, <2>8, HandlerMoves
<1> QED
  BY <1>2, <1>3

\* A handler that holds a place goes on, with the place and with its signals.
LEMMA HandlerGoesOn ==
    ASSUME HttpInv, NEW r \in {r1, r2}, NEW place \in {"running", "draining"},
           request[r].at \in {"admitted", "running", "draining"}, request[r].sure,
           request' = [request EXCEPT ![r].at = place], UNCHANGED <<host, jobs, storeOpen, grant>>
    PROVE  HttpInv'
<1> DEFINE h == [request[r] EXCEPT !.at = place]
<1>1. request' = [request EXCEPT ![r] = h]
  OBVIOUS
<1>2. request[r] \in Handlers /\ Serves(request[r]) /\ grant \in Nat
  BY HandlerIs
<1>3. h \in Handlers
  BY <1>2 DEF Handlers
<1>4. /\ h.at = place /\ h.ticket = request[r].ticket /\ h.sure = request[r].sure
      /\ h.active = request[r].active /\ h.grant = request[r].grant
      /\ h.aborted = request[r].aborted
  BY <1>2 DEF Handlers
<1> HIDE DEF h
<1>5. Serves(h)
  BY <1>2, <1>4 DEF Serves
<1> QED
  BY <1>1, <1>3, <1>4, <1>5, HandlerMoves

LEMMA AuthorizeStep == ASSUME HttpInv, NEW r \in {r1, r2}, Http!Authorize(r) PROVE HttpInv'
<1>1. CASE Http!End(r)
  BY <1>1, HandlerEnds DEF Http!Authorize
<1>2. CASE ~Http!End(r)
  <2>1. Serves(request[r])
    BY HandlerIs
  <2>2. request[r].sure
    BY <1>2, <2>1 DEF Http!Authorize, Serves
  <2> QED
    BY <1>2, <2>2, HandlerGoesOn DEF Http!Authorize
<1> QED
  BY <1>1, <1>2

LEMMA ProduceStep ==
    ASSUME HttpInv, NEW r \in {r1, r2}, Http!Produce(r) \/ Http!Drain(r) PROVE HttpInv'
<1>1. CASE Http!End(r)
  BY <1>1, HandlerEnds DEF Http!Produce, Http!Drain
<1>2. CASE ~Http!End(r)
  <2>1. Serves(request[r])
    BY HandlerIs
  <2>2. request[r].sure /\ request[r].at \in {"running", "draining"}
    BY <1>2, <2>1 DEF Http!Produce, Http!Drain, Serves
  <2> QED
    BY <1>2, <2>2, HandlerGoesOn DEF Http!Produce, Http!Drain
<1> QED
  BY <1>1, <1>2

LEMMA RefuseStep ==
    ASSUME HttpInv, NEW r \in {r1, r2}, Http!Refuse(r) \/ Http!Serve(r) PROVE HttpInv'
BY HandlerEnds DEF Http!Refuse, Http!Serve

LEMMA DisconnectedIs ==
    ASSUME NEW h \in Handlers
    PROVE  LET d == Http!Disconnected(h)
           IN  /\ d \in Handlers /\ d.at = h.at /\ d.ticket = h.ticket /\ d.active = h.active
               /\ d.sure = h.sure /\ d.grant = h.grant
               /\ d.aborted <=> h.aborted \/ h.active
<1> DEFINE set == h.aborted \/ h.active
           d == [h EXCEPT !.connected = FALSE, !.aborted = set]
<1>1. set \in BOOLEAN /\ (set <=> h.aborted \/ h.active)
  BY Zenon
<1>2. Http!Disconnected(h) = d
  BY DEF Http!Disconnected
<1> HIDE DEF set
<1>3. d \in Handlers
  BY <1>1 DEF Handlers
<1>4. /\ d.at = h.at /\ d.ticket = h.ticket /\ d.active = h.active
      /\ d.sure = h.sure /\ d.grant = h.grant /\ d.aborted = set
  BY <1>1 DEF Handlers
<1> QED
  BY <1>1, <1>2, <1>3, <1>4

LEMMA DisconnectStep ==
    ASSUME HttpInv, NEW r \in {r1, r2}, Http!Disconnect(r) PROVE HttpInv'
<1> DEFINE h == Http!Disconnected(request[r])
<1>1. request' = [request EXCEPT ![r] = h] /\ UNCHANGED <<host, jobs, storeOpen, grant>>
  BY DEF Http!Disconnect
<1>2. request[r] \in Handlers /\ Serves(request[r])
  BY HandlerIs
<1>3. /\ h \in Handlers /\ h.at = request[r].at /\ h.ticket = request[r].ticket
      /\ h.active = request[r].active /\ h.sure = request[r].sure /\ h.grant = request[r].grant
      /\ h.aborted <=> request[r].aborted \/ request[r].active
  BY <1>2, DisconnectedIs
<1> HIDE DEF h
<1>4. Serves(h)
  BY <1>2, <1>3 DEF Serves
<1> QED
  BY <1>1, <1>3, <1>4, HandlerMoves

\* A step of all handlers that gives no place away.
LEMMA HandlersMove ==
    ASSUME HttpInv, request' \in [{r1, r2} -> Handlers],
           \A r \in {r1, r2} : request'[r].ticket = request[r].ticket
    PROVE  (Cardinality(HoldersOf(request)) <= Slots)'
<1>1. HoldersOf(request)' = HoldersOf(request)
  BY DEF HoldersOf
<1> QED
  BY <1>1 DEF HttpInv

LEMMA ChangeStep == ASSUME HttpInv, Http!Change PROVE HttpInv'
<1> DEFINE q(r) == IF request[r].at = "admitted" THEN [request[r] EXCEPT !.sure = FALSE]
                   ELSE request[r]
<1>1. /\ grant \in Nat /\ grant < MaxChanges /\ grant' = grant + 1
      /\ UNCHANGED <<host, jobs, storeOpen>> /\ request' = [r \in {r1, r2} |-> q(r)]
  BY SlotsNat DEF HttpInv, HandlerTypes, Http!Change
<1>2. ASSUME NEW r \in {r1, r2}
      PROVE  /\ q(r) \in Handlers /\ q(r).ticket = request[r].ticket /\ q(r).at = request[r].at
             /\ q(r).active = request[r].active /\ q(r).grant = request[r].grant
             /\ q(r).aborted = request[r].aborted
             /\ request[r].at # "admitted" => q(r).sure = request[r].sure
             /\ Serves(request[r]) /\ request[r] \in Handlers
  <2>1. request[r] \in Handlers /\ Serves(request[r])
    BY HandlerIs
  <2>2. CASE request[r].at = "admitted"
    <3>1. q(r) = [request[r] EXCEPT !.sure = FALSE]
      BY <2>2
    <3>2. [request[r] EXCEPT !.sure = FALSE] \in Handlers
      BY <2>1 DEF Handlers
    <3> QED
      BY <2>1, <2>2, <3>1, <3>2 DEF Handlers
  <2>3. CASE request[r].at # "admitted"
    <3>1. q(r) = request[r] /\ request[r].sure \in BOOLEAN
      BY <2>1, <2>3 DEF Handlers
    <3> QED
      BY <2>1, <2>3, <3>1
  <2> QED
    BY <2>2, <2>3
<1> HIDE DEF q
<1>3. request' \in [{r1, r2} -> Handlers] /\ \A r \in {r1, r2} : request'[r] = q(r)
  BY <1>1, <1>2
<1>4. HandlerTypes'
  BY <1>1, <1>3, SlotsNat DEF HttpInv, HandlerTypes
<1>5. StoreFits'
  BY <1>1 DEF HttpInv, StoreFits
<1>6. ASSUME NEW r \in {r1, r2} PROVE Serves(request[r])'
  <2>1. request[r].grant \in Nat
    BY <1>2 DEF Handlers
  <2> QED
    BY <1>1, <1>2, <1>3, <2>1 DEF Serves, Http!Closing
<1>7. (Cardinality(HoldersOf(request)) <= Slots)'
  BY <1>2, <1>3, HandlersMove
<1> QED
  BY <1>4, <1>5, <1>6, <1>7 DEF HttpInv

LEMMA CloseStep == ASSUME HttpInv, Http!Close PROVE HttpInv'
<1> DEFINE set(r) == Http!Disconnected(request[r]).aborted \/ request[r].active
           q(r) == IF r \in Http!Handling
                   THEN [Http!Disconnected(request[r]) EXCEPT !.aborted = set(r)]
                   ELSE request[r]
<1>1. /\ host' = "closing" /\ jobs' = "closing" /\ host = "serving"
      /\ UNCHANGED <<storeOpen, grant>> /\ request' = [r \in {r1, r2} |-> q(r)]
  BY DEF Http!Close
<1>2. ASSUME NEW r \in {r1, r2}
      PROVE  /\ q(r) \in Handlers /\ q(r).ticket = request[r].ticket /\ q(r).at = request[r].at
             /\ q(r).active = request[r].active /\ q(r).grant = request[r].grant
             /\ q(r).sure = request[r].sure /\ Serves(request[r])
             /\ q(r).active => q(r).aborted
  <2>1. request[r] \in Handlers /\ Serves(request[r])
    BY HandlerIs
  <2>2. CASE r \in Http!Handling
    <3> DEFINE d == Http!Disconnected(request[r])
    <3>1. /\ d \in Handlers /\ d.at = request[r].at /\ d.ticket = request[r].ticket
          /\ d.active = request[r].active /\ d.sure = request[r].sure
          /\ d.grant = request[r].grant
      BY <2>1, DisconnectedIs
    <3>2. set(r) \in BOOLEAN /\ (set(r) <=> d.aborted \/ request[r].active)
      BY Zenon
    <3>3. q(r) = [d EXCEPT !.aborted = set(r)]
      BY <2>2
    <3> HIDE DEF q, set, d
    <3>4. [d EXCEPT !.aborted = set(r)] \in Handlers
      BY <3>1, <3>2 DEF Handlers
    <3>5. /\ q(r).ticket = d.ticket /\ q(r).at = d.at /\ q(r).active = d.active
          /\ q(r).grant = d.grant /\ q(r).sure = d.sure /\ q(r).aborted = set(r)
      BY <3>1, <3>3 DEF Handlers
    <3> QED
      BY <2>1, <3>1, <3>2, <3>3, <3>4, <3>5
  <2>3. CASE r \notin Http!Handling
    <3>1. request[r].at \in {"idle", "ended"}
      BY <2>3 DEF Http!Handling
    <3> QED
      BY <2>1, <2>3, <3>1 DEF Serves
  <2> QED
    BY <2>2, <2>3
<1> HIDE DEF q
<1>3. request' \in [{r1, r2} -> Handlers] /\ \A r \in {r1, r2} : request'[r] = q(r)
  BY <1>1, <1>2
<1>4. HandlerTypes'
  BY <1>1, <1>3 DEF HttpInv, HandlerTypes
<1>5. StoreFits'
  BY <1>1 DEF HttpInv, StoreFits
<1>6. ASSUME NEW r \in {r1, r2} PROVE Serves(request[r])'
  BY <1>1, <1>2, <1>3 DEF Serves
<1>7. (Cardinality(HoldersOf(request)) <= Slots)'
  BY <1>2, <1>3, HandlersMove
<1> QED
  BY <1>4, <1>5, <1>6, <1>7 DEF HttpInv

\* A step of the host alone, which no handler notices.
LEMMA HostMoves ==
    ASSUME HttpInv, UNCHANGED <<grant, request>>, StoreFits',
           host' \in {"serving", "closing", "waiting", "closed", "starting", "failed"},
           jobs' \in {"none", "open", "closing", "closed"}, storeOpen' \in BOOLEAN,
           \/ host' = host
           \/ host = "starting" /\ host' \in {"serving", "failed"}
           \/ Http!Handling = {}
    PROVE  HttpInv'
<1>1. HandlerTypes'
  BY DEF HttpInv, HandlerTypes
<1>2. ASSUME NEW r \in {r1, r2} PROVE Serves(request[r])'
  <2>1. Serves(request[r])
    BY HandlerIs
  <2>2. CASE request[r].at \in {"idle", "ended"}
    BY <2>1, <2>2 DEF Serves
  <2>3. CASE request[r].at \notin {"idle", "ended"}
    <3>1. r \in Http!Handling /\ host \in {"serving", "closing"}
      BY <2>1, <2>3 DEF Http!Handling, Serves
    <3>2. host' = host
      BY <3>1
    <3> QED
      BY <2>1, <3>2 DEF Serves, Http!Closing
  <2> QED
    BY <2>2, <2>3
<1>3. (Cardinality(HoldersOf(request)) <= Slots)'
  BY DEF HttpInv, HoldersOf
<1> QED
  BY <1>1, <1>2, <1>3 DEF HttpInv

LEMMA HostStep ==
    ASSUME HttpInv, \/ Http!OpenStore \/ Http!OpenJobs \/ Http!Started \/ Http!StartFailed
                    \/ Http!JobsStopped \/ Http!Settle \/ Http!CloseStore
    PROVE  HttpInv'
<1>1. HandlerTypes /\ StoreFits
  BY DEF HttpInv
<1>2. CASE Http!OpenStore
  BY <1>1, <1>2, HostMoves DEF Http!OpenStore, StoreFits, HandlerTypes
<1>3. CASE Http!OpenJobs
  BY <1>1, <1>3, HostMoves DEF Http!OpenJobs, StoreFits, HandlerTypes
<1>4. CASE Http!Started
  BY <1>1, <1>4, HostMoves DEF Http!Started, StoreFits, HandlerTypes
<1>5. CASE Http!StartFailed
  BY <1>1, <1>5, HostMoves DEF Http!StartFailed, StoreFits, HandlerTypes
<1>6. CASE Http!JobsStopped
  BY <1>1, <1>6, HostMoves DEF Http!JobsStopped, StoreFits, HandlerTypes
<1>7. CASE Http!Settle
  BY <1>1, <1>7, HostMoves DEF Http!Settle, StoreFits, HandlerTypes
<1>8. CASE Http!CloseStore
  <2>1. Http!Handling = {}
    <3>1. \A r \in {r1, r2} : request[r].at \in {"idle", "ended"}
      BY <1>8, HandlerIs DEF Http!CloseStore, Serves
    <3> QED
      BY <3>1 DEF Http!Handling
  <2> QED
    BY <1>1, <1>8, <2>1, HostMoves DEF Http!CloseStore, StoreFits, HandlerTypes
<1> QED
  BY <1>2, <1>3, <1>4, <1>5, <1>6, <1>7, <1>8

LEMMA HttpNext == ASSUME HttpInv, Http!Next PROVE HttpInv'
BY HostStep, CloseStep, ChangeStep, AcceptStep, RouteStep, RefuseStep, ProduceStep,
   DisconnectStep, AuthenticateStep, AdmitStep, AuthorizeStep
   DEF Http!Next, Http!Progress

LEMMA HttpRests == ASSUME HttpInv, UNCHANGED hostVars PROVE HttpInv'
BY DEF HttpInv, hostVars, HandlerTypes, StoreFits, Serves, HoldersOf, Http!Closing

LEMMA HttpBegins == ASSUME Http!Init PROVE HttpInv
<1>1. Http!NoHandler \in Handlers
  BY EndedIs
<1>2. HandlerTypes
  <2>1. request \in [{r1, r2} -> Handlers]
    BY <1>1 DEF Http!Init
  <2>2. grant \in 0 .. MaxChanges
    BY SlotsNat DEF Http!Init
  <2> QED
    BY <2>1, <2>2 DEF Http!Init, HandlerTypes
<1>3. StoreFits
  BY DEF Http!Init, StoreFits
<1>4. \A r \in {r1, r2} : Serves(request[r])
  BY DEF Http!Init, Serves, Http!NoHandler, Http!Closing
<1>5. HoldersOf(request) = {}
  BY DEF Http!Init, HoldersOf, Http!NoHandler
<1>6. Cardinality(HoldersOf(request)) <= Slots
  BY <1>5, FS_EmptySet, SlotsNat
<1> QED
  BY <1>2, <1>3, <1>4, <1>6 DEF HttpInv

\* A request runs only while its credential is granted what it was granted when the
\* request came, a close tells everything it leaves running, and no more requests run
\* than there are slots, for any number of slots and of changes of the grant
\* (src/src/server.ts).
THEOREM RequestsRunGranted == RequestsSpec => []RunsAreGranted
<1>1. RequestsInit => HttpInv
  BY HttpBegins DEF RequestsInit
<1>2. HttpInv /\ [RequestsNext]_allVars => HttpInv'
  BY HttpNext, HttpRests DEF RequestsNext, allVars
<1>3. HttpInv => RunsAreGranted
  <2> SUFFICES ASSUME HttpInv PROVE RunsAreGranted
    OBVIOUS
  <2>1. /\ HandlerTypes /\ StoreFits
        /\ \A r \in {r1, r2} : request[r] \in Handlers /\ Serves(request[r])
    BY HandlerIs DEF HttpInv
  <2>2. Http!TypeOK
    BY <2>1 DEF HandlerTypes, Handlers, Http!TypeOK
  <2>3. Http!RunsAreGranted
    BY <2>1 DEF Serves, Http!RunsAreGranted
  <2>4. Http!Cardinality(Http!Running) <= Slots
    <3>1. Http!Running = HoldersOf(request) /\ Cardinality(HoldersOf(request)) <= Slots
      BY DEF HttpInv, Http!Running, HoldersOf
    <3> QED
      BY <3>1, HttpCount
  <2>5. Http!Closing => \A r \in {r1, r2} :
           request[r].active => request[r].aborted \/ request[r].at = "job"
    BY <2>1 DEF Serves
  <2>6. ~storeOpen => jobs \in {"none", "closed"} /\ \A r \in {r1, r2} : request[r].at # "job"
    BY <2>1 DEF HandlerTypes, StoreFits, Serves
  <2> QED
    BY <2>2, <2>3, <2>4, <2>5, <2>6 DEF RunsAreGranted, Http!CloseReachesAll
<1> QED
  BY <1>1, <1>2, <1>3, PTL DEF RequestsSpec

-----------------------------------------------------------------------------
(* The desktop application: its settings survive a crash.                    *)

FileNames == 0 .. MaxNames
Disks == [hosts : [Hosts -> FileNames], usage : FileNames, files : SUBSET (1 .. MaxNames)]
Ops == [kind : {"none", "stop", "connect", "forget", "usage", "tunnel"}, step : {0, 1, 2},
        host : Hosts, name : FileNames, interrupt : BOOLEAN]
Checks == [host : Hosts, name : FileNames, shown : [Hosts -> FileNames]]
Tunnels == [status : {"stopped", "starting", "running", "failed"},
            supervisor : {"none", "starting", "ready", "ending"}, ssh : BOOLEAN]

DeskTypes ==
    /\ desk \in [at : {"down", "up", "closing"}, lock : BOOLEAN]
    /\ disk \in Disks /\ names \in FileNames
    /\ server \in [up : BOOLEAN, active : BOOLEAN]
    /\ op \in Ops /\ check \in Checks /\ tunnel \in Tunnels

\* No setting refers to a file of this name.
Unreferred(name) == disk.usage # name /\ \A h \in Hosts : disk.hosts[h] # name

\* Names are drawn once: no two settings refer to one file.
NamesFit ==
    /\ disk.usage <= names /\ \A h \in Hosts : disk.hosts[h] <= names
    /\ \A g, h \in Hosts : disk.hosts[g] = disk.hosts[h] /\ disk.hosts[g] # 0 => g = h
    /\ disk.usage # 0 => \A h \in Hosts : disk.hosts[h] # disk.usage

\* What the operation in progress writes or removes is not what the settings use.
OpFits ==
    /\ op.name <= names
    /\ op.kind = "connect" => /\ op.name # 0 /\ Unreferred(op.name)
                              /\ op.step = 2 => op.name \in disk.files
    /\ op.kind = "forget" /\ op.step = 1 => op.name # 0 /\ disk.hosts[op.host] = op.name
    /\ op.kind = "forget" /\ op.step = 2 => Unreferred(op.name)
    /\ op.kind = "usage" /\ op.step = 1 =>
          op.name = 0 \/ (Unreferred(op.name) /\ op.name \in disk.files)
    /\ op.kind = "usage" /\ op.step = 2 => op.name = 0 \/ Unreferred(op.name)

\* A tunnel that is up or comes up has its host.
TunnelFits ==
    /\ tunnel.supervisor \in {"starting", "ready"} => server.up
    /\ tunnel.status = "running" => server.up
    /\ tunnel.ssh => tunnel.supervisor # "none"

DeskInv ==
    /\ DeskTypes /\ NamesFit /\ OpFits /\ TunnelFits
    /\ Desk!SettingsAreUsable /\ Desk!ChecksAreCurrent

LEMMA NamesNat == MaxNames \in Nat /\ Hosts # {}
BY RequestsAssumption

Quiet(o) == o.kind \in {"none", "stop", "tunnel"} /\ o.name = 0

LEMMA NoOpIs ==
    /\ Desk!NoOp \in Ops /\ Desk!NoOp.kind = "none" /\ Desk!NoOp.name = 0 /\ Desk!NoOp.step = 0
    /\ Quiet(Desk!NoOp)
    /\ Desk!NoCheck \in Checks /\ Desk!NoCheck.shown = [h \in Hosts |-> 0]
<1>1. 0 \in FileNames /\ (CHOOSE h \in Hosts : TRUE) \in Hosts
  BY NamesNat DEF FileNames
<1> DEFINE first == CHOOSE h \in Hosts : TRUE
<1>2. first \in Hosts /\ 0 \in FileNames
  BY <1>1
<1>3. /\ Desk!NoOp = [kind |-> "none", step |-> 0, host |-> first, name |-> 0,
                      interrupt |-> FALSE]
      /\ Desk!NoCheck = [host |-> first, name |-> 0, shown |-> [h \in Hosts |-> 0]]
  BY DEF Desk!NoOp, Desk!NoCheck
<1> HIDE DEF first
<1> QED
  BY <1>2, <1>3 DEF Ops, Checks, Quiet

LEMMA DeskIs ==
    ASSUME DeskInv
    PROVE  /\ disk \in Disks /\ op \in Ops /\ check \in Checks /\ tunnel \in Tunnels
           /\ desk \in [at : {"down", "up", "closing"}, lock : BOOLEAN]
           /\ server \in [up : BOOLEAN, active : BOOLEAN]
           /\ names \in Nat /\ names <= MaxNames /\ MaxNames \in Nat
BY NamesNat DEF DeskInv, DeskTypes, FileNames

\* An operation that begins, with its kind and the arguments it needs.
LEMMA OpBegins ==
    ASSUME NEW kind \in {"stop", "tunnel"}, NEW interrupt \in BOOLEAN, NEW o,
           \/ o = [Desk!NoOp EXCEPT !.kind = kind, !.step = 1]
           \/ o = [Desk!NoOp EXCEPT !.kind = kind, !.step = 1, !.interrupt = interrupt]
    PROVE  o \in Ops /\ Quiet(o)
<1>1. Desk!NoOp \in Ops /\ Desk!NoOp.name = 0
  BY NoOpIs
<1>2. o \in Ops
  BY <1>1 DEF Ops
<1>3. o.kind = kind /\ o.name = 0
  BY <1>1 DEF Ops
<1> QED
  BY <1>2, <1>3 DEF Quiet

\* A step that leaves the settings alone.
LEMMA DeskRests ==
    ASSUME DeskInv, DeskTypes', UNCHANGED <<disk, names>>, op' = op \/ Quiet(op'),
           check'.shown = check.shown \/ check'.shown = [h \in Hosts |-> 0], TunnelFits'
    PROVE  DeskInv'
<1>1. /\ NamesFit /\ OpFits /\ Desk!SettingsAreUsable /\ Desk!ChecksAreCurrent
      /\ disk.usage \in Nat /\ names \in Nat
  BY DeskIs DEF DeskInv, Disks, FileNames
<1>2. NamesFit' /\ Desk!SettingsAreUsable'
  BY <1>1 DEF NamesFit, Desk!SettingsAreUsable
<1>3. OpFits'
  <2>1. CASE op' = op
    BY <1>1, <2>1 DEF OpFits, Unreferred
  <2>2. CASE Quiet(op')
    <3>1. op'.name <= names'
      BY <1>1, <2>2 DEF Quiet
    <3> QED
      BY <2>2, <3>1 DEF OpFits, Quiet
  <2> QED
    BY <2>1, <2>2
<1>4. Desk!ChecksAreCurrent'
  BY <1>1 DEF Desk!ChecksAreCurrent
<1> QED
  BY <1>2, <1>3, <1>4 DEF DeskInv

\* A step of the worker, the host and the tunnel.
LEMMA WorkerStep ==
    ASSUME DeskInv, \/ Desk!Launch \/ Desk!Crash \/ Desk!Closed \/ Desk!StartHost
                    \/ Desk!Request \/ Desk!Respond
                    \/ Desk!Stopped \/ Desk!Master \/ Desk!Fails
    PROVE  DeskInv'
<1>1. /\ disk \in Disks /\ op \in Ops /\ check \in Checks /\ tunnel \in Tunnels
      /\ desk \in [at : {"down", "up", "closing"}, lock : BOOLEAN]
      /\ server \in [up : BOOLEAN, active : BOOLEAN] /\ DeskTypes /\ TunnelFits
  BY DeskIs DEF DeskInv
<1>2. Desk!NoServer \in [up : BOOLEAN, active : BOOLEAN] /\ Desk!NoServer.up = FALSE
  BY DEF Desk!NoServer
<1>3. CASE Desk!Launch
  <2>1. DeskTypes'
    BY <1>1, <1>3 DEF Desk!Launch, DeskTypes
  <2> QED
    BY <1>1, <1>3, <2>1, DeskRests DEF Desk!Launch, TunnelFits
<1>4. CASE Desk!Crash
  <2> DEFINE supervisor == IF tunnel.supervisor = "none" THEN tunnel.supervisor ELSE "ending"
             t == [tunnel EXCEPT !.status = "stopped", !.supervisor = supervisor]
  <2>1. tunnel' = t
    BY <1>4 DEF Desk!Crash, Desk!Orphaned
  <2>2. supervisor \in {"none", "ending"} /\ (tunnel.supervisor # "none" => supervisor # "none")
    BY <1>1 DEF Tunnels
  <2> HIDE DEF supervisor
  <2>3. t \in Tunnels
    BY <1>1, <2>2 DEF Tunnels
  <2>4. t.status = "stopped" /\ t.supervisor = supervisor /\ t.ssh = tunnel.ssh
    BY <1>1 DEF Tunnels
  <2> HIDE DEF t
  <2>5. DeskTypes'
    <3>1. desk' \in [at : {"down", "up", "closing"}, lock : BOOLEAN]
      BY <1>1, <1>4 DEF Desk!Crash
    <3> QED
      BY <1>1, <1>2, <1>4, <2>1, <2>3, <3>1, NoOpIs DEF Desk!Crash, DeskTypes
  <2>6. TunnelFits'
    BY <1>1, <2>1, <2>2, <2>4 DEF TunnelFits
  <2> QED
    BY <1>4, <2>5, <2>6, NoOpIs, DeskRests DEF Desk!Crash
<1>5. CASE Desk!Closed
  <2>1. /\ desk' \in [at : {"down", "up", "closing"}, lock : BOOLEAN]
        /\ check' \in Checks /\ check'.shown \in {check.shown, [h \in Hosts |-> 0]}
        /\ UNCHANGED <<disk, names, server, op, tunnel>>
    BY <1>1, <1>5, NoOpIs DEF Desk!Closed
  <2>2. DeskTypes'
    BY <1>1, <2>1 DEF DeskTypes
  <2> QED
    BY <1>1, <2>1, <2>2, DeskRests DEF TunnelFits
<1>6. CASE Desk!StartHost \/ Desk!Request \/ Desk!Respond
  <2>1. /\ server' \in [up : BOOLEAN, active : BOOLEAN] /\ (server.up => server'.up)
        /\ UNCHANGED <<desk, disk, names, op, check, tunnel>>
    BY <1>1, <1>6 DEF Desk!StartHost, Desk!Request, Desk!Respond
  <2>2. DeskTypes'
    BY <1>1, <2>1 DEF DeskTypes
  <2> QED
    BY <1>1, <2>1, <2>2, DeskRests DEF TunnelFits
<1>7. CASE Desk!Stopped
  <2>1. /\ tunnel' \in Tunnels /\ tunnel'.status = "stopped" /\ tunnel'.supervisor = "none"
        /\ tunnel'.ssh = tunnel.ssh /\ tunnel.supervisor = "none"
        /\ server' = Desk!NoServer /\ op' = Desk!NoOp /\ UNCHANGED <<desk, disk, names, check>>
    BY <1>1, <1>7 DEF Desk!Stopped, Desk!Done, Tunnels
  <2>2. DeskTypes'
    BY <1>1, <1>2, <2>1, NoOpIs DEF DeskTypes
  <2> QED
    BY <1>1, <2>1, <2>2, NoOpIs, DeskRests DEF TunnelFits
<1>8. CASE Desk!Master \/ Desk!Fails
  <2>1. /\ tunnel' \in Tunnels
        /\ tunnel'.supervisor \in {"starting", "ready"} => tunnel.supervisor = tunnel'.supervisor
        /\ tunnel'.status = "running" => tunnel.status = "running"
        /\ tunnel'.supervisor # "none"
        /\ UNCHANGED <<desk, disk, names, server, op, check>>
    BY <1>1, <1>8 DEF Desk!Master, Desk!Fails, Tunnels
  <2>2. DeskTypes'
    BY <1>1, <2>1 DEF DeskTypes
  <2> QED
    BY <1>1, <2>1, <2>2, DeskRests DEF TunnelFits
<1> QED
  BY <1>3, <1>4, <1>5, <1>6, <1>7, <1>8

\* A step of the tunnel that begins or ends an operation of the worker.
LEMMA TunnelStep ==
    ASSUME DeskInv, NEW interrupt \in BOOLEAN,
           \/ Desk!Close(interrupt) \/ Desk!Stop(interrupt) \/ Desk!StopChecked
           \/ Desk!StopTunnel(interrupt) \/ Desk!StartTunnel \/ Desk!Forwarded \/ Desk!Ended
    PROVE  DeskInv'
<1>1. /\ disk \in Disks /\ op \in Ops /\ check \in Checks /\ tunnel \in Tunnels
      /\ desk \in [at : {"down", "up", "closing"}, lock : BOOLEAN]
      /\ server \in [up : BOOLEAN, active : BOOLEAN] /\ DeskTypes /\ TunnelFits
  BY DeskIs DEF DeskInv
<1>3. CASE Desk!Close(interrupt) \/ Desk!Stop(interrupt)
  <2>1. op' \in Ops /\ Quiet(op') /\ UNCHANGED <<disk, names, server, check, tunnel>>
    BY <1>3, OpBegins DEF Desk!Close, Desk!Stop
  <2>2. desk' \in [at : {"down", "up", "closing"}, lock : BOOLEAN]
    BY <1>1, <1>3 DEF Desk!Close, Desk!Stop
  <2>3. DeskTypes'
    BY <1>1, <2>1, <2>2 DEF DeskTypes
  <2> QED
    BY <1>1, <2>1, <2>3, DeskRests DEF TunnelFits
<1>4. /\ Desk!Stopping(tunnel) \in Tunnels
      /\ Desk!Stopping(tunnel).status = tunnel.status /\ Desk!Stopping(tunnel).ssh = tunnel.ssh
      /\ Desk!Stopping(tunnel).supervisor \in {"none", "ending"}
      /\ tunnel.supervisor # "none" => Desk!Stopping(tunnel).supervisor # "none"
  <2> DEFINE supervisor == IF tunnel.supervisor = "none" THEN tunnel.supervisor ELSE "ending"
             t == [tunnel EXCEPT !.supervisor = supervisor]
  <2>1. Desk!Stopping(tunnel) = t
    BY DEF Desk!Stopping
  <2>2. supervisor \in {"none", "ending"} /\ (tunnel.supervisor # "none" => supervisor # "none")
    BY <1>1 DEF Tunnels
  <2> HIDE DEF supervisor
  <2>3. t \in Tunnels
    BY <1>1, <2>2 DEF Tunnels
  <2>4. t.status = tunnel.status /\ t.supervisor = supervisor /\ t.ssh = tunnel.ssh
    BY <1>1 DEF Tunnels
  <2> QED
    BY <2>1, <2>2, <2>3, <2>4
<1>5. CASE Desk!StopChecked
  <2>1. UNCHANGED <<desk, disk, names, server, check>> /\ op.kind = "stop"
    BY <1>5 DEF Desk!StopChecked, Desk!In
  <2>2. op' \in Ops /\ (op' = Desk!NoOp \/ (op'.kind = "stop" /\ op'.name = op.name))
    <3>1. [op EXCEPT !.step = 2] \in Ops
      BY <1>1 DEF Ops
    <3> QED
      BY <1>1, <1>5, <2>1, <3>1, NoOpIs DEF Desk!StopChecked, Desk!Advance, Desk!Done, Ops
  <2>3. tunnel' = tunnel \/ tunnel' = Desk!Stopping(tunnel)
    BY <1>5 DEF Desk!StopChecked
  <2>4. DeskTypes'
    BY <1>1, <1>4, <2>1, <2>2, <2>3 DEF DeskTypes
  <2>5. TunnelFits'
    BY <1>1, <1>4, <2>1, <2>3 DEF TunnelFits
  <2>6. OpFits'
    BY <2>1, <2>2, NoOpIs, DeskIs DEF OpFits, DeskInv
  <2> QED
    BY <2>1, <2>4, <2>5, <2>6 DEF DeskInv, NamesFit, Desk!SettingsAreUsable, Desk!ChecksAreCurrent
<1>6. CASE Desk!StopTunnel(interrupt)
  <2>1. op' \in Ops /\ Quiet(op') /\ tunnel' = Desk!Stopping(tunnel)
        /\ UNCHANGED <<desk, disk, names, server, check>>
    BY <1>6, OpBegins DEF Desk!StopTunnel, Desk!Go
  <2>2. DeskTypes' /\ TunnelFits'
    BY <1>1, <1>4, <2>1 DEF DeskTypes, TunnelFits
  <2> QED
    BY <2>1, <2>2, DeskRests
<1>7. CASE Desk!StartTunnel
  <2>1. op' \in Ops /\ Quiet(op') /\ server.up /\ UNCHANGED <<desk, disk, names, server, check>>
    BY <1>7, OpBegins DEF Desk!StartTunnel, Desk!Go
  <2>2. tunnel' \in Tunnels /\ tunnel'.supervisor = "starting" /\ tunnel'.status = "starting"
    BY <1>1, <1>7 DEF Desk!StartTunnel, Tunnels
  <2>3. DeskTypes' /\ TunnelFits'
    BY <1>1, <2>1, <2>2 DEF DeskTypes, TunnelFits
  <2> QED
    BY <2>1, <2>3, DeskRests
<1>8. CASE Desk!Forwarded
  <2>1. op' = Desk!NoOp /\ tunnel.supervisor = "starting"
        /\ UNCHANGED <<desk, disk, names, server, check>>
    BY <1>8 DEF Desk!Forwarded, Desk!Done
  <2>2. tunnel' \in Tunnels /\ tunnel'.supervisor = "ready" /\ tunnel'.status = "running"
    BY <1>1, <1>8 DEF Desk!Forwarded, Tunnels
  <2>3. DeskTypes' /\ TunnelFits'
    BY <1>1, <2>1, <2>2, NoOpIs DEF DeskTypes, TunnelFits
  <2> QED
    BY <2>1, <2>3, NoOpIs, DeskRests
<1>9. CASE Desk!Ended
  <2> DEFINE status == IF tunnel.status = "failed" THEN tunnel.status ELSE "stopped"
             t == [tunnel EXCEPT !.supervisor = "none", !.ssh = FALSE, !.status = status]
  <2>1. tunnel' = t /\ (op' = Desk!NoOp \/ op' = op) /\ UNCHANGED <<desk, disk, names, server, check>>
    BY <1>9 DEF Desk!Ended, Desk!Done
  <2>2. status \in {"failed", "stopped"}
    BY DEF status
  <2> HIDE DEF status
  <2>3. t \in Tunnels /\ t.supervisor = "none" /\ t.ssh = FALSE /\ t.status = status
    BY <1>1, <2>2 DEF Tunnels
  <2> HIDE DEF t
  <2>4. DeskTypes' /\ TunnelFits'
    BY <1>1, <2>1, <2>2, <2>3, NoOpIs DEF DeskTypes, TunnelFits
  <2> QED
    BY <2>1, <2>4, NoOpIs, DeskRests
<1> QED
  BY <1>3, <1>5, <1>6, <1>7, <1>8, <1>9

\* An operation that begins on the files of the profile.
LEMMA FilesBegin ==
    ASSUME DeskInv, NEW h \in Hosts, Desk!Connect(h) \/ Desk!Forget(h) \/ Desk!UsageSettings
    PROVE  DeskInv'
<1>1. /\ disk \in Disks /\ op \in Ops /\ check \in Checks /\ tunnel \in Tunnels
      /\ desk \in [at : {"down", "up", "closing"}, lock : BOOLEAN]
      /\ names \in Nat /\ names <= MaxNames /\ MaxNames \in Nat
      /\ DeskTypes /\ NamesFit /\ TunnelFits /\ Desk!SettingsAreUsable /\ Desk!ChecksAreCurrent
  BY DeskIs DEF DeskInv
<1>2. disk.hosts \in [Hosts -> FileNames] /\ disk.usage \in FileNames
      /\ disk.files \in SUBSET (1 .. MaxNames)
  BY <1>1 DEF Disks
<1>3. CASE Desk!Connect(h)
  <2> DEFINE name == names + 1
  <2>1. /\ names < MaxNames /\ names' = name /\ UNCHANGED <<desk, disk, server, check, tunnel>>
        /\ op' = [Desk!NoOp EXCEPT !.kind = "connect", !.step = 1, !.host = h, !.name = name]
    BY <1>3 DEF Desk!Connect
  <2>2. name \in FileNames /\ name # 0 /\ names <= name /\ \A n \in FileNames : n <= names => n # name
    BY <1>1, <2>1 DEF FileNames
  <2>n. \A n \in FileNames : n <= names => n <= name
    BY <1>1, <2>1 DEF FileNames
  <2>t. name <= name
    BY <1>1
  <2> HIDE DEF name
  <2>3. op' \in Ops /\ op'.kind = "connect" /\ op'.name = name /\ op'.step = 1
    <3>1. Desk!NoOp \in Ops
      BY NoOpIs
    <3>2. op' \in Ops
      BY <2>1, <2>2, <3>1 DEF Ops
    <3> QED
      BY <2>1, <2>2, <3>1, <3>2 DEF Ops
  <2>4. DeskTypes'
    BY <1>1, <2>1, <2>2, <2>3 DEF DeskTypes
  <2>5. NamesFit'
    BY <1>1, <1>2, <2>1, <2>n DEF NamesFit
  <2>6. OpFits'
    <3>1. Unreferred(name)
      BY <1>1, <1>2, <2>2 DEF NamesFit, Unreferred
    <3> QED
      BY <2>1, <2>2, <2>3, <2>t, <3>1 DEF OpFits, Unreferred
  <2> QED
    BY <1>1, <2>1, <2>4, <2>5, <2>6
       DEF DeskInv, TunnelFits, Desk!SettingsAreUsable, Desk!ChecksAreCurrent
<1>4. CASE Desk!Forget(h)
  <2>1. /\ UNCHANGED <<desk, disk, names, server, check, tunnel>> /\ disk.hosts[h] # 0
        /\ op' = [Desk!NoOp EXCEPT !.kind = "forget", !.step = 1, !.host = h, !.name = disk.hosts[h]]
    BY <1>4 DEF Desk!Forget
  <2>2. disk.hosts[h] \in FileNames /\ disk.hosts[h] <= names
    BY <1>1, <1>2 DEF NamesFit
  <2>3. /\ op' \in Ops /\ op'.kind = "forget" /\ op'.name = disk.hosts[h] /\ op'.step = 1
        /\ op'.host = h
    <3>1. Desk!NoOp \in Ops
      BY NoOpIs
    <3>2. op' \in Ops
      BY <2>1, <2>2, <3>1 DEF Ops
    <3> QED
      BY <2>1, <2>2, <3>1, <3>2 DEF Ops
  <2>4. DeskTypes'
    BY <1>1, <2>1, <2>3 DEF DeskTypes
  <2>5. OpFits'
    BY <2>1, <2>2, <2>3 DEF OpFits
  <2> QED
    BY <1>1, <2>1, <2>4, <2>5
       DEF DeskInv, NamesFit, TunnelFits, Desk!SettingsAreUsable, Desk!ChecksAreCurrent
<1>5. CASE Desk!UsageSettings /\ names < MaxNames /\ names' = names + 1
           /\ op' = [Desk!NoOp EXCEPT !.kind = "usage", !.step = 1, !.name = names + 1]
           /\ disk' = [disk EXCEPT !.files = @ \cup {names + 1}]
  <2> DEFINE name == names + 1
             files == disk.files \cup {name}
  <2>1. /\ names < MaxNames /\ names' = name /\ UNCHANGED <<desk, server, check, tunnel>>
        /\ op' = [Desk!NoOp EXCEPT !.kind = "usage", !.step = 1, !.name = name]
        /\ disk' = [disk EXCEPT !.files = files]
    BY <1>5 DEF Desk!UsageSettings
  <2>2. /\ name \in FileNames /\ name \in 1 .. MaxNames /\ name # 0 /\ name <= name
        /\ \A n \in FileNames : n <= names => n # name /\ n <= name
    BY <1>1, <2>1 DEF FileNames
  <2>3. files \in SUBSET (1 .. MaxNames) /\ disk.files \subseteq files /\ name \in files
    BY <1>2, <2>2
  <2> HIDE DEF name, files
  <2>4. op' \in Ops /\ op'.kind = "usage" /\ op'.name = name /\ op'.step = 1
    <3>1. Desk!NoOp \in Ops
      BY NoOpIs
    <3>2. op' \in Ops
      BY <2>1, <2>2, <3>1 DEF Ops
    <3> QED
      BY <2>1, <2>2, <3>1, <3>2 DEF Ops
  <2>5. /\ disk' \in Disks /\ disk'.hosts = disk.hosts /\ disk'.usage = disk.usage
        /\ disk'.files = files
    BY <1>1, <2>1, <2>3 DEF Disks
  <2>6. DeskTypes'
    BY <1>1, <2>1, <2>2, <2>4, <2>5 DEF DeskTypes
  <2>7. NamesFit'
    BY <1>1, <1>2, <2>1, <2>2, <2>5 DEF NamesFit
  <2>8. OpFits'
    <3>1. Unreferred(name)
      BY <1>1, <1>2, <2>2 DEF NamesFit, Unreferred
    <3> QED
      BY <2>1, <2>2, <2>3, <2>4, <2>5, <3>1 DEF OpFits, Unreferred
  <2>9. Desk!SettingsAreUsable' /\ Desk!ChecksAreCurrent'
    BY <1>1, <2>1, <2>3, <2>5 DEF Desk!SettingsAreUsable, Desk!ChecksAreCurrent
  <2> QED
    BY <1>1, <2>1, <2>6, <2>7, <2>8, <2>9 DEF DeskInv, TunnelFits
<1>6. CASE Desk!UsageSettings /\ op' = [Desk!NoOp EXCEPT !.kind = "usage", !.step = 1]
           /\ UNCHANGED <<disk, names>>
  <2>1. UNCHANGED <<desk, disk, names, server, check, tunnel>>
    BY <1>6 DEF Desk!UsageSettings
  <2>2. op' \in Ops /\ op'.kind = "usage" /\ op'.name = 0 /\ op'.step = 1
    <3>1. Desk!NoOp \in Ops /\ Desk!NoOp.name = 0
      BY NoOpIs
    <3>2. op' \in Ops
      BY <1>6, <3>1 DEF Ops
    <3> QED
      BY <1>6, <3>1, <3>2 DEF Ops
  <2>3. DeskTypes'
    BY <1>1, <2>1, <2>2 DEF DeskTypes
  <2>4. OpFits'
    BY <1>1, <2>1, <2>2 DEF OpFits
  <2> QED
    BY <1>1, <2>1, <2>3, <2>4
       DEF DeskInv, NamesFit, TunnelFits, Desk!SettingsAreUsable, Desk!ChecksAreCurrent
<1>7. CASE Desk!UsageSettings
  BY <1>5, <1>6, <1>7 DEF Desk!UsageSettings
<1> QED
  BY <1>3, <1>4, <1>7

\* The settings stay; a file that they do not refer to comes or goes.
LEMMA FilesMove ==
    ASSUME DeskInv, NEW files \in SUBSET (1 .. MaxNames), disk' = [disk EXCEPT !.files = files],
           \A name \in FileNames : name # 0 /\ ~Unreferred(name) /\ name \in disk.files =>
              name \in files,
           op' \in Ops, UNCHANGED <<desk, names, server, check, tunnel>>, OpFits'
    PROVE  DeskInv'
<1>1. disk \in Disks /\ check \in Checks
  BY DeskIs
<1>2. /\ disk' \in Disks /\ disk'.hosts = disk.hosts /\ disk'.usage = disk.usage
      /\ disk'.files = files
  BY <1>1 DEF Disks
<1>3. DeskTypes'
  BY <1>2 DEF DeskInv, DeskTypes
<1>4. NamesFit' /\ TunnelFits' /\ Desk!ChecksAreCurrent'
  BY <1>2 DEF DeskInv, NamesFit, TunnelFits, Desk!ChecksAreCurrent
<1>5. Desk!SettingsAreUsable'
  <2>1. ASSUME NEW h \in Hosts, disk.hosts[h] # 0 PROVE disk.hosts[h] \in files
    BY <1>1, <2>1 DEF Unreferred, DeskInv, Desk!SettingsAreUsable, Disks
  <2>2. ASSUME disk.usage # 0 PROVE disk.usage \in files
    BY <1>1, <2>2 DEF Unreferred, DeskInv, Desk!SettingsAreUsable, Disks
  <2> QED
    BY <1>2, <2>1, <2>2 DEF Desk!SettingsAreUsable
<1> QED
  BY <1>3, <1>4, <1>5 DEF DeskInv

\* An operation that ends without a change.
LEMMA OpDrops ==
    ASSUME DeskInv, op' = Desk!NoOp, UNCHANGED <<desk, disk, names, server, check, tunnel>>
    PROVE  DeskInv'
<1>1. DeskTypes' /\ TunnelFits'
  BY NoOpIs DEF DeskInv, DeskTypes, TunnelFits
<1> QED
  BY <1>1, NoOpIs, DeskRests

\* The files of an operation in progress.
LEMMA FilesStep ==
    ASSUME DeskInv, \/ Desk!Exchanged \/ Desk!UsageCleared
                    \/ Desk!Forgotten /\ op.step = 2
                    \/ Desk!UsageSaved /\ op' = Desk!NoOp
    PROVE  DeskInv'
<1>1. disk \in Disks /\ op \in Ops /\ DeskTypes /\ OpFits
  BY DeskIs DEF DeskInv
<1>2. disk.files \in SUBSET (1 .. MaxNames) /\ op.name \in FileNames /\ MaxNames \in Nat /\ names \in Nat
  BY <1>1, DeskIs DEF Disks, Ops
<1>3. op.name # 0 => op.name \in 1 .. MaxNames
  BY <1>2 DEF FileNames
<1>4. (Desk!NoOp \in Ops /\ OpFits') \/ op' # Desk!NoOp \/ names' # names
  <2>1. 0 <= names
    BY <1>2
  <2> QED
    BY <2>1, NoOpIs DEF OpFits
<1>5. CASE Desk!Exchanged
  <2>1. op.kind = "connect" /\ op.step = 1 /\ op.name # 0 /\ Unreferred(op.name)
        /\ UNCHANGED <<desk, names, server, check, tunnel>>
    BY <1>1, <1>5 DEF Desk!Exchanged, Desk!In, OpFits
  <2>2. CASE op' = Desk!NoOp /\ UNCHANGED disk
    <3>1. DeskTypes' /\ TunnelFits'
      BY <1>1, <2>1, <2>2, NoOpIs DEF DeskInv, DeskTypes, TunnelFits
    <3> QED
      BY <2>1, <2>2, <3>1, NoOpIs, DeskRests
  <2>3. CASE disk' = [disk EXCEPT !.files = @ \cup {op.name}] /\ Desk!Advance
    <3> DEFINE files == disk.files \cup {op.name}
    <3>1. files \in SUBSET (1 .. MaxNames) /\ op.name \in files /\ disk.files \subseteq files
      BY <1>2, <1>3, <2>1
    <3>2. disk' = [disk EXCEPT !.files = files]
      BY <2>3
    <3> HIDE DEF files
    <3>3. disk'.hosts = disk.hosts /\ disk'.usage = disk.usage /\ disk'.files = files
      BY <1>1, <3>1, <3>2 DEF Disks
    <3>4. op' \in Ops /\ op'.kind = "connect" /\ op'.name = op.name
      BY <1>1, <2>1, <2>3 DEF Desk!Advance, Ops
    <3>5. OpFits'
      BY <1>1, <2>1, <3>1, <3>3, <3>4 DEF OpFits, Unreferred
    <3> QED
      BY <2>1, <3>1, <3>2, <3>4, <3>5, FilesMove
  <2> QED
    BY <1>5, <2>2, <2>3 DEF Desk!Exchanged, Desk!Done
<1>6. CASE disk' = disk /\ ~Desk!Exchanged
  <2>1. op' = Desk!NoOp /\ UNCHANGED <<desk, names, server, tunnel>>
    <3>1. CASE Desk!UsageCleared
      BY <3>1 DEF Desk!UsageCleared, Desk!Done
    <3>2. CASE Desk!Forgotten /\ op.step = 2
      BY <3>2 DEF Desk!Forgotten, Desk!In, Desk!Done
    <3>3. CASE Desk!UsageSaved /\ op' = Desk!NoOp
      BY <3>3 DEF Desk!UsageSaved
    <3> QED
      BY <1>6, <3>1, <3>2, <3>3
  <2>2. check' = check
    BY <1>6 DEF Desk!UsageCleared, Desk!Forgotten, Desk!UsageSaved, Desk!In
  <2> QED
    BY <1>6, <2>1, <2>2, OpDrops
<1>7. CASE disk' # disk /\ ~Desk!Exchanged
  <2> DEFINE files == disk.files \ {op.name}
  <2>1. /\ disk' = [disk EXCEPT !.files = files] /\ op' = Desk!NoOp
        /\ UNCHANGED <<desk, names, server, check, tunnel>>
    <3>1. CASE Desk!UsageCleared \/ (Desk!Forgotten /\ op.step = 2)
      BY <1>7, <3>1 DEF Desk!UsageCleared, Desk!Forgotten, Desk!In, Desk!Done
    <3>2. CASE Desk!UsageSaved /\ op' = Desk!NoOp
      <4>1. op' # [op EXCEPT !.step = 2, !.name = disk.usage]
        BY <1>1, <1>2, <3>2, NoOpIs DEF Ops, Desk!UsageSaved, Desk!In
      <4> QED
        BY <1>7, <3>2, <4>1 DEF Desk!UsageSaved, Desk!Done
    <3> QED
      BY <1>7, <3>1, <3>2
  <2>2. op.name = 0 \/ Unreferred(op.name)
    BY <1>1, <1>7 DEF Desk!UsageCleared, Desk!Forgotten, Desk!UsageSaved, Desk!In, OpFits
  <2>3. files \in SUBSET (1 .. MaxNames)
    BY <1>2
  <2>4. \A name \in FileNames : name # 0 /\ ~Unreferred(name) /\ name \in disk.files => name \in files
    BY <2>2
  <2> HIDE DEF files
  <2> QED
    BY <1>4, <2>1, <2>3, <2>4, NoOpIs, FilesMove
<1> QED
  BY <1>5, <1>7, <1>6

\* The settings of one host change, and what was shown of it is gone.
LEMMA HostSettles ==
    ASSUME DeskInv, NEW h \in Hosts, NEW name \in FileNames,
           disk' = [disk EXCEPT !.hosts[h] = name], check' = [check EXCEPT !.shown[h] = 0],
           op' \in Ops, UNCHANGED <<desk, names, server, tunnel>>, OpFits',
           name # 0 => name \in disk.files /\ Unreferred(name) /\ name <= names
    PROVE  DeskInv'
<1>1. /\ disk \in Disks /\ check \in Checks /\ NamesFit /\ names \in Nat
      /\ Desk!SettingsAreUsable /\ Desk!ChecksAreCurrent
  BY DeskIs DEF DeskInv
<1>2. disk.hosts \in [Hosts -> FileNames] /\ check.shown \in [Hosts -> FileNames]
      /\ 0 \in FileNames
  BY <1>1, NamesNat DEF Disks, Checks, FileNames
<1> DEFINE hosts == [disk.hosts EXCEPT ![h] = name]
           shown == [check.shown EXCEPT ![h] = 0]
<1>3. disk' = [disk EXCEPT !.hosts = hosts] /\ check' = [check EXCEPT !.shown = shown]
  OBVIOUS
<1>4. /\ hosts \in [Hosts -> FileNames] /\ shown \in [Hosts -> FileNames]
      /\ \A g \in Hosts : /\ hosts[g] = IF g = h THEN name ELSE disk.hosts[g]
                          /\ shown[g] = IF g = h THEN 0 ELSE check.shown[g]
  BY <1>2
<1> HIDE DEF hosts, shown
<1>5. /\ disk' \in Disks /\ disk'.hosts = hosts /\ disk'.usage = disk.usage
      /\ disk'.files = disk.files
  BY <1>1, <1>3, <1>4 DEF Disks
<1>6. check' \in Checks /\ check'.shown = shown
  BY <1>1, <1>3, <1>4 DEF Checks
<1>7. DeskTypes'
  BY <1>5, <1>6 DEF DeskInv, DeskTypes
<1>8. NamesFit'
  <2>1. 0 <= names
    BY <1>1
  <2>2. disk'.usage <= names' /\ \A g \in Hosts : disk'.hosts[g] <= names'
    BY <1>1, <1>4, <1>5, <2>1 DEF NamesFit
  <2>3. \A g, k \in Hosts : hosts[g] = hosts[k] /\ hosts[g] # 0 => g = k
    BY <1>1, <1>4 DEF NamesFit, Unreferred
  <2>4. disk.usage # 0 => \A g \in Hosts : hosts[g] # disk.usage
    BY <1>1, <1>4 DEF NamesFit, Unreferred
  <2> QED
    BY <1>5, <2>2, <2>3, <2>4 DEF NamesFit
<1>9. Desk!SettingsAreUsable'
  BY <1>1, <1>4, <1>5 DEF Desk!SettingsAreUsable
<1>10. Desk!ChecksAreCurrent'
  BY <1>1, <1>4, <1>5, <1>6 DEF Desk!ChecksAreCurrent
<1> QED
  BY <1>7, <1>8, <1>9, <1>10 DEF DeskInv, TunnelFits

LEMMA PairedStep == ASSUME DeskInv, Desk!Paired PROVE DeskInv'
<1>1. op \in Ops /\ OpFits /\ names \in Nat
  BY DeskIs DEF DeskInv
<1>2. /\ op.kind = "connect" /\ op.step = 2 /\ op' = Desk!NoOp
      /\ UNCHANGED <<desk, names, server, tunnel>>
  BY DEF Desk!Paired, Desk!In, Desk!Done
<1>3. op'.name = 0 /\ op'.kind = "none" /\ op' \in Ops /\ Quiet(op') /\ 0 <= names
  BY <1>1, <1>2, NoOpIs
<1>4. OpFits'
  BY <1>2, <1>3 DEF OpFits
<1>5. CASE UNCHANGED <<disk, check>>
  <2>1. DeskTypes' /\ TunnelFits'
    BY <1>2, <1>3, <1>5 DEF DeskInv, DeskTypes, TunnelFits
  <2> QED
    BY <1>3, <1>5, <1>2, <2>1, DeskRests
<1>6. CASE /\ disk' = [disk EXCEPT !.hosts[op.host] = op.name]
           /\ check' = [check EXCEPT !.shown[op.host] = 0]
  <2>1. op.host \in Hosts /\ op.name \in FileNames
    BY <1>1 DEF Ops
  <2>2. op.name \in disk.files /\ Unreferred(op.name) /\ op.name <= names
    BY <1>1, <1>2 DEF OpFits
  <2> QED
    BY <1>2, <1>3, <1>4, <1>6, <2>1, <2>2, HostSettles
<1> QED
  BY <1>5, <1>6 DEF Desk!Paired

LEMMA ForgottenStep == ASSUME DeskInv, Desk!Forgotten PROVE DeskInv'
<1>1. CASE op.step = 2
  BY <1>1, FilesStep
<1>2. CASE op' = Desk!NoOp /\ UNCHANGED <<disk, check>>
  BY <1>2, OpDrops DEF Desk!Forgotten
<1>3. CASE op.step # 2 /\ ~(op' = Desk!NoOp /\ UNCHANGED <<disk, check>>)
  <2>1. op \in Ops /\ OpFits /\ NamesFit /\ disk \in Disks
    BY DeskIs DEF DeskInv
  <2>2. /\ op.kind = "forget" /\ op.step = 1 /\ op' = [op EXCEPT !.step = 2]
        /\ disk' = [disk EXCEPT !.hosts[op.host] = 0]
        /\ check' = [check EXCEPT !.shown[op.host] = 0]
        /\ UNCHANGED <<desk, names, server, tunnel>>
    BY <1>3 DEF Desk!Forgotten, Desk!In, Desk!Advance, Desk!Done
  <2>3. op.host \in Hosts /\ 0 \in FileNames
    BY <2>1, NamesNat DEF Ops, FileNames
  <2>4. /\ op' \in Ops /\ op'.kind = "forget" /\ op'.step = 2 /\ op'.name = op.name
        /\ op'.host = op.host
    BY <2>1, <2>2 DEF Ops
  <2>5. op.name # 0 /\ disk.hosts[op.host] = op.name /\ op.name <= names
    BY <2>1, <2>2 DEF OpFits
  <2>6. /\ disk'.usage = disk.usage
        /\ \A g \in Hosts : disk'.hosts[g] = IF g = op.host THEN 0 ELSE disk.hosts[g]
    BY <2>1, <2>2, <2>3 DEF Disks
  <2>7. disk'.usage # op.name /\ \A g \in Hosts : disk'.hosts[g] # op.name
    BY <2>1, <2>3, <2>5, <2>6 DEF NamesFit
  <2>8. OpFits'
    BY <2>2, <2>4, <2>5, <2>7 DEF OpFits, Unreferred
  <2> QED
    BY <2>2, <2>3, <2>4, <2>8, HostSettles
<1> QED
  BY <1>1, <1>3, <1>2

\* A check begins, or ends with what it read.
LEMMA CheckStep ==
    ASSUME DeskInv, NEW h \in Hosts, Desk!CheckHost(h) \/ Desk!Checked PROVE DeskInv'
<1>1. disk \in Disks /\ check \in Checks /\ Desk!ChecksAreCurrent
  BY DeskIs DEF DeskInv
<1>2. /\ disk.hosts \in [Hosts -> FileNames] /\ check.shown \in [Hosts -> FileNames]
      /\ check.host \in Hosts /\ check.name \in FileNames /\ 0 \in FileNames
  BY <1>1, NamesNat DEF Disks, Checks, FileNames
<1>3. UNCHANGED <<desk, disk, names, server, op, tunnel>>
  BY DEF Desk!CheckHost, Desk!Checked
<1>4. /\ check' \in Checks
      /\ \A g \in Hosts : \/ check'.shown[g] = check.shown[g]
                          \/ check'.shown[g] = disk.hosts[g]
  <2>1. CASE Desk!CheckHost(h)
    <3>1. check' = [check EXCEPT !.host = h, !.name = disk.hosts[h]] /\ disk.hosts[h] \in FileNames
      BY <1>2, <2>1 DEF Desk!CheckHost
    <3> QED
      BY <1>1, <3>1 DEF Checks
  <2>2. CASE Desk!Checked
    <3> DEFINE name == IF disk.hosts[check.host] = check.name THEN check.name
                       ELSE check.shown[check.host]
               shown == [check.shown EXCEPT ![check.host] = name]
    <3>1. check' = [check EXCEPT !.name = 0, !.shown = shown]
      BY <2>2 DEF Desk!Checked
    <3>2. name \in FileNames /\ name \in {disk.hosts[check.host], check.shown[check.host]}
      BY <1>2
    <3> HIDE DEF name
    <3>3. /\ shown \in [Hosts -> FileNames]
          /\ \A g \in Hosts : shown[g] \in {disk.hosts[g], check.shown[g]}
      BY <1>2, <3>2
    <3> HIDE DEF shown
    <3>4. check' \in Checks /\ check'.shown = shown
      BY <1>1, <1>2, <3>1, <3>3 DEF Checks
    <3> QED
      BY <3>3, <3>4
  <2> QED
    BY <2>1, <2>2
<1>5. DeskTypes'
  BY <1>3, <1>4 DEF DeskInv, DeskTypes
<1>6. Desk!ChecksAreCurrent'
  BY <1>1, <1>3, <1>4 DEF Desk!ChecksAreCurrent
<1> QED
  BY <1>3, <1>5, <1>6
     DEF DeskInv, NamesFit, OpFits, Unreferred, TunnelFits, Desk!SettingsAreUsable

LEMMA UsageStep == ASSUME DeskInv, Desk!UsageSaved PROVE DeskInv'
<1>1. CASE op' = Desk!NoOp
  BY <1>1, FilesStep
<1>2. CASE op' # Desk!NoOp
  <2>1. /\ op \in Ops /\ OpFits /\ NamesFit /\ disk \in Disks /\ names \in Nat
        /\ Desk!SettingsAreUsable /\ Desk!ChecksAreCurrent
    BY DeskIs DEF DeskInv
  <2>2. /\ op.kind = "usage" /\ op.step = 1 /\ disk' = [disk EXCEPT !.usage = op.name]
        /\ op' = [op EXCEPT !.step = 2, !.name = disk.usage]
        /\ UNCHANGED <<desk, names, server, check, tunnel>>
    BY <1>2 DEF Desk!UsageSaved, Desk!In, Desk!Done
  <2>3. disk.usage \in FileNames /\ op.name \in FileNames
    BY <2>1 DEF Disks, Ops
  <2>4. /\ op.name = 0 \/ (Unreferred(op.name) /\ op.name \in disk.files)
        /\ op.name <= names
    BY <2>1, <2>2 DEF OpFits
  <2>5. /\ disk' \in Disks /\ disk'.usage = op.name /\ disk'.hosts = disk.hosts
        /\ disk'.files = disk.files
    BY <2>1, <2>2, <2>3 DEF Disks
  <2>6. op' \in Ops
    BY <2>1, <2>2, <2>3 DEF Ops
  <2>7. op'.kind = "usage" /\ op'.step = 2 /\ op'.name = disk.usage
    BY <2>1, <2>2 DEF Ops
  <2>8. DeskTypes'
    BY <2>2, <2>5, <2>6 DEF DeskInv, DeskTypes
  <2>9. NamesFit' /\ Desk!SettingsAreUsable' /\ Desk!ChecksAreCurrent'
    BY <2>1, <2>2, <2>4, <2>5
       DEF NamesFit, Unreferred, Desk!SettingsAreUsable, Desk!ChecksAreCurrent
  <2>10. OpFits'
    BY <2>1, <2>2, <2>4, <2>5, <2>7 DEF OpFits, Unreferred, NamesFit
  <2> QED
    BY <2>2, <2>8, <2>9, <2>10 DEF DeskInv, TunnelFits
<1> QED
  BY <1>1, <1>2

LEMMA DeskNext == ASSUME DeskInv, Desk!Next PROVE DeskInv'
<1>1. PICK h \in Hosts : TRUE
  BY NamesNat
<1>2. ASSUME NEW g \in Hosts, Desk!Connect(g) \/ Desk!Forget(g) \/ Desk!CheckHost(g)
      PROVE  DeskInv'
  BY <1>2, FilesBegin, CheckStep
<1>3. ASSUME NEW interrupt \in BOOLEAN,
             Desk!Close(interrupt) \/ Desk!Stop(interrupt) \/ Desk!StopTunnel(interrupt)
      PROVE  DeskInv'
  BY <1>3, TunnelStep
<1>4. TRUE \in BOOLEAN
  OBVIOUS
<1>5. CASE Desk!StopChecked \/ Desk!StartTunnel \/ Desk!Forwarded \/ Desk!Ended
  BY <1>4, <1>5, TunnelStep
<1>6. CASE Desk!UsageSettings \/ Desk!Checked
  BY <1>1, <1>6, FilesBegin, CheckStep
<1> QED
  BY <1>2, <1>3, <1>5, <1>6, WorkerStep, PairedStep, ForgottenStep, UsageStep, FilesStep
     DEF Desk!Next

LEMMA DeskStays == ASSUME DeskInv, UNCHANGED deskVars PROVE DeskInv'
BY DEF DeskInv, deskVars, DeskTypes, NamesFit, OpFits, Unreferred, TunnelFits,
       Desk!SettingsAreUsable, Desk!ChecksAreCurrent

LEMMA DeskBegins == ASSUME Desk!Init PROVE DeskInv
<1>1. Desk!EmptyDisk \in Disks /\ names = 0 /\ 0 \in FileNames
  BY NamesNat DEF Desk!Init, Desk!EmptyDisk, Disks, FileNames
<1>2. disk.usage = 0 /\ disk.hosts = [h \in Hosts |-> 0]
  BY DEF Desk!Init, Desk!EmptyDisk
<1>3. DeskTypes
  BY <1>1, NoOpIs DEF Desk!Init, DeskTypes, Desk!NoServer, Desk!NoTunnel, Tunnels
<1>4. NamesFit /\ Desk!SettingsAreUsable
  BY <1>1, <1>2 DEF NamesFit, Desk!SettingsAreUsable
<1>5. OpFits /\ TunnelFits
  BY <1>1, NoOpIs DEF OpFits, TunnelFits, Desk!Init, Desk!NoTunnel
<1>6. Desk!ChecksAreCurrent
  BY NoOpIs DEF Desk!ChecksAreCurrent, Desk!Init
<1> QED
  BY <1>3, <1>4, <1>5, <1>6 DEF DeskInv

\* Whenever the worker of the desktop application crashes, its settings refer to files
\* that exist, what it shows was observed with the credential it has, and its tunnel
\* leads to a host that is up (src/apps/desktop/src/worker-client.mjs,
\* src/apps/desktop/src/controller.mjs).
THEOREM SettingsSurvive == RequestsSpec => []SettingsAreUsable
<1>1. RequestsInit => DeskInv
  BY DeskBegins DEF RequestsInit
<1>2. DeskInv /\ [RequestsNext]_allVars => DeskInv'
  BY DeskNext, DeskStays DEF RequestsNext, allVars
<1>3. DeskInv => SettingsAreUsable
  <2> SUFFICES ASSUME DeskInv PROVE SettingsAreUsable
    OBVIOUS
  <2>1. Desk!TypeOK
    BY DeskIs DEF Disks, Ops, Tunnels, Desk!TypeOK
  <2> QED
    BY <2>1 DEF DeskInv, TunnelFits, SettingsAreUsable, Desk!TunnelsLeadToTheHost
<1> QED
  BY <1>1, <1>2, <1>3, PTL DEF RequestsSpec

-----------------------------------------------------------------------------
(* Diagnostics: every record is accounted for and every trace is closed.     *)

TraceRecords == [state : {"none", "untraced", "open", "finished"},
                 pending : Nat, spans : Nat, ended : Nat, dropped : Nat]

QueueTypes ==
    /\ made \in 0 .. MaxRecords
    /\ backlog \in Seq(Nat) /\ exporting \in Seq(Nat) /\ scheduled \in BOOLEAN
    /\ Len(backlog) <= QueueSize /\ Len(exporting) <= BatchSize
    /\ exporter \in [disabled : BOOLEAN, failures : Nat]
    /\ closing \in {"no", "closing", "closed"}
    /\ counters \in [dropped : Nat, exported : Nat]

QueueInv == QueueTypes /\ Traces!RecordsAccounted

\* A scope that ended left a span, or was counted as dropped.
TraceCounts(t) ==
    /\ t.spans <= MaxSpans
    /\ t.spans + t.dropped = t.ended
    /\ t.state = "finished" => t.pending = 0

OpenOf(all) == {t \in Traced : all[t].state = "open"}

SpansInv ==
    /\ tracing \in 0 .. MaxActive
    /\ traces \in [Traced -> TraceRecords]
    /\ \A t \in Traced : TraceCounts(traces[t])
    /\ tracing = Cardinality(OpenOf(traces))

TraceInv == QueueInv /\ SpansInv

LEMMA BoundsNat ==
    /\ MaxActive \in Nat /\ MaxRecords \in Nat /\ MaxSpans \in Nat
    /\ QueueSize \in Nat /\ BatchSize \in Nat /\ BatchSize > 0 /\ IsFiniteSet(Traced)
BY RequestsAssumption

-----------------------------------------------------------------------------
(* The queue of records *)

LEMMA QueueIs ==
    ASSUME QueueInv
    PROVE  /\ made \in Nat /\ made <= MaxRecords
           /\ backlog \in Seq(Nat) /\ exporting \in Seq(Nat) /\ scheduled \in BOOLEAN
           /\ Len(backlog) <= QueueSize /\ Len(exporting) <= BatchSize
           /\ Len(backlog) \in Nat /\ Len(exporting) \in Nat
           /\ exporter \in [disabled : BOOLEAN, failures : Nat]
           /\ closing \in {"no", "closing", "closed"}
           /\ counters.dropped \in Nat /\ counters.exported \in Nat
           /\ counters \in [dropped : Nat, exported : Nat]
           /\ made = counters.dropped + counters.exported + Len(backlog) + Len(exporting)
           /\ backlog # <<>> => closing # "closed" /\ ~exporter.disabled
                               /\ (scheduled \/ exporting # <<>> \/ closing = "closing")
<1>1. QueueTypes /\ Traces!RecordsAccounted
  BY DEF QueueInv
<1>2. made \in Nat /\ made <= MaxRecords
  BY <1>1, BoundsNat DEF QueueTypes
<1>3. Len(backlog) \in Nat /\ Len(exporting) \in Nat
  BY <1>1 DEF QueueTypes
<1> QED
  BY <1>1, <1>2, <1>3 DEF QueueTypes, Traces!RecordsAccounted

LEMMA EnqueueStep == ASSUME QueueInv, Traces!Enqueue, UNCHANGED closing PROVE QueueInv'
<1>1. CASE UNCHANGED Traces!pipeline
  BY <1>1 DEF QueueInv, QueueTypes, Traces!pipeline, Traces!RecordsAccounted
<1>2. CASE ~ UNCHANGED Traces!pipeline
  <2>1. /\ closing = "no" /\ made # MaxRecords /\ made' = made + 1
        /\ UNCHANGED <<exporting, exporter>>
        /\ \/ /\ exporter.disabled \/ Len(backlog) >= QueueSize
              /\ counters' = [counters EXCEPT !.dropped = @ + 1]
              /\ UNCHANGED <<backlog, scheduled>>
           \/ /\ ~exporter.disabled /\ ~(Len(backlog) >= QueueSize)
              /\ backlog' = Append(backlog, made + 1)
              /\ scheduled' = Traces!Scheduled(exporting # <<>>, FALSE)
              /\ UNCHANGED counters
    BY <1>2 DEF Traces!Enqueue
  <2>2. /\ made \in Nat /\ made + 1 \in 0 .. MaxRecords /\ made' \in 0 .. MaxRecords
    <3>1. made \in Nat /\ made <= MaxRecords
      BY QueueIs
    <3>2. made + 1 \in 0 .. MaxRecords
      <4>1. made # MaxRecords /\ MaxRecords \in Nat
        BY <2>1, BoundsNat
      <4> QED
        BY <3>1, <4>1
    <3> QED
      BY <2>1, <3>1, <3>2
  <2>3. CASE counters' = [counters EXCEPT !.dropped = @ + 1] /\ UNCHANGED <<backlog, scheduled>>
    <3> DEFINE n == counters.dropped + 1
    <3>1. n \in Nat /\ counters' = [counters EXCEPT !.dropped = n]
      BY <2>3, QueueIs
    <3> HIDE DEF n
    <3>2. /\ counters' \in [dropped : Nat, exported : Nat] /\ counters'.dropped = n
          /\ counters'.exported = counters.exported
      BY <3>1, QueueIs
    <3>3. QueueTypes'
      BY <2>1, <2>2, <2>3, <3>2, QueueIs DEF QueueTypes
    <3>4. made' = n + counters.exported + Len(backlog) + Len(exporting)
      BY <2>1, QueueIs DEF n
    <3>5. Traces!RecordsAccounted'
      BY <2>1, <2>3, <3>2, <3>4, QueueIs DEF Traces!RecordsAccounted
    <3> QED
      BY <3>3, <3>5 DEF QueueInv
  <2>4. CASE /\ backlog' = Append(backlog, made + 1) /\ ~(Len(backlog) >= QueueSize)
             /\ scheduled' = Traces!Scheduled(exporting # <<>>, FALSE)
             /\ UNCHANGED counters /\ ~exporter.disabled
    <3>1. /\ backlog' \in Seq(Nat) /\ Len(backlog') = Len(backlog) + 1 /\ backlog' # <<>>
          /\ Len(backlog') <= QueueSize
      <4>1. backlog \in Seq(Nat) /\ Len(backlog) \in Nat /\ Len(backlog) <= QueueSize
        BY QueueIs
      <4>2. made + 1 \in Nat
        BY <2>2
      <4>3. /\ Append(backlog, made + 1) \in Seq(Nat)
            /\ Len(Append(backlog, made + 1)) = Len(backlog) + 1
        BY <4>1, <4>2
      <4>4. Len(backlog) + 1 <= QueueSize
        <5>1. ~(Len(backlog) >= QueueSize) /\ QueueSize \in Nat
          BY <2>4, BoundsNat
        <5> QED
          BY <4>1, <5>1
      <4>5. Append(backlog, made + 1) # <<>>
        BY <4>1, <4>3
      <4> QED
        BY <2>4, <4>3, <4>4, <4>5
    <3>2. scheduled' \in BOOLEAN /\ (scheduled' \/ exporting # <<>>)
      BY <2>1, <2>4, QueueIs DEF Traces!Scheduled
    <3>3. QueueTypes'
      BY <2>1, <2>2, <2>4, <3>1, <3>2, QueueIs DEF QueueTypes
    <3>4. made' = counters.dropped + counters.exported + Len(backlog') + Len(exporting)
      BY <2>1, <3>1, QueueIs
    <3>5. Traces!RecordsAccounted'
      BY <2>1, <2>4, <3>2, <3>4, QueueIs DEF Traces!RecordsAccounted
    <3> QED
      BY <3>3, <3>5 DEF QueueInv
  <2> QED
    BY <2>1, <2>3, <2>4
<1> QED
  BY <1>1, <1>2

\* The two halves of a queue that is cut after its first n records.
LEMMA BatchIs ==
    ASSUME QueueInv, NEW n \in 1 .. Len(backlog)
    PROVE  /\ SubSeq(backlog, 1, n) \in Seq(Nat) /\ Len(SubSeq(backlog, 1, n)) = n
           /\ SubSeq(backlog, n + 1, Len(backlog)) \in Seq(Nat)
           /\ Len(SubSeq(backlog, n + 1, Len(backlog))) = Len(backlog) - n
<1>1. backlog \in Seq(Nat) /\ Len(backlog) \in Nat
  BY QueueIs
<1>2. /\ n \in Int /\ 1 <= n /\ n <= Len(backlog)
      /\ n + 1 \in Int /\ Len(backlog) \in Int /\ 1 <= n + 1
  BY <1>1
<1>3. \A x, y \in Int :
         1 <= x /\ y <= Len(backlog) =>
            /\ SubSeq(backlog, x, y) \in Seq(Nat)
            /\ Len(SubSeq(backlog, x, y)) = IF x <= y THEN y - x + 1 ELSE 0
  BY <1>1, SubSeqProperties
<1>4. SubSeq(backlog, 1, n) \in Seq(Nat) /\ Len(SubSeq(backlog, 1, n)) = n
  BY <1>2, <1>3
<1>5. /\ SubSeq(backlog, n + 1, Len(backlog)) \in Seq(Nat)
      /\ Len(SubSeq(backlog, n + 1, Len(backlog))) = Len(backlog) - n
  BY <1>2, <1>3
<1> QED
  BY <1>4, <1>5

\* A batch is taken off the front of the queue.
LEMMA PumpedIs ==
    ASSUME QueueInv, Traces!Pumped, Traces!CanPump
    PROVE  /\ backlog' \in Seq(Nat) /\ exporting' \in Seq(Nat) /\ exporting' # <<>>
           /\ Len(backlog') <= QueueSize /\ Len(exporting') <= BatchSize
           /\ Len(backlog') \in Nat /\ Len(exporting') \in Nat
           /\ Len(backlog') + Len(exporting') = Len(backlog)
<1> DEFINE n == IF Len(backlog) < BatchSize THEN Len(backlog) ELSE BatchSize
<1>1. Len(backlog) \in Nat /\ Len(backlog) > 0
  <2>1. backlog # <<>> /\ backlog \in Seq(Nat)
    BY QueueIs DEF Traces!CanPump
  <2> QED
    BY <2>1
<1>2. n \in 1 .. Len(backlog) /\ n <= BatchSize /\ n \in Nat /\ n > 0
  BY <1>1, BoundsNat
<1>3. exporting' = SubSeq(backlog, 1, n) /\ backlog' = SubSeq(backlog, n + 1, Len(backlog))
  BY DEF Traces!Pumped
<1> HIDE DEF n
<1>4. exporting' \in Seq(Nat) /\ Len(exporting') = n
  BY <1>1, <1>2, <1>3, BatchIs
<1>5. backlog' \in Seq(Nat) /\ Len(backlog') = Len(backlog) - n
  BY <1>1, <1>2, <1>3, BatchIs
<1> QED
  BY <1>1, <1>2, <1>4, <1>5, QueueIs, BoundsNat

LEMMA TakeStep ==
    ASSUME QueueInv, Traces!Immediate \/ Traces!Flush \/ Traces!Close PROVE QueueInv'
<1>1. CASE Traces!CanPump /\ Traces!Pumped /\ (Traces!Immediate \/ Traces!Flush)
  <2>1. /\ closing' = closing /\ scheduled' \in BOOLEAN
        /\ UNCHANGED <<exporter, made, counters>>
    BY <1>1, QueueIs DEF Traces!Immediate, Traces!Flush
  <2>2. exporting = <<>> /\ Len(exporting) = 0
    BY <1>1 DEF Traces!CanPump
  <2>3. QueueTypes'
    BY <1>1, <2>1, PumpedIs, QueueIs DEF QueueTypes, QueueInv
  <2>4. made' = counters'.dropped + counters'.exported + Len(backlog') + Len(exporting')
    <3>1. made = counters.dropped + counters.exported + Len(backlog) + 0
      BY <2>2, QueueIs
    <3>2. /\ Len(backlog') \in Nat /\ Len(exporting') \in Nat
          /\ Len(backlog') + Len(exporting') = Len(backlog)
      BY <1>1, PumpedIs
    <3>3. PICK p \in Nat, q \in Nat : p = Len(backlog') /\ q = Len(exporting')
      BY <3>2
    <3>4. p + q = Len(backlog)
      BY <3>2, <3>3
    <3>5. made = counters.dropped + counters.exported + p + q
      BY SMTT(20), <3>1, <3>4, QueueIs
    <3> QED
      BY <2>1, <3>3, <3>5
  <2>5. Traces!RecordsAccounted'
    BY <1>1, <2>1, <2>4, PumpedIs, QueueIs DEF Traces!RecordsAccounted, Traces!CanPump
  <2> QED
    BY <2>3, <2>5 DEF QueueInv
<1>2. CASE ~(Traces!CanPump /\ Traces!Pumped /\ (Traces!Immediate \/ Traces!Flush))
  <2>1. /\ UNCHANGED <<backlog, exporting, exporter, made, counters>>
        /\ scheduled' \in BOOLEAN /\ closing' \in {"no", "closing", "closed"}
        /\ \/ closing' = closing /\ ~scheduled' /\ ~Traces!CanPump
           \/ closing = "closing" /\ closing' = "closed" /\ ~Traces!CanPump /\ exporting = <<>>
           \/ closing' = "closing" /\ closing = "no"
    BY <1>2, QueueIs DEF Traces!Immediate, Traces!Flush, Traces!Close, Traces!pipeline
  <2>2. QueueTypes'
    BY <2>1 DEF QueueInv, QueueTypes
  <2>3. Traces!RecordsAccounted'
    BY <2>1, QueueIs DEF Traces!RecordsAccounted, Traces!CanPump
  <2> QED
    BY <2>2, <2>3 DEF QueueInv
<1> QED
  BY <1>1, <1>2

LEMMA ExportedStep == ASSUME QueueInv, Traces!Exported PROVE QueueInv'
<1> DEFINE n == counters.exported + Len(exporting)
<1>1. /\ counters' = [counters EXCEPT !.exported = n]
      /\ exporter' = [exporter EXCEPT !.failures = 0] /\ exporting' = <<>>
      /\ scheduled' = Traces!Scheduled(FALSE, FALSE) /\ UNCHANGED <<backlog, closing, made>>
  BY DEF Traces!Exported
<1>2. n \in Nat /\ made = counters.dropped + n + Len(backlog) + 0
  BY SMTT(20), QueueIs
<1> HIDE DEF n
<1>3. /\ counters' \in [dropped : Nat, exported : Nat]
      /\ counters'.dropped = counters.dropped /\ counters'.exported = n
  BY <1>1, <1>2, QueueIs
<1>4. exporter' \in [disabled : BOOLEAN, failures : Nat] /\ exporter'.disabled = exporter.disabled
  BY <1>1, QueueIs
<1>5. scheduled' \in BOOLEAN /\ (closing # "closed" => scheduled')
  BY <1>1, QueueIs DEF Traces!Scheduled
<1>6. exporting' \in Seq(Nat) /\ Len(exporting') = 0 /\ Len(exporting') <= BatchSize
  BY <1>1, BoundsNat
<1>7. QueueTypes'
  BY <1>1, <1>3, <1>4, <1>5, <1>6 DEF QueueInv, QueueTypes
<1>8. Traces!RecordsAccounted'
  BY <1>1, <1>2, <1>3, <1>4, <1>5, <1>6, QueueIs DEF Traces!RecordsAccounted
<1> QED
  BY <1>7, <1>8 DEF QueueInv

LEMMA ExportFailedStep ==
    ASSUME QueueInv, NEW timeout \in BOOLEAN, Traces!ExportFailed(timeout) PROVE QueueInv'
<1> DEFINE off == timeout \/ exporter.failures + 1 >= 3
           lost == IF off THEN Len(backlog) ELSE 0
           n == counters.dropped + Len(exporting) + lost
           f == exporter.failures + 1
<1>1. /\ counters' = [counters EXCEPT !.dropped = n]
      /\ exporter' = [disabled |-> off, failures |-> f] /\ exporting' = <<>>
      /\ backlog' = IF off THEN <<>> ELSE backlog
      /\ scheduled' = Traces!Scheduled(FALSE, off) /\ UNCHANGED <<closing, made>>
  BY DEF Traces!ExportFailed
<1>2. off \in BOOLEAN /\ f \in Nat
  BY QueueIs
<1>3. /\ backlog' \in Seq(Nat) /\ Len(backlog') \in Nat /\ Len(backlog') <= QueueSize
      /\ Len(backlog') + lost = Len(backlog) /\ lost \in Nat
      /\ off => backlog' = <<>>
      /\ ~off => backlog' = backlog
  <2>1. CASE off
    <3>1. backlog' = <<>> /\ lost = Len(backlog) /\ Len(backlog') = 0
      BY <1>1, <2>1
    <3> HIDE DEF off, lost
    <3> QED
      BY <2>1, <3>1, QueueIs, BoundsNat
  <2>2. CASE ~off
    <3>1. backlog' = backlog /\ lost = 0
      BY <1>1, <2>2
    <3> HIDE DEF off, lost
    <3> QED
      BY <2>2, <3>1, QueueIs, BoundsNat
  <2> QED
    BY <2>1, <2>2
<1> HIDE DEF off, lost, f
<1>4. n \in Nat /\ made = n + counters.exported + Len(backlog') + 0
  <2>1. PICK p \in Nat : p = Len(backlog')
    BY <1>3
  <2>2. p + lost = Len(backlog) /\ lost \in Nat
    BY <1>3, <2>1
  <2>a. /\ counters.dropped \in Nat /\ counters.exported \in Nat /\ Len(backlog) \in Nat
        /\ Len(exporting) \in Nat
        /\ made = counters.dropped + counters.exported + Len(backlog) + Len(exporting)
    BY QueueIs
  <2>b. PICK a \in Nat, b \in Nat, c \in Nat, d \in Nat :
           /\ a = counters.dropped /\ b = counters.exported /\ c = Len(backlog)
           /\ d = Len(exporting)
    BY <2>a
  <2>c. n = a + d + lost /\ p + lost = c /\ made = a + b + c + d
    BY <2>2, <2>a, <2>b
  <2> HIDE DEF n
  <2>d. n \in Nat
    BY <2>2, <2>c
  <2>e. made = n + b + p + 0
    BY <2>2, <2>c
  <2>3. n \in Nat /\ made = n + counters.exported + p + 0
    BY <2>b, <2>d, <2>e
  <2> QED
    BY <2>1, <2>3
<1> HIDE DEF n
<1>5. /\ counters' \in [dropped : Nat, exported : Nat]
      /\ counters'.dropped = n /\ counters'.exported = counters.exported
  BY <1>1, <1>4, QueueIs
<1>6. exporter' \in [disabled : BOOLEAN, failures : Nat] /\ exporter'.disabled = off
  BY <1>1, <1>2
<1>7. scheduled' \in BOOLEAN /\ (closing # "closed" /\ ~off => scheduled')
  BY <1>1, QueueIs DEF Traces!Scheduled
<1>8. exporting' \in Seq(Nat) /\ Len(exporting') = 0 /\ Len(exporting') <= BatchSize
  BY <1>1, BoundsNat
<1>9. QueueTypes'
  BY <1>1, <1>3, <1>5, <1>6, <1>7, <1>8 DEF QueueInv, QueueTypes
<1>10. Traces!RecordsAccounted'
  <2>1. backlog' # <<>> => closing # "closed" /\ ~off
    BY <1>3, QueueIs
  <2> QED
    BY <1>1, <1>4, <1>5, <1>6, <1>7, <1>8, <2>1 DEF Traces!RecordsAccounted
<1> QED
  BY <1>9, <1>10 DEF QueueInv

-----------------------------------------------------------------------------
(* The traces of the runs *)

LEMMA TraceCount == \A S : Traces!Cardinality(S) = Cardinality(S)
BY DEF Traces!Cardinality, Cardinality

LEMMA OpenFinite ==
    \A all : IsFiniteSet(OpenOf(all)) /\ Cardinality(OpenOf(all)) \in Nat
<1> TAKE all
<1>1. OpenOf(all) \subseteq Traced
  BY DEF OpenOf
<1> QED
  BY <1>1, BoundsNat, FS_Subset, FS_CardinalityType

\* The trace of one run changes; the number of open ones with it.
LEMMA TraceMoves ==
    ASSUME SpansInv, NEW t \in Traced, NEW new \in TraceRecords, TraceCounts(new),
           traces' = [traces EXCEPT ![t] = new], tracing' \in 0 .. MaxActive,
           \/ new.state = "open" /\ traces[t].state = "open" /\ tracing' = tracing
           \/ new.state # "open" /\ traces[t].state # "open" /\ tracing' = tracing
           \/ new.state = "open" /\ traces[t].state # "open" /\ tracing' = tracing + 1
           \/ new.state # "open" /\ traces[t].state = "open" /\ tracing' = tracing - 1
    PROVE  SpansInv'
<1>1. traces \in [Traced -> TraceRecords] /\ tracing = Cardinality(OpenOf(traces))
  BY DEF SpansInv
<1>2. /\ traces' \in [Traced -> TraceRecords]
      /\ \A u \in Traced : traces'[u] = IF u = t THEN new ELSE traces[u]
  BY <1>1
<1>3. \A u \in Traced : TraceCounts(traces[u])'
  BY <1>2 DEF SpansInv, TraceCounts
<1>4. IsFiniteSet(OpenOf(traces)) /\ Cardinality(OpenOf(traces)) \in Nat
  BY OpenFinite
<1>5. OpenOf(traces') = {u \in Traced : (IF u = t THEN new ELSE traces[u]).state = "open"}
  BY <1>2 DEF OpenOf
<1>6. tracing' = Cardinality(OpenOf(traces'))
  <2>1. CASE (new.state = "open") = (traces[t].state = "open") /\ tracing' = tracing
    <3>1. OpenOf(traces') = OpenOf(traces)
      BY <1>5, <2>1 DEF OpenOf
    <3> QED
      BY <1>1, <2>1, <3>1
  <2>2. CASE new.state = "open" /\ traces[t].state # "open" /\ tracing' = tracing + 1
    <3>1. OpenOf(traces') = OpenOf(traces) \cup {t} /\ t \notin OpenOf(traces)
      BY <1>5, <2>2 DEF OpenOf
    <3>2. Cardinality(OpenOf(traces) \cup {t}) = Cardinality(OpenOf(traces)) + 1
      BY <1>4, <3>1, FS_AddElement
    <3> QED
      BY <1>1, <2>2, <3>1, <3>2
  <2>3. CASE new.state # "open" /\ traces[t].state = "open" /\ tracing' = tracing - 1
    <3>1. OpenOf(traces') = OpenOf(traces) \ {t} /\ t \in OpenOf(traces)
      BY <1>5, <2>3 DEF OpenOf
    <3>2. Cardinality(OpenOf(traces) \ {t}) = Cardinality(OpenOf(traces)) - 1
      BY <1>4, <3>1, FS_RemoveElement
    <3> QED
      BY <1>1, <2>3, <3>1, <3>2
  <2> QED
    BY <2>1, <2>2, <2>3
<1>7. OpenOf(traces)' = OpenOf(traces')
  BY DEF OpenOf
<1> QED
  BY <1>2, <1>3, <1>6, <1>7 DEF SpansInv

LEMMA TraceIs ==
    ASSUME SpansInv, NEW t \in Traced
    PROVE  /\ traces[t] \in TraceRecords /\ TraceCounts(traces[t])
           /\ tracing \in Nat /\ tracing <= MaxActive
           /\ traces[t].pending \in Nat /\ traces[t].spans \in Nat
           /\ traces[t].ended \in Nat /\ traces[t].dropped \in Nat
           /\ traces[t].state = "open" => tracing > 0
<1>1. traces[t] \in TraceRecords /\ TraceCounts(traces[t]) /\ tracing \in 0 .. MaxActive
  BY DEF SpansInv
<1>2. tracing \in Nat /\ tracing <= MaxActive
  BY <1>1, BoundsNat
<1>3. ASSUME traces[t].state = "open" PROVE tracing > 0
  <2>1. t \in OpenOf(traces) /\ IsFiniteSet(OpenOf(traces))
    BY <1>3, OpenFinite DEF OpenOf
  <2>2. Cardinality(OpenOf(traces)) # 0
    BY <2>1, FS_EmptySet
  <2> QED
    BY <1>2, <2>2 DEF SpansInv
<1> QED
  BY <1>1, <1>2, <1>3 DEF TraceRecords

LEMMA EndedStagesIs ==
    ASSUME NEW t \in TraceRecords, TraceCounts(t), NEW n \in Nat, n <= t.pending, t.state # "finished"
    PROVE  LET e == Traces!EndedStages(t, n)
           IN  /\ e \in TraceRecords /\ TraceCounts(e) /\ e.pending = t.pending - n
               /\ e.state = t.state
<1> DEFINE kept == IF t.spans + n <= MaxSpans THEN n ELSE MaxSpans - t.spans
           p == t.pending - n
           d == t.ended + n
           s == t.spans + kept
           o == t.dropped + n - kept
           e == [t EXCEPT !.pending = p, !.ended = d, !.spans = s, !.dropped = o]
<1>1. t.pending \in Nat /\ t.spans \in Nat /\ t.ended \in Nat /\ t.dropped \in Nat /\ MaxSpans \in Nat
  BY BoundsNat DEF TraceRecords
<1>2. t.spans <= MaxSpans /\ t.spans + t.dropped = t.ended
  BY DEF TraceCounts
<1>3. kept \in Nat /\ kept <= n /\ t.spans + kept <= MaxSpans
  BY <1>1, <1>2
<1> HIDE DEF kept
<1>4. /\ p \in Nat /\ d \in Nat /\ s \in Nat /\ o \in Nat /\ s <= MaxSpans /\ s + o = d
  BY <1>1, <1>2, <1>3
<1>5. Traces!EndedStages(t, n) = e
  BY DEF Traces!EndedStages, kept
<1> HIDE DEF p, d, s, o
<1>6. e \in TraceRecords
  BY <1>4 DEF TraceRecords
<1>7. e.pending = p /\ e.ended = d /\ e.spans = s /\ e.dropped = o /\ e.state = t.state
  BY DEF TraceRecords
<1> HIDE DEF e
<1>8. TraceCounts(e)
  BY <1>4, <1>7 DEF TraceCounts
<1> QED
  BY <1>5, <1>6, <1>7, <1>8 DEF p

LEMMA StartRunStep == ASSUME SpansInv, NEW t \in Traced, Traces!StartRun(t) PROVE SpansInv'
<1>1. traces[t] \in TraceRecords /\ TraceCounts(traces[t]) /\ tracing \in Nat /\ tracing <= MaxActive
  BY TraceIs
<1>2. PICK state \in {"untraced", "open"} :
         /\ traces[t].state = "none" /\ traces' = [traces EXCEPT ![t].state = state]
         /\ IF state = "open" THEN tracing < MaxActive /\ tracing' = tracing + 1
            ELSE tracing' = tracing
  <2>1. ~(tracing >= MaxActive) => tracing < MaxActive
    BY <1>1, BoundsNat
  <2> QED
    BY <2>1 DEF Traces!StartRun
<1> DEFINE new == [traces[t] EXCEPT !.state = state]
<1>3. traces' = [traces EXCEPT ![t] = new]
  BY <1>2
<1>4. new \in TraceRecords
  BY <1>1 DEF TraceRecords
<1>5. /\ new.state = state /\ new.pending = traces[t].pending /\ new.spans = traces[t].spans
      /\ new.dropped = traces[t].dropped /\ new.ended = traces[t].ended
  BY <1>1 DEF TraceRecords
<1> HIDE DEF new
<1>6. TraceCounts(new)
  BY <1>1, <1>5 DEF TraceCounts
<1>7. tracing' \in 0 .. MaxActive
  BY <1>1, <1>2, BoundsNat
<1> QED
  BY <1>2, <1>3, <1>4, <1>5, <1>6, <1>7, TraceMoves

LEMMA StageStep ==
    ASSUME SpansInv, NEW t \in Traced, Traces!Stage(t) \/ Traces!EndStage(t) PROVE SpansInv'
<1>1. /\ traces[t] \in TraceRecords /\ TraceCounts(traces[t]) /\ traces[t].pending \in Nat
      /\ tracing \in 0 .. MaxActive
  BY TraceIs DEF SpansInv
<1>2. traces[t].state = "open" /\ tracing' = tracing
  BY DEF Traces!Stage, Traces!EndStage
<1>3. CASE Traces!Stage(t)
  <2> DEFINE p == traces[t].pending + 1
             new == [traces[t] EXCEPT !.pending = p]
  <2>1. p \in Nat /\ traces' = [traces EXCEPT ![t] = new]
    BY <1>1, <1>3 DEF Traces!Stage
  <2> HIDE DEF p
  <2>2. new \in TraceRecords
    BY <1>1, <2>1 DEF TraceRecords
  <2>3. /\ new.state = "open" /\ new.spans = traces[t].spans
        /\ new.dropped = traces[t].dropped /\ new.ended = traces[t].ended
    BY <1>1, <1>2 DEF TraceRecords
  <2> HIDE DEF new
  <2>4. TraceCounts(new)
    BY <1>1, <2>3 DEF TraceCounts
  <2> QED
    BY <1>1, <1>2, <2>1, <2>2, <2>3, <2>4, TraceMoves
<1>4. CASE Traces!EndStage(t)
  <2> DEFINE new == Traces!EndedStages(traces[t], 1)
  <2>1. traces' = [traces EXCEPT ![t] = new] /\ 1 <= traces[t].pending
    BY <1>1, <1>4 DEF Traces!EndStage
  <2>2. new \in TraceRecords /\ TraceCounts(new) /\ new.state = "open"
    BY <1>1, <1>2, <2>1, EndedStagesIs
  <2> HIDE DEF new
  <2> QED
    BY <1>1, <1>2, <2>1, <2>2, TraceMoves
<1> QED
  BY <1>3, <1>4

LEMMA FinishStep == ASSUME SpansInv, NEW t \in Traced, Traces!FinishRun(t) PROVE SpansInv'
<1>1. /\ traces[t] \in TraceRecords /\ TraceCounts(traces[t]) /\ traces[t].pending \in Nat
      /\ tracing \in Nat /\ tracing <= MaxActive /\ traces[t].state = "open" /\ tracing > 0
  BY TraceIs DEF Traces!FinishRun
<1> DEFINE e == Traces!EndedStages(traces[t], traces[t].pending)
           new == [e EXCEPT !.state = "finished"]
<1>2. traces' = [traces EXCEPT ![t] = new] /\ tracing' = tracing - 1
  BY DEF Traces!FinishRun
<1>3. traces[t].pending <= traces[t].pending /\ traces[t].pending - traces[t].pending = 0
  BY <1>1
<1>4. e \in TraceRecords /\ TraceCounts(e) /\ e.pending = 0
  BY <1>1, <1>3, EndedStagesIs
<1> HIDE DEF e
<1>5. new \in TraceRecords
  BY <1>4 DEF TraceRecords
<1>6. /\ new.state = "finished" /\ new.pending = e.pending /\ new.spans = e.spans
      /\ new.dropped = e.dropped /\ new.ended = e.ended
  BY <1>4 DEF TraceRecords
<1> HIDE DEF new
<1>7. TraceCounts(new)
  BY <1>4, <1>6 DEF TraceCounts
<1>8. tracing' \in 0 .. MaxActive
  BY <1>1, <1>2, BoundsNat
<1> QED
  BY <1>1, <1>2, <1>5, <1>6, <1>7, <1>8, TraceMoves

LEMMA SpansRest == ASSUME SpansInv, UNCHANGED <<tracing, traces>> PROVE SpansInv'
BY DEF SpansInv, OpenOf, TraceCounts

LEMMA QueueRests ==
    ASSUME QueueInv, UNCHANGED Traces!pipeline, UNCHANGED closing PROVE QueueInv'
BY DEF QueueInv, QueueTypes, Traces!pipeline, Traces!RecordsAccounted

LEMMA TraceNext == ASSUME TraceInv, Traces!Next PROVE TraceInv'
<1>1. QueueInv /\ SpansInv
  BY DEF TraceInv
<1>2. ASSUME NEW t \in Traced, Traces!StartRun(t) \/ Traces!Stage(t) \/ Traces!EndStage(t)
      PROVE  TraceInv'
  <2>1. UNCHANGED Traces!pipeline /\ UNCHANGED closing
    BY <1>2 DEF Traces!StartRun, Traces!Stage, Traces!EndStage, Traces!pipeline
  <2> QED
    BY <1>1, <1>2, <2>1, QueueRests, StartRunStep, StageStep DEF TraceInv
<1>3. ASSUME NEW t \in Traced, Traces!FinishRun(t) PROVE TraceInv'
  <2>1. (Traces!Enqueue \/ UNCHANGED Traces!pipeline) /\ UNCHANGED closing
    BY <1>3 DEF Traces!FinishRun
  <2> QED
    BY <1>1, <1>3, <2>1, QueueRests, EnqueueStep, FinishStep DEF TraceInv
<1>4. CASE Traces!Progress
  BY <1>1, <1>4, EnqueueStep, SpansRest DEF TraceInv, Traces!Progress
<1>5. CASE Traces!Immediate \/ Traces!Flush \/ Traces!Close
  BY <1>1, <1>5, TakeStep, SpansRest DEF TraceInv, Traces!Immediate, Traces!Flush, Traces!Close
<1>6. CASE Traces!Exported
  BY <1>1, <1>6, ExportedStep, SpansRest DEF TraceInv, Traces!Exported
<1>7. ASSUME NEW timeout \in BOOLEAN, Traces!ExportFailed(timeout) PROVE TraceInv'
  BY <1>1, <1>7, ExportFailedStep, SpansRest DEF TraceInv, Traces!ExportFailed
<1> QED
  BY <1>2, <1>3, <1>4, <1>5, <1>6, <1>7 DEF Traces!Next

LEMMA TraceRests == ASSUME TraceInv, UNCHANGED traceVars PROVE TraceInv'
BY QueueRests, SpansRest DEF TraceInv, traceVars, Traces!pipeline

LEMMA TraceBegins == ASSUME Traces!Init PROVE TraceInv
<1>1. QueueTypes /\ Traces!RecordsAccounted
  <2>1. /\ backlog = <<>> /\ exporting = <<>> /\ Len(backlog) = 0 /\ Len(exporting) = 0
        /\ counters = [dropped |-> 0, exported |-> 0] /\ made = 0
        /\ backlog \in Seq(Nat) /\ exporting \in Seq(Nat)
    BY DEF Traces!Init
  <2>2. /\ counters \in [dropped : Nat, exported : Nat] /\ counters.dropped = 0
        /\ counters.exported = 0
    BY <2>1
  <2>3. made \in 0 .. MaxRecords /\ 0 <= QueueSize /\ 0 <= BatchSize
    BY <2>1, BoundsNat
  <2>4. exporter \in [disabled : BOOLEAN, failures : Nat]
    BY DEF Traces!Init
  <2>5. QueueTypes
    BY <2>1, <2>2, <2>3, <2>4 DEF Traces!Init, QueueTypes
  <2>6. Traces!RecordsAccounted
    BY <2>1, <2>2 DEF Traces!RecordsAccounted
  <2> QED
    BY <2>5, <2>6
<1>2. Traces!NoTrace \in TraceRecords /\ TraceCounts(Traces!NoTrace) /\ Traces!NoTrace.state = "none"
  BY BoundsNat DEF Traces!NoTrace, TraceRecords, TraceCounts
<1>3. OpenOf(traces) = {}
  BY <1>2 DEF Traces!Init, OpenOf
<1>4. SpansInv
  <2>1. tracing = 0 /\ tracing \in 0 .. MaxActive /\ Cardinality(OpenOf(traces)) = 0
    <3>1. tracing = 0 /\ 0 \in 0 .. MaxActive
      BY BoundsNat DEF Traces!Init
    <3> QED
      BY <1>3, <3>1, FS_EmptySet
  <2>2. traces = [t \in Traced |-> Traces!NoTrace]
    BY DEF Traces!Init
  <2>3. traces \in [Traced -> TraceRecords] /\ \A t \in Traced : TraceCounts(traces[t])
    BY <1>2, <2>2
  <2> QED
    BY <2>1, <2>3 DEF SpansInv
<1> QED
  BY <1>1, <1>4 DEF TraceInv, QueueInv

\* Every record that the diagnostics accepted is exported, counted as dropped or on its
\* way to an export that is due, and every run that was traced closes its stages, for any
\* limits of the queue, the batches and the runs (src/src/diagnostics.ts).
THEOREM RecordsAreAccounted == RequestsSpec => []RecordsAccounted
<1>1. RequestsInit => TraceInv
  BY TraceBegins DEF RequestsInit
<1>2. TraceInv /\ [RequestsNext]_allVars => TraceInv'
  BY TraceNext, TraceRests DEF RequestsNext, allVars
<1>3. TraceInv => RecordsAccounted
  <2> SUFFICES ASSUME TraceInv PROVE RecordsAccounted
    OBVIOUS
  <2>1. Traces!TypeOK
    BY DEF TraceInv, QueueInv, SpansInv, QueueTypes, TraceRecords, Traces!TypeOK
  <2>2. Traces!TracesClose
    <3>1. tracing = Traces!Cardinality({t \in Traced : traces[t].state = "open"})
      BY TraceCount DEF TraceInv, SpansInv, OpenOf
    <3> QED
      BY <3>1 DEF TraceInv, SpansInv, TraceCounts, Traces!TracesClose
  <2> QED
    BY <2>1, <2>2 DEF TraceInv, QueueInv, RecordsAccounted
<1> QED
  BY <1>1, <1>2, <1>3, PTL DEF RequestsSpec

=============================================================================
