------------------------ MODULE ConversationsProofs ------------------------
(***************************************************************************)
(* Proofs about what a conversation is made of, for every value of the     *)
(* constants that ConversationsAssumption admits.                          *)
(***************************************************************************)
EXTENDS MCConversations, Sums, Sequences, SequenceTheorems

-----------------------------------------------------------------------------
(* Sessions: types, one turn per session, and that no two turns call the model *)
(* on one revision                                                             *)

USE SessionsAssumption

-----------------------------------------------------------------------------
(* The inductive invariant *)

\* What a record says of its turn.
RecordInv ==
    \A id \in Ids :
        /\ record[id].timer <=> Held(id) /\ record[id].active = None
        /\ (record[id].state = "running") <=> (record[id].active # None)
        /\ ~Held(id) => record[id].history = <<>>
        /\ record[id].active # None =>
              /\ turn[record[id].active].session = id
              /\ ~turn[record[id].active].settled
              /\ turn[record[id].active].at \in Working \cup {"failing"}
              /\ record[id].revision < MaxTurns

\* A turn that has not begun.
NewInv ==
    \A t \in Turns :
        /\ turn[t].at = "new" => /\ turn[t].session = None
                                 /\ ~turn[t].started /\ ~turn[t].settled
        /\ turn[t].at # "new" => /\ turn[t].session \in Ids
                                 /\ record[turn[t].session].state # "unused"

\* A turn whose lease is open: the record is its own, as it found it, or gone.
OpenInv ==
    \A t \in Turns :
        turn[t].at # "new" /\ ~turn[t].settled =>
            IF Held(turn[t].session)
            THEN /\ record[turn[t].session].active = t
                 /\ record[turn[t].session].revision = turn[t].base
                 /\ record[turn[t].session].history = turn[t].seen
                 /\ ~turn[t].aborted
            ELSE turn[t].aborted

\* A turn whose lease is closed: aborted, or done.
SettledInv ==
    \A t \in Turns :
        /\ turn[t].settled => turn[t].aborted \/ turn[t].at = "committed"
        /\ turn[t].at = "committed" => turn[t].settled
        /\ turn[t].at = "ended" => turn[t].aborted

Inv ==
    /\ TypeOK /\ RecordInv /\ NewInv /\ OpenInv /\ SettledInv
    /\ WorkIsNotForgotten /\ OneModelPerRevision

-----------------------------------------------------------------------------
(* Records and turns *)

LEMMA IdleRecord ==
    ASSUME NEW r \in Record, NEW state \in {"ready", "interrupted"}
    PROVE  /\ Idle(r, state) \in Record
           /\ Idle(r, state).state = state
           /\ Idle(r, state).active = None
           /\ Idle(r, state).timer
           /\ Idle(r, state).revision = r.revision
           /\ Idle(r, state).history = r.history
BY DEF Idle, Record

LEMMA TakenRecord ==
    ASSUME NEW r \in Record, NEW t \in Turns
    PROVE  /\ Taken(r, t) \in Record
           /\ Taken(r, t).state = "running"
           /\ Taken(r, t).active = t
           /\ ~Taken(r, t).timer
           /\ Taken(r, t).revision = r.revision
           /\ Taken(r, t).history = r.history
BY DEF Taken, Record

LEMMA CommittedRecord ==
    ASSUME NEW r \in Record, NEW t \in Turns, r.revision < MaxTurns
    PROVE  /\ Committed(r, t) \in Record
           /\ Committed(r, t).state = "ready"
           /\ Committed(r, t).active = None
           /\ Committed(r, t).timer
           /\ Committed(r, t).revision = r.revision + 1
           /\ Committed(r, t).history = Append(r.history, t)
<1> DEFINE idle == Idle(r, "ready")
<1>1. /\ idle \in Record /\ idle.state = "ready" /\ idle.active = None /\ idle.timer
      /\ idle.revision = r.revision /\ idle.history = r.history
  BY IdleRecord
<1>2. idle.revision + 1 \in 0 .. MaxTurns
  BY <1>1 DEF Record
<1>3. Append(idle.history, t) \in Seq(Turns)
  BY <1>1 DEF Record
<1>4. Committed(r, t) = [idle EXCEPT !.history = Append(@, t), !.revision = @ + 1]
  BY DEF Committed
<1> HIDE DEF idle
<1> QED
  BY <1>1, <1>2, <1>3, <1>4 DEF Record

LEMMA FixedRecords ==
    /\ Created \in Record /\ Removed \in Record /\ Unused \in Record
    /\ Created.state = "ready" /\ Created.timer
    /\ Removed.state = "removed" /\ ~Removed.timer
    /\ Unused.state = "unused" /\ ~Unused.timer
    /\ \A r \in {Created, Removed, Unused} :
          r.active = None /\ r.history = <<>> /\ r.revision = 0
<1>1. <<>> \in Seq(Turns) /\ 0 \in 0 .. MaxTurns
  OBVIOUS
<1>2. Unused \in Record
  BY <1>1 DEF Unused, Record
<1>3. /\ Unused.state = "unused" /\ ~Unused.timer /\ Unused.active = None
      /\ Unused.history = <<>> /\ Unused.revision = 0
  BY DEF Unused
<1>4. /\ Created \in Record /\ Created.state = "ready" /\ Created.timer
      /\ Created.active = None /\ Created.history = <<>> /\ Created.revision = 0
  BY <1>2, <1>3 DEF Created, Record
<1>5. /\ Removed \in Record /\ Removed.state = "removed" /\ ~Removed.timer
      /\ Removed.active = None /\ Removed.history = <<>> /\ Removed.revision = 0
  BY <1>2, <1>3 DEF Removed, Record
<1> QED
  BY <1>2, <1>3, <1>4, <1>5

\* Giving a record back.
LEMMA ReleaseEffect ==
    ASSUME TypeOK, NEW t \in Turns, NEW tn \in Turn, tn.session \in Ids, Release(t, tn)
    PROVE  /\ record' \in [Ids -> Record]
           /\ turn' \in [Turns -> Turn]
           /\ \A u \in Turns \ {t} : turn'[u] = turn[u]
           /\ turn'[t].at = tn.at /\ turn'[t].session = tn.session
           /\ turn'[t].base = tn.base /\ turn'[t].seen = tn.seen
           /\ turn'[t].started = tn.started /\ turn'[t].aborted = tn.aborted
           /\ turn'[t].settled <=> tn.settled \/ Held(tn.session)
           /\ \A id \in Ids :
                 record'[id] = IF id = tn.session /\ ~tn.settled /\ Held(id)
                               THEN Released(record[id], tn) ELSE record[id]
<1>1. record \in [Ids -> Record] /\ turn \in [Turns -> Turn]
  BY DEF TypeOK
<1>2. Released(record[tn.session], tn) \in Record
  BY <1>1, IdleRecord DEF Released, Turn
<1>3. [tn EXCEPT !.settled = TRUE] \in Turn
  BY DEF Turn
<1>4. CASE ~tn.settled /\ Held(tn.session)
  <2>1. record' = [record EXCEPT ![tn.session] = Released(@, tn)]
    BY <1>4 DEF Release
  <2>2. turn' = [turn EXCEPT ![t] = [tn EXCEPT !.settled = TRUE]]
    BY <1>4 DEF Release
  <2>3. record' \in [Ids -> Record] /\ turn' \in [Turns -> Turn]
    BY <1>1, <1>2, <1>3, <2>1, <2>2
  <2>4. \A id \in Ids : record'[id] = IF id = tn.session THEN Released(record[id], tn)
                                      ELSE record[id]
    BY <1>1, <2>1
  <2>5. turn'[t] = [tn EXCEPT !.settled = TRUE] /\ \A u \in Turns \ {t} : turn'[u] = turn[u]
    BY <1>1, <2>2
  <2> QED
    BY <1>4, <2>3, <2>4, <2>5 DEF Turn
<1>5. CASE ~(~tn.settled /\ Held(tn.session))
  <2>1. record' = record /\ turn' = [turn EXCEPT ![t] = tn]
    BY <1>5 DEF Release
  <2> QED
    BY <1>1, <1>5, <2>1 DEF Turn
<1> QED
  BY <1>4, <1>5

-----------------------------------------------------------------------------
(* Every step keeps the invariant *)

LEMMA ActiveTurns ==
    ASSUME Inv
    PROVE  \A id \in Ids : record[id].active \in Turns \cup {None}
BY DEF Inv, TypeOK, Record

LEMMA Bases ==
    ASSUME Inv
    PROVE  /\ \A t \in Turns : turn[t].base \in Nat
           /\ \A id \in Ids : record[id].revision \in Nat /\ record[id].history \in Seq(Turns)
BY DEF Inv, TypeOK, Record, Turn

\* No turn starts work, or is counted to other work than before.
SameWork ==
    \A t \in Turns :
        /\ turn'[t].started => turn[t].started
        /\ turn[t].started => turn'[t].session = turn[t].session /\ turn'[t].base = turn[t].base

LEMMA SameWorkKeepsOneModel ==
    ASSUME OneModelPerRevision, SameWork
    PROVE  OneModelPerRevision'
BY DEF OneModelPerRevision, SameWork

\* A turn that only moves within its run keeps its type.
LEMMA MovedTurn ==
    ASSUME TypeOK, NEW t \in Turns, NEW tn \in Turn, record' = record,
           turn' = [turn EXCEPT ![t] = tn]
    PROVE  TypeOK'
<1>1. turn' \in [Turns -> Turn]
  BY DEF TypeOK
<1> QED
  BY <1>1 DEF TypeOK

LEMMA CreateStep ==
    ASSUME Inv, NEW id \in Ids, Create(id)
    PROVE  Inv'
<1> DEFINE swept == [i \in Ids |-> IF Stale(i) THEN Removed ELSE record[i]]
<1>1. turn' = turn /\ record[id].state = "unused"
  BY DEF Create
<1>2. record' = swept \/ record' = [swept EXCEPT ![id] = Created]
  BY DEF Create
<1>3. \A i \in Ids :
         \/ record'[i] = record[i]
         \/ record'[i] = Removed /\ Held(i) /\ record[i].active = None
         \/ record'[i] = Created /\ record[i].state = "unused"
  BY <1>1, <1>2 DEF Stale
<1>4. record' \in [Ids -> Record]
  BY <1>2, FixedRecords DEF Inv, TypeOK
<1>5. TypeOK'
  <2>1. \A i \in Ids : record'[i].revision = Len(record'[i].history)
    BY <1>3, FixedRecords DEF Inv, TypeOK
  <2> QED
    BY <1>1, <1>4, <2>1 DEF Inv, TypeOK
<1>6. RecordInv'
  BY <1>1, <1>3, FixedRecords DEF Inv, RecordInv, Held
<1>7. NewInv'
  BY <1>1, <1>3, FixedRecords DEF Inv, NewInv, Held
<1>8. \A t \in Turns : turn[t].at # "new" =>
         \/ record'[turn[t].session] = record[turn[t].session]
         \/ /\ record'[turn[t].session] = Removed
            /\ Held(turn[t].session) /\ record[turn[t].session].active = None
  BY <1>3 DEF Inv, NewInv
<1>9. OpenInv'
  <2> SUFFICES ASSUME NEW t \in Turns, turn[t].at # "new", ~turn[t].settled
               PROVE  record'[turn[t].session] = record[turn[t].session]
    BY <1>1 DEF Inv, OpenInv, Held
  <2>1. Held(turn[t].session) => record[turn[t].session].active # None
    BY DEF Inv, OpenInv
  <2> QED
    BY <1>8, <2>1
<1>10. SettledInv'
  BY <1>1 DEF Inv, SettledInv
<1>11. WorkIsNotForgotten'
  <2> SUFFICES ASSUME NEW t \in Turns, turn[t].started, turn[t].settled,
                      Held(turn[t].session)'
               PROVE  record'[turn[t].session] = record[turn[t].session]
    BY <1>1 DEF Inv, WorkIsNotForgotten, Held
  <2>1. turn[t].at # "new"
    BY DEF Inv, NewInv
  <2>2. record'[turn[t].session] # Removed
    BY <1>1 DEF Held, Removed, Unused
  <2> QED
    BY <1>8, <2>1, <2>2
<1>12. OneModelPerRevision'
  BY <1>1 DEF Inv, OneModelPerRevision
<1> QED
  BY <1>5, <1>6, <1>7, <1>9, <1>10, <1>11, <1>12 DEF Inv

LEMMA LapseStep ==
    ASSUME Inv, NEW id \in Ids, Lapse(id)
    PROVE  Inv'
<1>1. turn' = turn /\ record' = [record EXCEPT ![id] = [record[id] EXCEPT !.due = TRUE]]
  BY DEF Lapse, Inv, TypeOK, Record
<1>2. [record[id] EXCEPT !.due = TRUE] \in Record
  BY DEF Inv, TypeOK, Record
<1>3. record' \in [Ids -> Record]
  BY <1>1, <1>2 DEF Inv, TypeOK
<1>4. \A i \in Ids : /\ record'[i].state = record[i].state
                     /\ record'[i].revision = record[i].revision
                     /\ record'[i].history = record[i].history
                     /\ record'[i].active = record[i].active
                     /\ record'[i].timer = record[i].timer
  BY <1>1 DEF Inv, TypeOK, Record
<1>5. TypeOK'
  BY <1>1, <1>3, <1>4 DEF Inv, TypeOK
<1>6. RecordInv'
  BY <1>1, <1>4 DEF Inv, RecordInv, Held
<1>7. NewInv'
  BY <1>1, <1>4 DEF Inv, NewInv
<1>8. OpenInv'
  BY <1>1, <1>4 DEF Inv, OpenInv, NewInv, Held
<1>9. SettledInv'
  BY <1>1 DEF Inv, SettledInv
<1>10. WorkIsNotForgotten'
  <2> SUFFICES ASSUME NEW t \in Turns, turn[t].started, turn[t].settled,
                      Held(turn[t].session)'
               PROVE  LET r == record[turn[t].session] IN
                      \/ turn[t].base < r.revision /\ r.history[turn[t].base + 1] = t
                      \/ r.state = "interrupted" /\ r.revision = turn[t].base
    <3>1. ASSUME NEW t \in Turns, turn[t].started PROVE turn[t].session \in Ids
      BY <3>1 DEF Inv, NewInv
    <3> QED
      BY <1>1, <1>4, <3>1 DEF WorkIsNotForgotten
  <2>1. Held(turn[t].session)
    BY <1>1, <1>4 DEF Inv, NewInv, Held
  <2> QED
    BY <2>1 DEF Inv, WorkIsNotForgotten
<1>11. OneModelPerRevision'
  BY <1>1 DEF Inv, OneModelPerRevision
<1> QED
  BY <1>5, <1>6, <1>7, <1>8, <1>9, <1>10, <1>11 DEF Inv

LEMMA DiscardStep ==
    ASSUME Inv, NEW id \in Ids, Held(id), Discard(id)
    PROVE  Inv'
<1>1. record' = [record EXCEPT ![id] = Removed]
  BY DEF Discard
<1>2. \A t \in Turns : turn'[t] = IF record[id].active = t
                                  THEN [turn[t] EXCEPT !.aborted = TRUE] ELSE turn[t]
  BY DEF Discard
<1>3. turn' \in [Turns -> Turn]
  <2>1. \A t \in Turns : [turn[t] EXCEPT !.aborted = TRUE] \in Turn
    BY DEF Inv, TypeOK, Turn
  <2> QED
    BY <1>2, <2>1 DEF Inv, TypeOK, Discard
<1>4. TypeOK'
  <2>1. record' \in [Ids -> Record]
    BY <1>1, FixedRecords DEF Inv, TypeOK
  <2>2. \A i \in Ids : record'[i].revision = Len(record'[i].history)
    BY <1>1 DEF Inv, TypeOK, Removed, Unused
  <2> QED
    BY <1>3, <2>1, <2>2 DEF TypeOK
<1> USE DEF Inv, Held, Working, Removed, Unused, Record, Turn, TypeOK, Discard
<1>5. RecordInv'
  BY DEF RecordInv, NewInv, OpenInv
<1>6. NewInv'
  BY DEF NewInv, RecordInv
<1>7. OpenInv'
  BY DEF RecordInv, NewInv, OpenInv
<1>8. SettledInv'
  BY DEF RecordInv, NewInv, SettledInv
<1>9. WorkIsNotForgotten'
  BY DEF RecordInv, NewInv, OpenInv, WorkIsNotForgotten
<1>10. OneModelPerRevision'
  BY DEF OneModelPerRevision
<1> QED
  BY <1>4, <1>5, <1>6, <1>7, <1>8, <1>9, <1>10

LEMMA BeginStep ==
    ASSUME Inv, NEW t \in Turns, NEW id \in Ids, NEW revision \in 0 .. MaxTurns,
           Begin(t, id, revision)
    PROVE  Inv'
<1> DEFINE tn == [turn[t] EXCEPT !.at = "waiting", !.session = id, !.base = revision,
                                 !.seen = record[id].history,
                                 !.settled = turn[t].aborted]
           r == IF turn[t].aborted THEN Idle(record[id], "ready") ELSE Taken(record[id], t)
<1>1. record \in [Ids -> Record] /\ turn \in [Turns -> Turn]
  BY DEF Inv, TypeOK
<1>2. /\ turn[t].at = "new" /\ Held(id) /\ record[id].state = "ready"
      /\ record[id].revision = revision /\ Len(record[id].history) < MaxTurns
  BY DEF Begin
<1>3. turn' = [turn EXCEPT ![t] = tn] /\ record' = [record EXCEPT ![id] = r]
  BY <1>1 DEF Begin, Turn
<1>4. tn \in Turn
  BY <1>1 DEF Turn, Record, Working
<1>5. /\ r \in Record
      /\ r.revision = revision /\ r.history = record[id].history
      /\ IF turn[t].aborted THEN r.state = "ready" /\ r.active = None /\ r.timer
         ELSE r.state = "running" /\ r.active = t /\ ~r.timer
  BY <1>1, <1>2, IdleRecord, TakenRecord
<1>6. ~turn[t].started /\ ~turn[t].settled /\ turn[t].session = None
  BY <1>2 DEF Inv, NewInv
<1>7. /\ tn.at = "waiting" /\ tn.session = id /\ tn.base = revision
      /\ tn.seen = record[id].history /\ ~tn.started
      /\ tn.settled = turn[t].aborted /\ tn.aborted = turn[t].aborted
  BY <1>1, <1>6 DEF Turn
<1>8. record[id].active = None /\ revision < MaxTurns
  BY <1>2 DEF Inv, RecordInv, TypeOK
<1> HIDE DEF tn, r
<1>9. /\ \A u \in Turns : turn'[u] = IF u = t THEN tn ELSE turn[u]
      /\ \A i \in Ids : record'[i] = IF i = id THEN r ELSE record[i]
  BY <1>1, <1>3
<1>10. TypeOK'
  <2>1. record' \in [Ids -> Record] /\ turn' \in [Turns -> Turn]
    BY <1>1, <1>3, <1>4, <1>5
  <2> QED
    BY <1>2, <1>5, <1>9, <2>1 DEF Inv, TypeOK
<1>11. RecordInv'
  <2>1. \A i \in Ids : record[i].active # t
    BY <1>2 DEF Inv, RecordInv, Working
  <2> QED
    BY <1>2, <1>5, <1>7, <1>8, <1>9, <2>1, ActiveTurns DEF Inv, RecordInv, Held, Working
<1>12. NewInv'
  BY <1>2, <1>5, <1>6, <1>7, <1>9 DEF Inv, NewInv
<1>13. OpenInv'
  BY <1>2, <1>5, <1>6, <1>7, <1>8, <1>9 DEF Inv, OpenInv, NewInv, Held
<1>14. SettledInv'
  BY <1>6, <1>7, <1>9 DEF Inv, SettledInv
<1>15. WorkIsNotForgotten'
  <2> SUFFICES ASSUME NEW u \in Turns, turn'[u].started, turn'[u].settled,
                      Held(turn[u].session)'
               PROVE  LET q == record'[turn'[u].session] IN
                      \/ turn'[u].base < q.revision /\ q.history[turn'[u].base + 1] = u
                      \/ q.state = "interrupted" /\ q.revision = turn'[u].base
    BY DEF WorkIsNotForgotten
  <2>1. u # t /\ turn'[u] = turn[u]
    BY <1>7, <1>9
  <2>2. turn[u].session \in Ids
    BY <2>1 DEF Inv, NewInv
  <2>3. Held(turn[u].session)
    BY <1>2, <1>9, <2>1, <2>2 DEF Held
  <2>4. LET q == record[turn[u].session] IN
        \/ turn[u].base < q.revision /\ q.history[turn[u].base + 1] = u
        \/ q.state = "interrupted" /\ q.revision = turn[u].base
    BY <2>1, <2>3 DEF Inv, WorkIsNotForgotten
  <2> QED
    BY <1>2, <1>5, <1>9, <2>1, <2>2, <2>4
<1>16. SameWork
  BY <1>6, <1>7, <1>9 DEF SameWork
<1> QED
  BY <1>10, <1>11, <1>12, <1>13, <1>14, <1>15, <1>16, SameWorkKeepsOneModel DEF Inv

\* abort and finally both give the record back.
LEMMA ReleaseStep ==
    ASSUME Inv, NEW t \in Turns, NEW tn \in Turn,
           turn[t].at \in Working \cup {"failing", "committed"},
           tn.at \in {turn[t].at, "ended"}, tn.aborted,
           tn.session = turn[t].session, tn.base = turn[t].base,
           tn.seen = turn[t].seen, tn.started = turn[t].started,
           tn.settled = turn[t].settled, Release(t, tn)
    PROVE  Inv'
<1> DEFINE id == turn[t].session
<1>1. id \in Ids /\ turn[t].at \notin {"new", "ended"}
  BY DEF Inv, NewInv, Working
<1>2. /\ record \in [Ids -> Record] /\ turn \in [Turns -> Turn] /\ TypeOK
  BY DEF Inv, TypeOK
<1>3. /\ record' \in [Ids -> Record]
      /\ turn' \in [Turns -> Turn]
      /\ \A u \in Turns \ {t} : turn'[u] = turn[u]
      /\ turn'[t].at = tn.at /\ turn'[t].session = id
      /\ turn'[t].base = turn[t].base /\ turn'[t].seen = turn[t].seen
      /\ turn'[t].started = turn[t].started /\ turn'[t].aborted
      /\ turn'[t].settled <=> turn[t].settled \/ Held(id)
      /\ \A i \in Ids :
            record'[i] = IF i = id /\ ~turn[t].settled /\ Held(i)
                         THEN Released(record[i], tn) ELSE record[i]
  BY <1>1, <1>2, ReleaseEffect
<1>4. \A i \in Ids :
         /\ record'[i].revision = record[i].revision
         /\ record'[i].history = record[i].history
         /\ IF i = id /\ ~turn[t].settled /\ Held(i)
            THEN /\ record'[i].active = None /\ record'[i].timer
                 /\ record'[i].state = IF turn[t].started THEN "interrupted" ELSE "ready"
            ELSE record'[i] = record[i]
  BY <1>2, <1>3, IdleRecord DEF Released
<1>5. TypeOK'
  BY <1>2, <1>3, <1>4 DEF TypeOK
<1>6. \A i \in Ids : Held(i)' <=> Held(i)
  BY <1>4 DEF Held
<1>7. Held(id) /\ ~turn[t].settled =>
         /\ record[id].active = t /\ record[id].revision = turn[t].base
         /\ record[id].state = "running"
  BY <1>1 DEF Inv, OpenInv, RecordInv
<1>8. \A i \in Ids : record[i].active = t => i = id /\ ~turn[t].settled
  BY <1>1 DEF Inv, RecordInv
<1>9. RecordInv'
  BY <1>3, <1>4, <1>6, <1>7, <1>8, ActiveTurns DEF Inv, RecordInv, Held
<1>10. NewInv'
  BY <1>1, <1>3, <1>4, <1>6 DEF Inv, NewInv, Held
<1>11. OpenInv'
  <2> SUFFICES ASSUME NEW u \in Turns, turn'[u].at # "new", ~turn'[u].settled
               PROVE  IF Held(turn[u].session)'
                      THEN /\ record'[turn'[u].session].active = u
                           /\ record'[turn'[u].session].revision = turn'[u].base
                           /\ record'[turn'[u].session].history = turn'[u].seen
                           /\ ~turn'[u].aborted
                      ELSE turn'[u].aborted
    BY DEF OpenInv, Held
  <2>1. CASE u = t
    BY <1>1, <1>3, <1>6, <2>1
  <2>2. CASE u # t
    <3>1. turn'[u] = turn[u] /\ turn[u].session \in Ids
      BY <1>3, <2>2 DEF Inv, NewInv
    <3>2. Held(turn[u].session) => record[turn[u].session].active = u
      BY <3>1 DEF Inv, OpenInv
    <3>3. record'[turn[u].session] = record[turn[u].session]
      BY <1>4, <1>7, <2>2, <3>1, <3>2
    <3> QED
      BY <1>6, <3>1, <3>3 DEF Inv, OpenInv
  <2> QED
    BY <2>1, <2>2
<1>12. SettledInv'
  BY <1>1, <1>3 DEF Inv, SettledInv, Working
<1>13. WorkIsNotForgotten'
  <2> SUFFICES ASSUME NEW u \in Turns, turn'[u].started, turn'[u].settled,
                      Held(turn[u].session)'
               PROVE  LET q == record'[turn'[u].session] IN
                      \/ turn'[u].base < q.revision /\ q.history[turn'[u].base + 1] = u
                      \/ q.state = "interrupted" /\ q.revision = turn'[u].base
    BY DEF WorkIsNotForgotten
  <2>1. turn'[u].session = turn[u].session /\ turn'[u].base = turn[u].base /\ turn[u].started
    BY <1>3
  <2>2. turn[u].session \in Ids /\ Held(turn[u].session)
    BY <1>6, <2>1 DEF Inv, NewInv
  <2>3. CASE turn[u].settled
    <3>1. LET q == record[turn[u].session] IN
          \/ turn[u].base < q.revision /\ q.history[turn[u].base + 1] = u
          \/ q.state = "interrupted" /\ q.revision = turn[u].base
      BY <2>1, <2>2, <2>3 DEF Inv, WorkIsNotForgotten
    <3> QED
      BY <1>4, <1>7, <2>1, <2>2, <3>1
  <2>4. CASE ~turn[u].settled
    <3>1. u = t
      BY <1>3, <2>4
    <3> QED
      BY <1>4, <1>7, <2>1, <2>2, <2>4, <3>1
  <2> QED
    BY <2>3, <2>4
<1>14. SameWork
  BY <1>3 DEF SameWork
<1> QED
  BY <1>5, <1>9, <1>10, <1>11, <1>12, <1>13, <1>14, SameWorkKeepsOneModel DEF Inv

LEMMA AbortStep ==
    ASSUME Inv, NEW t \in Turns, Abort(t)
    PROVE  Inv'
<1> DEFINE tn == [turn[t] EXCEPT !.aborted = TRUE]
<1>1. turn \in [Turns -> Turn] /\ tn \in Turn
  BY DEF Inv, TypeOK, Turn
<1>2. /\ tn.at = turn[t].at /\ tn.session = turn[t].session /\ tn.base = turn[t].base
      /\ tn.seen = turn[t].seen /\ tn.started = turn[t].started
      /\ tn.settled = turn[t].settled /\ tn.aborted
  BY <1>1 DEF Turn
<1>3. CASE Executing(t)
  <2>1. turn[t].at \in Working \cup {"failing", "committed"} /\ Release(t, tn)
    BY <1>1, <1>3 DEF Abort, Executing, Turn
  <2> HIDE DEF tn
  <2> QED
    BY <1>1, <1>2, <2>1, ReleaseStep
<1>4. CASE ~Executing(t)
  <2>1. turn[t].at = "new" /\ record' = record /\ turn' = [turn EXCEPT ![t] = tn]
    BY <1>1, <1>4 DEF Abort
  <2> HIDE DEF tn
  <2>2. \A u \in Turns : turn'[u] = IF u = t THEN tn ELSE turn[u]
    BY <1>1, <2>1
  <2>3. TypeOK'
    BY <1>1, <2>1, MovedTurn DEF Inv
  <2>4. RecordInv'
    BY <1>2, <2>1, <2>2 DEF Inv, RecordInv, Held
  <2>5. NewInv'
    BY <1>2, <2>1, <2>2 DEF Inv, NewInv
  <2>6. OpenInv'
    BY <1>2, <2>1, <2>2 DEF Inv, OpenInv, NewInv, Held
  <2>7. SettledInv'
    BY <1>2, <2>1, <2>2 DEF Inv, SettledInv
  <2>8. WorkIsNotForgotten'
    BY <1>2, <2>1, <2>2 DEF Inv, WorkIsNotForgotten, NewInv, Held
  <2>9. SameWork
    BY <1>2, <2>2 DEF SameWork
  <2> QED
    BY <2>3, <2>4, <2>5, <2>6, <2>7, <2>8, <2>9, SameWorkKeepsOneModel DEF Inv
<1> QED
  BY <1>3, <1>4

LEMMA FinishStep ==
    ASSUME Inv, NEW t \in Turns, Finish(t)
    PROVE  Inv'
<1> DEFINE tn == [turn[t] EXCEPT !.at = "ended", !.aborted = TRUE]
<1>1. turn \in [Turns -> Turn] /\ tn \in Turn
  BY DEF Inv, TypeOK, Turn
<1>2. /\ tn.at = "ended" /\ tn.session = turn[t].session /\ tn.base = turn[t].base
      /\ tn.seen = turn[t].seen /\ tn.started = turn[t].started
      /\ tn.settled = turn[t].settled /\ tn.aborted
  BY <1>1 DEF Turn
<1>3. turn[t].at \in Working \cup {"failing", "committed"} /\ Release(t, tn)
  BY DEF Finish
<1> HIDE DEF tn
<1> QED
  BY <1>1, <1>2, <1>3, ReleaseStep

\* A turn moves on in its run, and its record stays: Check, Respond, Fail.
LEMMA MoveStep ==
    ASSUME Inv, NEW t \in Turns, NEW place \in Working \cup {"failing"},
           turn[t].at \in Working, Moved(t, place), record' = record
    PROVE  Inv'
<1> DEFINE tn == [turn[t] EXCEPT !.at = place]
<1>1. turn \in [Turns -> Turn] /\ tn \in Turn
  BY DEF Inv, TypeOK, Turn
<1>2. /\ tn.at = place /\ tn.session = turn[t].session /\ tn.base = turn[t].base
      /\ tn.seen = turn[t].seen /\ tn.started = turn[t].started
      /\ tn.settled = turn[t].settled /\ tn.aborted = turn[t].aborted
  BY <1>1 DEF Turn
<1>3. turn' = [turn EXCEPT ![t] = tn]
  BY <1>1 DEF Moved
<1> HIDE DEF tn
<1>4. \A u \in Turns : turn'[u] = IF u = t THEN tn ELSE turn[u]
  BY <1>1, <1>3
<1>5. TypeOK'
  BY <1>1, <1>3, MovedTurn DEF Inv
<1>6. RecordInv'
  BY <1>2, <1>4, ActiveTurns DEF Inv, RecordInv, Held
<1>7. NewInv'
  BY <1>2, <1>4 DEF Inv, NewInv, Working
<1>8. OpenInv'
  BY <1>2, <1>4 DEF Inv, OpenInv, Held, Working
<1>9. SettledInv'
  BY <1>2, <1>4 DEF Inv, SettledInv, Working
<1>10. WorkIsNotForgotten'
  BY <1>2, <1>4 DEF Inv, WorkIsNotForgotten, Held
<1>11. SameWork
  BY <1>2, <1>4 DEF SameWork
<1> QED
  BY <1>5, <1>6, <1>7, <1>8, <1>9, <1>10, <1>11, SameWorkKeepsOneModel DEF Inv

\* The turn that calls the model holds the record, so every other turn that
\* called it on this revision would have left the session further or interrupted.
LEMMA StartStep ==
    ASSUME Inv, NEW t \in Turns, Start(t)
    PROVE  Inv'
<1> DEFINE tn == [turn[t] EXCEPT !.started = TRUE, !.at = "model"]
<1>1. turn \in [Turns -> Turn] /\ tn \in Turn
  BY DEF Inv, TypeOK, Turn, Working
<1>2. /\ tn.at = "model" /\ tn.session = turn[t].session /\ tn.base = turn[t].base
      /\ tn.seen = turn[t].seen /\ tn.started
      /\ tn.settled = turn[t].settled /\ tn.aborted = turn[t].aborted
  BY <1>1 DEF Turn
<1>3. /\ turn' = [turn EXCEPT ![t] = tn] /\ record' = record
      /\ turn[t].at = "checked" /\ ~turn[t].aborted
  BY <1>1 DEF Start
<1> HIDE DEF tn
<1>4. \A u \in Turns : turn'[u] = IF u = t THEN tn ELSE turn[u]
  BY <1>1, <1>3
<1>5. ~turn[t].settled
  BY <1>3 DEF Inv, SettledInv
<1>6. LET r == record[turn[t].session] IN
      Held(turn[t].session) /\ r.active = t /\ r.revision = turn[t].base /\ r.state = "running"
  BY <1>3, <1>5 DEF Inv, OpenInv, NewInv, RecordInv
<1>7. \A u \in Turns \ {t} :
         ~(turn[u].started /\ turn[u].session = turn[t].session /\ turn[u].base = turn[t].base)
  <2> SUFFICES ASSUME NEW u \in Turns \ {t}, turn[u].started,
                      turn[u].session = turn[t].session, turn[u].base = turn[t].base
               PROVE  FALSE
    OBVIOUS
  <2>1. turn[u].at # "new"
    BY DEF Inv, NewInv
  <2>2. turn[u].settled
    BY <1>6, <2>1 DEF Inv, OpenInv
  <2> QED
    BY <1>6, <2>2, Bases DEF Inv, WorkIsNotForgotten
<1>8. TypeOK'
  BY <1>1, <1>3, MovedTurn DEF Inv
<1>9. RecordInv'
  BY <1>2, <1>3, <1>4 DEF Inv, RecordInv, Held, Working
<1>10. NewInv'
  BY <1>2, <1>3, <1>4 DEF Inv, NewInv
<1>11. OpenInv'
  BY <1>2, <1>3, <1>4 DEF Inv, OpenInv, Held
<1>12. SettledInv'
  BY <1>2, <1>3, <1>4 DEF Inv, SettledInv
<1>13. WorkIsNotForgotten'
  BY <1>2, <1>3, <1>4, <1>5 DEF Inv, WorkIsNotForgotten, Held
<1>14. OneModelPerRevision'
  BY <1>2, <1>4, <1>7 DEF Inv, OneModelPerRevision
<1> QED
  BY <1>8, <1>9, <1>10, <1>11, <1>12, <1>13, <1>14 DEF Inv

LEMMA CommitStep ==
    ASSUME Inv, NEW t \in Turns, Commit(t)
    PROVE  Inv'
<1> DEFINE tn == [turn[t] EXCEPT !.at = "committed", !.settled = TRUE]
           id == turn[t].session
           r == Committed(record[id], t)
<1>1. /\ turn \in [Turns -> Turn] /\ tn \in Turn /\ record \in [Ids -> Record]
  BY DEF Inv, TypeOK, Turn
<1>2. /\ tn.at = "committed" /\ tn.session = id /\ tn.base = turn[t].base
      /\ tn.seen = turn[t].seen /\ tn.started = turn[t].started
      /\ tn.settled /\ tn.aborted = turn[t].aborted
  BY <1>1 DEF Turn
<1>3. turn' = [turn EXCEPT ![t] = tn] /\ record' = [record EXCEPT ![id] = r]
  BY <1>1 DEF Commit
<1>4. turn[t].at = "answered" /\ ~turn[t].aborted /\ ~turn[t].settled /\ Held(id)
  BY DEF Commit, Available
<1>5. id \in Ids
  BY <1>4 DEF Inv, NewInv
<1>6. /\ record[id].active = t /\ record[id].revision = turn[t].base
      /\ record[id].revision < MaxTurns
      /\ record[id].revision = Len(record[id].history)
  BY <1>4, <1>5 DEF Inv, OpenInv, RecordInv, TypeOK
<1>7. /\ r \in Record /\ r.state = "ready" /\ r.active = None /\ r.timer
      /\ r.revision = record[id].revision + 1
      /\ r.history = Append(record[id].history, t)
  BY <1>1, <1>5, <1>6, CommittedRecord
<1> HIDE DEF tn, r
<1>8. /\ \A u \in Turns : turn'[u] = IF u = t THEN tn ELSE turn[u]
      /\ \A i \in Ids : record'[i] = IF i = id THEN r ELSE record[i]
  BY <1>1, <1>3
<1>9. record[id].history \in Seq(Turns)
  BY <1>1, <1>5 DEF Record
<1>10. TypeOK'
  <2>1. record' \in [Ids -> Record] /\ turn' \in [Turns -> Turn]
    BY <1>1, <1>3, <1>7
  <2>2. Len(r.history) = Len(record[id].history) + 1
    BY <1>7, <1>9
  <2> QED
    BY <1>6, <1>7, <1>8, <2>1, <2>2 DEF Inv, TypeOK
<1>11. \A i \in Ids : record[i].active = t => i = id
  BY DEF Inv, RecordInv
<1>12. RecordInv'
  BY <1>2, <1>4, <1>7, <1>8, <1>11, ActiveTurns DEF Inv, RecordInv, Held
<1>13. NewInv'
  BY <1>2, <1>4, <1>5, <1>7, <1>8 DEF Inv, NewInv
<1>14. OpenInv'
  BY <1>2, <1>4, <1>5, <1>6, <1>7, <1>8 DEF Inv, OpenInv, NewInv, Held
<1>15. SettledInv'
  BY <1>2, <1>4, <1>8 DEF Inv, SettledInv
<1>16. WorkIsNotForgotten'
  <2> SUFFICES ASSUME NEW u \in Turns, turn'[u].started, turn'[u].settled,
                      Held(turn[u].session)'
               PROVE  LET q == record'[turn'[u].session] IN
                      \/ turn'[u].base < q.revision /\ q.history[turn'[u].base + 1] = u
                      \/ q.state = "interrupted" /\ q.revision = turn'[u].base
    BY DEF WorkIsNotForgotten
  <2>1. CASE u = t
    <3>1. turn[t].base + 1 = Len(record[id].history) + 1
      BY <1>6
    <3>2. r.history[turn[t].base + 1] = t
      BY <1>7, <1>9, <3>1
    <3>3. turn'[u].base = turn[t].base /\ turn'[u].session = id /\ record'[id] = r
      BY <1>2, <1>5, <1>8, <2>1
    <3>4. turn[t].base < r.revision
      BY <1>6, <1>7, Bases
    <3> QED
      BY <2>1, <3>2, <3>3, <3>4
  <2>2. CASE u # t
    <3>1. turn'[u] = turn[u] /\ turn[u].session \in Ids
      BY <1>8, <2>2 DEF Inv, NewInv
    <3>2. Held(turn[u].session)
      BY <1>4, <1>8, <3>1 DEF Held
    <3>3. LET q == record[turn[u].session] IN
          \/ turn[u].base < q.revision /\ q.history[turn[u].base + 1] = u
          \/ q.state = "interrupted" /\ q.revision = turn[u].base
      BY <3>1, <3>2 DEF Inv, WorkIsNotForgotten
    <3>4. CASE turn[u].session # id
      BY <1>8, <3>1, <3>3, <3>4
    <3>5. CASE turn[u].session = id
      <4>1. record[id].state # "interrupted"
        BY <1>5, <1>6 DEF Inv, RecordInv
      <4>2. turn[u].base < record[id].revision /\ record[id].history[turn[u].base + 1] = u
        BY <3>3, <3>5, <4>1
      <4>3. turn[u].base + 1 \in 1 .. Len(record[id].history)
        BY <1>6, <4>2, Bases
      <4>4. r.history[turn[u].base + 1] = u
        BY <1>7, <1>9, <4>2, <4>3
      <4>5. turn[u].base < r.revision
        BY <1>5, <1>7, <4>2, Bases
      <4> QED
        BY <1>5, <1>8, <3>1, <3>5, <4>4, <4>5
    <3> QED
      BY <3>4, <3>5
  <2> QED
    BY <2>1, <2>2
<1>17. SameWork
  BY <1>2, <1>8 DEF SameWork
<1> QED
  BY <1>10, <1>12, <1>13, <1>14, <1>15, <1>16, <1>17, SameWorkKeepsOneModel DEF Inv

-----------------------------------------------------------------------------
(* The theorems *)

LEMMA InitInv == Init => Inv
<1> SUFFICES ASSUME Init PROVE Inv
  OBVIOUS
<1>1. \A id \in Ids : record[id] = Unused
  BY DEF Init
<1>2. \A t \in Turns : turn[t] = NewTurn
  BY DEF Init
<1>3. NewTurn \in Turn
  BY DEF NewTurn, Turn
<1>4. TypeOK
  <2>1. record \in [Ids -> Record] /\ turn \in [Turns -> Turn]
    BY <1>3, FixedRecords DEF Init
  <2> QED
    BY <1>1, <2>1 DEF TypeOK, Unused
<1>5. RecordInv /\ NewInv /\ OpenInv /\ SettledInv /\ WorkIsNotForgotten /\ OneModelPerRevision
  BY <1>1, <1>2 DEF RecordInv, NewInv, OpenInv, SettledInv, WorkIsNotForgotten,
                    OneModelPerRevision, Held, Unused, NewTurn
<1> QED
  BY <1>4, <1>5 DEF Inv

LEMMA NextInv == Inv /\ [Next]_vars => Inv'
<1> SUFFICES ASSUME Inv, [Next]_vars PROVE Inv'
  OBVIOUS
<1>1. ASSUME NEW id \in Ids, Create(id) PROVE Inv'
  BY <1>1, CreateStep
<1>2. ASSUME NEW id \in Ids, Lapse(id) PROVE Inv'
  BY <1>2, LapseStep
<1>3. ASSUME NEW id \in Ids, Expire(id) \/ Touch(id) \/ Delete(id) PROVE Inv'
  BY <1>3, DiscardStep DEF Expire, Touch, Delete, Stale, Inv, RecordInv
<1>4. ASSUME NEW t \in Turns, NEW id \in Ids, NEW revision \in 0 .. MaxTurns,
             Begin(t, id, revision)
      PROVE  Inv'
  BY <1>4, BeginStep
<1>5. ASSUME NEW t \in Turns, Abort(t) PROVE Inv'
  BY <1>5, AbortStep
<1>6. ASSUME NEW t \in Turns, Check(t) \/ Respond(t) \/ Fail(t) PROVE Inv'
  BY <1>6, MoveStep DEF Check, Respond, Fail, Working
<1>7. ASSUME NEW t \in Turns, Start(t) PROVE Inv'
  BY <1>7, StartStep
<1>8. ASSUME NEW t \in Turns, Commit(t) PROVE Inv'
  BY <1>8, CommitStep
<1>9. ASSUME NEW t \in Turns, Finish(t) PROVE Inv'
  BY <1>9, FinishStep
<1>10. CASE UNCHANGED vars
  BY <1>10 DEF vars, Inv, TypeOK, RecordInv, NewInv, OpenInv, SettledInv,
               WorkIsNotForgotten, OneModelPerRevision, Held
<1> QED
  BY <1>1, <1>2, <1>3, <1>4, <1>5, <1>6, <1>7, <1>8, <1>9, <1>10 DEF Next, TurnStep

LEMMA Invariance == Spec => []Inv
BY InitInv, NextInv, PTL DEF Spec

\* Records and leases always have their types, whatever their number and bounds.
THEOREM TypeCorrect == Spec => []TypeOK
<1>1. Inv => TypeOK
  BY DEF Inv
<1> QED
  BY <1>1, Invariance, PTL

\* Two turns never call the model on one revision of a session.
THEOREM ModelOncePerRevision == Spec => []OneModelPerRevision
<1>1. Inv => OneModelPerRevision
  BY DEF Inv
<1> QED
  BY <1>1, Invariance, PTL

\* A turn that called the model is in the history, or has left the session
\* interrupted at its revision.
THEOREM WorkRemembered == Spec => []WorkIsNotForgotten
<1>1. Inv => WorkIsNotForgotten
  BY DEF Inv
<1> QED
  BY <1>1, Invariance, PTL

\* A session is running if and only if exactly one turn holds it.
THEOREM OneTurnAtATime == Spec => []OneTurn
<1>1. ASSUME Inv PROVE OneTurn
  <2> SUFFICES ASSUME NEW id \in Ids
               PROVE  LET open == {t \in Turns : turn[t].session = id /\ ~turn[t].settled} IN
                      IF Held(id)
                      THEN /\ open = IF record[id].active = None THEN {} ELSE {record[id].active}
                           /\ (record[id].state = "running") <=> (record[id].active # None)
                           /\ \A t \in open : Executing(t) /\ ~turn[t].aborted
                      ELSE \A t \in open : turn[t].aborted
    BY DEF OneTurn
  <2>0. ~Held(id) => \A t \in Turns :
           turn[t].session = id /\ ~turn[t].settled => turn[t].aborted
    BY <1>1, SessionsAssumption DEF Inv, NewInv, OpenInv
  <2>1. Held(id) => \A t \in Turns : turn[t].session = id /\ ~turn[t].settled =>
           /\ record[id].active = t /\ ~turn[t].aborted /\ Executing(t)
    BY <1>1, SessionsAssumption DEF Inv, NewInv, OpenInv, SettledInv, Executing
  <2>2. record[id].active # None =>
           /\ record[id].active \in Turns
           /\ turn[record[id].active].session = id
           /\ ~turn[record[id].active].settled
    BY <1>1 DEF Inv, RecordInv, TypeOK, Record
  <2>3. (record[id].state = "running") <=> (record[id].active # None)
    BY <1>1 DEF Inv, RecordInv
  <2> QED
    BY <2>0, <2>1, <2>2, <2>3
<1> QED
  BY <1>1, Invariance, PTL

\* Time alone never takes a session away from its turn.
THEOREM RetentionIsSuspended == Spec => RetentionSuspended
<1>1. ASSUME Inv PROVE \A id \in Ids : Expire(id) \/ Touch(id) => record[id].active = None
  BY <1>1 DEF Inv, RecordInv, Expire, Touch, Stale
<1> QED
  BY <1>1, Invariance, PTL DEF RetentionSuspended

\* One turn, one model call per revision and no forgotten work, together.
THEOREM TurnsSafe == Spec => []TurnsAreSafe
  BY TypeCorrect, OneTurnAtATime, ModelOncePerRevision, WorkRemembered, PTL DEF TurnsAreSafe

HIDE SessionsAssumption

-----------------------------------------------------------------------------
(* Retrieval: what a request knows of the grants, the index and its model *)

\* A grant that was read: some of the sources, each at a revision.
Scopes == {<<>>} \cup UNION {[S -> Index!Revisions] : S \in SUBSET Sources}
Snapshots == {<<>>} \cup [Sources -> Index!Document \cup {Index!NoDocument}]

Request == [at : Index!Places, host : Hosts \cup {None}, op : Index!Operations \cup {"none"},
            source : Sources \cup {None}, scope : Scopes, passages : SUBSET Passages,
            work : Index!Works, snapshot : Snapshots, unread : SUBSET Sources,
            hits : SUBSET [source : Sources, document : Index!Document],
            old : Index!Document \cup {Index!NoDocument}, aborted : BOOLEAN,
            answer : Index!Answers]

IndexTypes ==
    /\ granted \in [Sources -> -1 .. MaxRevision]
    /\ model \in [Hosts -> Models]
    /\ descriptor \in Models \cup {None}
    /\ documents \in [Sources -> Index!Document \cup {Index!NoDocument}]
    /\ retired \in [Sources -> 0 .. MaxRevision]
    /\ waiting \in [Hosts -> Seq(Requests)]
    /\ request \in [Requests -> Request]

\* The application has gone past this revision of the source, or taken it away.
Reached(s, revision) == granted[s] = -1 \/ revision <= granted[s]

\* A request stands where its operation leads it, and what it was granted names its
\* source; one that is over has answered.
PlaceFits(q) ==
    /\ q.at \notin {"new", "ended"} =>
          q.host \in Hosts /\ q.op # "none" /\ q.answer = "none"
    /\ q.op \in {"index", "retire", "delete"} => q.source \in DOMAIN q.scope
    /\ q.op = "index" => q.passages # {}
    /\ q.at = "new" => q = Index!Fresh
    /\ q.work # "none" => q.at = "queued" \/ q.aborted
    /\ q.aborted => q.at = "ended"

\* The work in the queue is a step of the operation.
WorkFits(q) ==
    ~q.aborted =>
       /\ q.work \in {"replace", "retire", "delete", "search"} =>
             q.op = IF q.work = "replace" THEN "index" ELSE q.work
       /\ q.work = "documents" => q.op \in {"index", "search", "revalidate"}
       /\ q.snapshot # <<>> => q.work = "search"

\* Whoever has passed ensureIndex works with the model of the index.
ModelFits(q) ==
    \/ q.at \in {"granted", "embedding", "read"}
    \/ q.at = "queued" /\ q.work # "ensure"
    => descriptor = model[q.host]

\* An ingestion that goes on to write has a later revision than the document it read,
\* and both were granted.
RevisionFits(q) ==
    /\ \A s \in DOMAIN q.scope : Reached(s, q.scope[s])
    /\ q.op = "index" => Reached(q.source, q.old.revision)
    /\ q.op = "index" /\ (q.at = "embedding" \/ q.work = "replace") =>
          q.old.revision < q.scope[q.source]

\* What a search has found, and what is revalidated, is at the revision of its scope.
HitsFit(q) ==
    /\ \A hit \in q.hits : hit.source \in DOMAIN q.scope
                           /\ q.scope[hit.source] = hit.document.revision
    /\ q.unread \subseteq DOMAIN q.scope
    /\ q.op \notin {"search", "revalidate"} => q.hits = {}
    /\ q.op = "search" /\ (q.at \in {"granted", "embedding"} \/ q.work = "ensure") =>
          q.hits = {}

Fits(q) == PlaceFits(q) /\ WorkFits(q) /\ ModelFits(q) /\ RevisionFits(q) /\ HitsFit(q)

\* What is indexed was granted, and is of the model of the index.
DocumentInv ==
    \A s \in Sources : Index!Indexed(s) =>
       Reached(s, documents[s].revision) /\ documents[s].model = descriptor

\* How many passages each source has.
Chunks(of) == [s \in Sources |-> Cardinality(of[s].passages)]

\* The limit of the index, and its passages.
Within(of) ==
    /\ SumOver(Chunks(of))[Sources] <= MaxPassages
    /\ \A s, t \in Sources : s # t => of[s].passages \cap of[t].passages = {}

IndexInv ==
    /\ IndexTypes /\ DocumentInv /\ Index!RetiredIsGone /\ Within(documents)
    /\ \A r \in Requests : Fits(request[r])

\* The counters of the instance are the library's.
LEMMA IndexConstants ==
    /\ Index!Revisions = 1 .. MaxRevision
    /\ Index!NoDocument \notin Index!Document
    /\ Index!NoDocument.revision = 0 /\ Index!NoDocument.passages = {}
    /\ \A d \in Index!Document : d.revision \in 1 .. MaxRevision /\ d.passages \subseteq Passages
                                 /\ d.model \in Models
BY ConversationsAssumption DEF Index!Revisions, Index!NoDocument, Index!Document

LEMMA FreshShape ==
    /\ Index!Fresh \in Request
    /\ Index!Fresh.at = "new" /\ Index!Fresh.host = None /\ Index!Fresh.op = "none"
    /\ Index!Fresh.source = None /\ Index!Fresh.scope = <<>> /\ Index!Fresh.passages = {}
    /\ Index!Fresh.work = "none" /\ Index!Fresh.snapshot = <<>> /\ Index!Fresh.unread = {}
    /\ Index!Fresh.hits = {} /\ Index!Fresh.old = Index!NoDocument
    /\ Index!Fresh.aborted = FALSE /\ Index!Fresh.answer = "none"
BY DEF Index!Fresh, Request, Index!Places, Index!Operations, Index!Works, Index!Answers,
       Scopes, Snapshots

LEMMA FreshFits == ASSUME IndexTypes PROVE Fits(Index!Fresh)
<1>1. PlaceFits(Index!Fresh) /\ WorkFits(Index!Fresh) /\ ModelFits(Index!Fresh)
  BY FreshShape DEF PlaceFits, WorkFits, ModelFits
<1>2. RevisionFits(Index!Fresh) /\ HitsFit(Index!Fresh)
  BY FreshShape DEF RevisionFits, HitsFit
<1> QED
  BY <1>1, <1>2 DEF Fits

LEMMA AnsweredFits ==
    ASSUME NEW r, NEW answer \in Index!Answers
    PROVE  /\ Index!Answered(r, answer) \in Request
           /\ Index!Answered(r, answer).answer = answer
           /\ Index!Answered(r, answer).at = "ended"
           /\ Fits(Index!Answered(r, answer))
<1> DEFINE q == Index!Answered(r, answer)
<1>1. q = [Index!Fresh EXCEPT !.at = "ended", !.answer = answer]
  BY DEF Index!Answered
<1>2. q \in Request
  BY <1>1, FreshShape DEF Request, Index!Places
<1>3. /\ q.at = "ended" /\ q.answer = answer /\ q.work = "none" /\ q.scope = <<>>
      /\ q.hits = {} /\ q.unread = {} /\ q.op = "none" /\ q.snapshot = <<>> /\ ~q.aborted
  BY <1>1, FreshShape DEF Request
<1> HIDE DEF q
<1>4. PlaceFits(q) /\ WorkFits(q) /\ ModelFits(q) /\ RevisionFits(q) /\ HitsFit(q)
  BY <1>3 DEF PlaceFits, WorkFits, ModelFits, RevisionFits, HitsFit
<1> QED
  BY <1>2, <1>3, <1>4 DEF Fits, q

\* A step of one request that leaves the database and the grants alone.
LEMMA RequestMoves ==
    ASSUME IndexInv, NEW r \in Requests, NEW q \in Request, Fits(q),
           request' = [request EXCEPT ![r] = q],
           waiting' \in [Hosts -> Seq(Requests)],
           UNCHANGED <<granted, model, descriptor, documents, retired>>
    PROVE  IndexInv'
<1>1. IndexTypes'
  BY DEF IndexInv, IndexTypes
<1>2. ASSUME NEW p \in Requests PROVE Fits(request[p])'
  <2>1. request'[p] = request[p] \/ request'[p] = q
    BY DEF IndexInv, IndexTypes
  <2>2. Fits(request'[p])
    BY <2>1 DEF IndexInv
  <2> QED
    BY <2>2 DEF Fits, PlaceFits, WorkFits, ModelFits, RevisionFits, Reached, HitsFit
<1>3. DocumentInv' /\ Index!RetiredIsGone' /\ Within(documents)'
  BY DEF IndexInv, DocumentInv, Reached, Index!Indexed, Index!RetiredIsGone
<1> QED
  BY <1>1, <1>2, <1>3 DEF IndexInv

LEMMA QueueTypes ==
    ASSUME IndexTypes, NEW r \in Requests, NEW h \in Hosts
    PROVE  /\ [waiting EXCEPT ![h] = Append(@, r)] \in [Hosts -> Seq(Requests)]
           /\ waiting[h] # <<>> =>
                 [waiting EXCEPT ![h] = Tail(@)] \in [Hosts -> Seq(Requests)]
           /\ waiting[h] # <<>> =>
                 [waiting EXCEPT ![h] = Append(Tail(@), r)] \in [Hosts -> Seq(Requests)]
BY DEF IndexTypes

LEMMA HeadLeaves ==
    ASSUME IndexTypes, NEW r \in Requests, Index!Heads(r), Index!Leaves(r)
    PROVE  waiting' \in [Hosts -> Seq(Requests)]
<1>1. request[r].host \in Hosts
  BY DEF IndexTypes, Request, Index!Heads
<1> QED
  BY <1>1, QueueTypes DEF Index!Leaves, Index!Heads

LEMMA EndsFits ==
    ASSUME IndexInv, NEW r \in Requests, NEW answer \in Index!Answers, Index!Ends(r, answer),
           waiting' \in [Hosts -> Seq(Requests)],
           UNCHANGED <<granted, model, descriptor, documents, retired>>
    PROVE  IndexInv'
BY AnsweredFits, RequestMoves DEF Index!Ends

-----------------------------------------------------------------------------
(* The number of passages *)

LEMMA CountingPassages == ASSUME NEW S PROVE Index!Cardinality(S) = Cardinality(S)
  BY DEF Index!Cardinality, Cardinality

Corpora == [Sources -> Index!Document \cup {Index!NoDocument}]

LEMMA ChunksType ==
    ASSUME NEW of \in Corpora
    PROVE  /\ Chunks(of) \in [Sources -> Nat]
           /\ \A s \in Sources : Chunks(of)[s] = Cardinality(of[s].passages)
<1>1. ASSUME NEW s \in Sources PROVE Cardinality(of[s].passages) \in Nat
  <2>1. of[s].passages \subseteq Passages
    BY IndexConstants DEF Corpora
  <2> QED
    BY <2>1, ConversationsAssumption, FS_Subset, FS_CardinalityType
<1> QED
  BY <1>1 DEF Chunks

LEMMA SumsOfPassages ==
    ASSUME documents \in Corpora, NEW S \in SUBSET Sources
    PROVE  Index!MapThenSumSet(LAMBDA s : Index!Cardinality(documents[s].passages), S)
              = SumOver(Chunks(documents))[S]
<1> DEFINE F == Chunks(documents)
           Step(h) == [s \in SUBSET S |->
                         IF s = {} THEN 0
                         ELSE Index!Cardinality(documents[CHOOSE x \in s : TRUE].passages)
                                + h[s \ {CHOOSE x \in s : TRUE}]]
           h0 == [s \in SUBSET S |-> SumOver(F)[s]]
<1>1. F \in [Sources -> Nat] /\ \A s \in Sources : F[s] = Cardinality(documents[s].passages)
  BY ChunksType
<1>2. IsFiniteSet(Sources)
  BY ConversationsAssumption
<1>3. \A s \in SUBSET Sources : Adds(SumOver(F), F, s)
  <2> HIDE DEF F
  <2> QED
    BY <1>1, <1>2, SumType
<1>4. \A s \in SUBSET S : s # {} =>
         F[Pick(s)] = Index!Cardinality(documents[Pick(s)].passages)
  BY <1>1, PickIn, CountingPassages
<1>5. h0 = Step(h0)
  <2> HIDE DEF F
  <2>1. ASSUME NEW s \in SUBSET S PROVE h0[s] = Step(h0)[s]
    <3>1. CASE s = {}
      BY <1>3, <3>1 DEF Adds
    <3>2. CASE s # {}
      BY <1>3, <1>4, <3>2, PickIn DEF Adds, Pick
    <3> QED
      BY <3>1, <3>2
  <2> QED
    BY <2>1
<1>6. \E g : g = Step(g) /\
         Index!MapThenSumSet(LAMBDA s : Index!Cardinality(documents[s].passages), S) = g[S]
  <2> HIDE DEF h0
  <2> QED
    BY <1>5, Zenon DEF Index!MapThenSumSet, Index!MapThenFoldSet
<1>7. PICK g : g = Step(g) /\
         Index!MapThenSumSet(LAMBDA s : Index!Cardinality(documents[s].passages), S) = g[S]
  BY <1>6
<1>8. \A s \in SUBSET S : Adds(g, F, s)
  <2> HIDE DEF F
  <2> QED
    BY <1>4, <1>7 DEF Adds, Pick
<1>9. g[S] = SumOver(F)[S]
  <2> HIDE DEF F
  <2> QED
    BY <1>1, <1>2, <1>8, SumUnique
<1> QED
  BY <1>7, <1>9

LEMMA WithinIsSound ==
    ASSUME IndexTypes, DocumentInv, Within(documents)
    PROVE  Index!IndexIsSound
<1>1. documents \in Corpora
  BY DEF IndexTypes, Corpora
<1>2. Index!MapThenSumSet(LAMBDA s : Index!Cardinality(documents[s].passages), Sources)
         <= MaxPassages
  BY <1>1, SumsOfPassages DEF Within
<1> QED
  BY <1>2 DEF Index!IndexIsSound, DocumentInv, Within

\* A document that replace commits fits beside the others.
LEMMA WithinReplaced ==
    ASSUME documents \in Corpora, Within(documents), NEW s \in Sources,
           NEW d \in Index!Document, NEW expected, Index!Replaced(s, d, expected)
    PROVE  Within([documents EXCEPT ![s] = d])
<1> DEFINE new == [documents EXCEPT ![s] = d]
           F == Chunks(documents)
           G == Chunks(new)
           rest == Sources \ {s}
<1>1. new \in Corpora /\ new[s] = d /\ \A t \in rest : new[t] = documents[t]
  BY DEF Corpora
<1> HIDE DEF new
<1>2. /\ F \in [Sources -> Nat] /\ G \in [Sources -> Nat]
      /\ \A t \in rest : G[t] <= F[t]
      /\ G[s] = Cardinality(d.passages)
  BY <1>1, ChunksType
<1> HIDE DEF F, G
<1>3. SumOver(G)[Sources] = G[s] + SumOver(G)[rest]
  BY <1>2, SumSplit, ConversationsAssumption
<1>4. SumOver(G)[rest] <= SumOver(F)[rest]
  <2>1. rest \in SUBSET Sources
    OBVIOUS
  <2> HIDE DEF rest
  <2> QED
    BY <1>2, <2>1, SumMonotone, ConversationsAssumption
<1>5. SumOver(F)[rest] + Cardinality(d.passages) <= MaxPassages
  <2>1. Index!MapThenSumSet(LAMBDA t : Index!Cardinality(documents[t].passages), rest)
           = SumOver(F)[rest]
    BY SumsOfPassages DEF F
  <2>2. Index!TotalChunks(s) + Index!Cardinality(d.passages) <= MaxPassages
    BY DEF Index!Replaced
  <2>3. Index!TotalChunks(s) = SumOver(F)[rest]
    BY <2>1 DEF Index!TotalChunks, Index!Others
  <2> QED
    BY <2>2, <2>3, CountingPassages
<1>6. SumOver(G)[rest] \in Nat /\ SumOver(F)[rest] \in Nat /\ G[s] \in Nat
  <2>1. G[s] \in Nat /\ rest \in SUBSET Sources
    BY <1>2
  <2> HIDE DEF rest
  <2> QED
    BY <1>2, <2>1, SumIsNat, ConversationsAssumption
<1>7. SumOver(G)[Sources] <= MaxPassages
  BY <1>2, <1>3, <1>4, <1>5, <1>6, ConversationsAssumption
<1>8. \A t \in Sources, u \in Sources : t # u => new[t].passages \cap new[u].passages = {}
  <2>1. \A t \in rest : documents[t].passages \cap d.passages = {}
    BY DEF Index!Replaced, Index!Others
  <2> QED
    BY <1>1, <2>1 DEF Within
<1> QED
  BY <1>7, <1>8 DEF Within, G, new

LEMMA WithinCleared ==
    ASSUME documents \in Corpora, Within(documents), NEW s \in Sources
    PROVE  Within([documents EXCEPT ![s] = Index!NoDocument])
<1> DEFINE new == [documents EXCEPT ![s] = Index!NoDocument]
           F == Chunks(documents)
           G == Chunks(new)
<1>1. new \in Corpora /\ new[s].passages = {} /\ \A t \in Sources \ {s} : new[t] = documents[t]
  BY IndexConstants DEF Corpora
<1> HIDE DEF new
<1>2. /\ F \in [Sources -> Nat] /\ G \in [Sources -> Nat]
      /\ \A t \in Sources \ {s} : G[t] = F[t]
      /\ G[s] = 0
  <2>1. /\ F \in [Sources -> Nat] /\ G \in [Sources -> Nat]
        /\ \A t \in Sources : F[t] = Cardinality(documents[t].passages)
        /\ \A t \in Sources : G[t] = Cardinality(new[t].passages)
    BY <1>1, ChunksType
  <2>2. G[s] = Cardinality({}) /\ Cardinality({}) = 0
    BY <1>1, <2>1, FS_EmptySet
  <2> HIDE DEF F, G
  <2> QED
    BY <1>1, <2>1, <2>2
<1>3. \A t \in Sources : G[t] <= F[t]
  BY <1>2
<1> HIDE DEF F, G
<1>4. SumOver(G)[Sources] <= SumOver(F)[Sources]
  BY <1>2, <1>3, SumMonotone, ConversationsAssumption
<1>5. SumOver(G)[Sources] \in Nat /\ SumOver(F)[Sources] \in Nat
  BY <1>2, SumIsNat, ConversationsAssumption
<1>6. SumOver(G)[Sources] <= MaxPassages
  BY <1>4, <1>5, ConversationsAssumption DEF Within, F
<1>7. \A t \in Sources, u \in Sources : t # u => new[t].passages \cap new[u].passages = {}
  BY <1>1 DEF Within
<1> QED
  BY <1>6, <1>7 DEF Within, G, new

-----------------------------------------------------------------------------
(* The steps of a request *)

LEMMA ScopeShape ==
    ASSUME NEW f \in Scopes
    PROVE  /\ DOMAIN f \subseteq Sources
           /\ \A s \in DOMAIN f : f[s] \in 1 .. MaxRevision
BY IndexConstants DEF Scopes

LEMMA ScopeOf ==
    ASSUME NEW S \in SUBSET Sources, NEW f \in [S -> 1 .. MaxRevision]
    PROVE  f \in Scopes
<1>1. [S -> Index!Revisions] \in {[T -> Index!Revisions] : T \in SUBSET Sources}
  OBVIOUS
<1>2. f \in [S -> Index!Revisions]
  BY IndexConstants
<1> QED
  BY <1>1, <1>2 DEF Scopes

LEMMA IndexBegins ==
    ASSUME Index!Init, model \in [Hosts -> Models] PROVE IndexInv
<1>1. IndexTypes
  BY FreshShape, ConversationsAssumption DEF Index!Init, IndexTypes
<1>2. DocumentInv /\ Index!RetiredIsGone
  BY DEF Index!Init, DocumentInv, Index!Indexed, Index!RetiredIsGone
<1>3. \A r \in Requests : Fits(request[r])
  BY <1>1, FreshFits DEF Index!Init
<1>4. Within(documents)
  <2> DEFINE F == Chunks(documents)
  <2>1. documents \in Corpora /\ \A s \in Sources : documents[s].passages = {}
    BY IndexConstants DEF Index!Init, Corpora
  <2>2. F \in [Sources -> Nat] /\ \A s \in Sources : F[s] = Cardinality(documents[s].passages)
    BY <2>1, ChunksType
  <2> HIDE DEF F
  <2>3. \A s \in Sources : F[s] = 0
    BY <2>1, <2>2, FS_EmptySet
  <2>4. SumOver(F)[Sources] = 0
    BY <2>2, <2>3, SumOfZeros, ConversationsAssumption
  <2> QED
    BY <2>1, <2>4, ConversationsAssumption DEF Within, F
<1> QED
  BY <1>1, <1>2, <1>3, <1>4 DEF IndexInv

LEMMA GrantStep ==
    ASSUME IndexInv, NEW s \in Sources, Index!Grant(s)
    PROVE  IndexInv'
<1>1. UNCHANGED <<model, descriptor, documents, retired, waiting, request>>
  BY DEF Index!Grant, Index!database
<1>2. /\ granted' \in [Sources -> -1 .. MaxRevision]
      /\ \A t \in Sources : \A v \in 0 .. MaxRevision : Reached(t, v) => Reached(t, v)'
  <2>1. granted \in [Sources -> -1 .. MaxRevision]
    BY DEF IndexInv, IndexTypes
  <2>2. \/ granted[s] \in 0 .. MaxRevision - 1 /\ granted' = [granted EXCEPT ![s] = @ + 1]
        \/ granted[s] = MaxRevision /\ granted' = [granted EXCEPT ![s] = -1]
    BY DEF Index!Grant
  <2> QED
    BY <2>1, <2>2, ConversationsAssumption DEF Reached
<1>3. IndexTypes'
  BY <1>1, <1>2 DEF IndexInv, IndexTypes
<1>4. ASSUME NEW r \in Requests PROVE Fits(request[r])'
  <2>1. Fits(request[r]) /\ request[r] \in Request
    BY DEF IndexInv, IndexTypes
  <2>2. RevisionFits(request[r])'
    <3>1. \A t \in DOMAIN request[r].scope :
             t \in Sources /\ request[r].scope[t] \in 0 .. MaxRevision
      BY <2>1, ScopeShape, ConversationsAssumption DEF Request
    <3>2. request[r].op = "index" => request[r].source \in Sources
      BY <2>1, <3>1 DEF Fits, PlaceFits
    <3>3. request[r].old.revision \in 0 .. MaxRevision
      BY <2>1, IndexConstants, ConversationsAssumption DEF Request
    <3> QED
      BY <1>1, <1>2, <2>1, <3>1, <3>2, <3>3 DEF Fits, RevisionFits
  <2> QED
    BY <1>1, <2>1, <2>2 DEF Fits, PlaceFits, WorkFits, ModelFits, HitsFit
<1>5. DocumentInv'
  <2>1. \A t \in Sources : documents[t].revision \in 0 .. MaxRevision
    BY IndexConstants, ConversationsAssumption DEF IndexInv, IndexTypes
  <2> QED
    BY <1>1, <1>2, <2>1 DEF IndexInv, DocumentInv, Index!Indexed
<1>6. Index!RetiredIsGone' /\ Within(documents)'
  BY <1>1 DEF IndexInv, Index!RetiredIsGone, Index!Indexed
<1> QED
  BY <1>3, <1>4, <1>5, <1>6 DEF IndexInv

LEMMA QueuedMoves ==
    ASSUME IndexInv, NEW r \in Requests, NEW work \in Index!Works, NEW fields \in Request,
           fields.host \in Hosts, Index!Queued(r, work, fields),
           \A q \in Request :
              /\ q.at = "queued" /\ q.work = work /\ q.host = fields.host
              /\ q.op = fields.op /\ q.source = fields.source /\ q.scope = fields.scope
              /\ q.passages = fields.passages /\ q.snapshot = fields.snapshot
              /\ q.unread = fields.unread /\ q.hits = fields.hits /\ q.old = fields.old
              /\ q.aborted = fields.aborted /\ q.answer = fields.answer
              => Fits(q),
           UNCHANGED <<granted, model, descriptor, documents, retired>>
    PROVE  IndexInv'
<1> DEFINE q == [fields EXCEPT !.at = "queued", !.work = work]
<1>1. q \in Request
  BY DEF Request, Index!Places
<1>2. /\ q.at = "queued" /\ q.work = work /\ q.host = fields.host
      /\ q.op = fields.op /\ q.source = fields.source /\ q.scope = fields.scope
      /\ q.passages = fields.passages /\ q.snapshot = fields.snapshot
      /\ q.unread = fields.unread /\ q.hits = fields.hits /\ q.old = fields.old
      /\ q.aborted = fields.aborted /\ q.answer = fields.answer
  BY DEF Request
<1>3. request' = [request EXCEPT ![r] = q]
  BY DEF Index!Queued
<1>4. waiting' \in [Hosts -> Seq(Requests)]
  BY QueueTypes DEF Index!Queued, IndexInv
<1> HIDE DEF q
<1>5. Fits(q)
  BY <1>1, <1>2
<1> QED
  BY <1>1, <1>3, <1>4, <1>5, RequestMoves

LEMMA ArriveStep ==
    ASSUME IndexInv, NEW r \in Requests, NEW h \in Hosts, NEW op \in Index!Operations,
           Index!Arrive(r, h, op)
    PROVE  IndexInv'
<1>0. /\ UNCHANGED <<granted, model, descriptor, documents, retired>>
      /\ granted \in [Sources -> -1 .. MaxRevision]
      /\ "ensure" \in Index!Works
  BY DEF Index!Arrive, Index!database, IndexInv, IndexTypes, Index!Works
<1>1. ASSUME NEW fields \in Request, fields.host = h, fields.op = op, fields.work = "none",
             fields.old = Index!NoDocument, fields.snapshot = <<>>, fields.unread = {},
             ~fields.aborted, fields.answer = "none",
             op \in {"index", "retire", "delete"} => fields.source \in DOMAIN fields.scope,
             op = "index" => fields.passages # {},
             \A s \in DOMAIN fields.scope : fields.scope[s] = granted[s],
             \A hit \in fields.hits : hit.source \in DOMAIN fields.scope
                                      /\ fields.scope[hit.source] = hit.document.revision,
             op # "revalidate" => fields.hits = {},
             Index!Queued(r, "ensure", fields)
      PROVE  IndexInv'
  <2>1. ASSUME NEW q \in Request,
               q.at = "queued" /\ q.work = "ensure" /\ q.host = fields.host,
               q.op = fields.op /\ q.source = fields.source /\ q.scope = fields.scope,
               q.passages = fields.passages /\ q.snapshot = fields.snapshot,
               q.unread = fields.unread /\ q.hits = fields.hits /\ q.old = fields.old,
               q.aborted = fields.aborted /\ q.answer = fields.answer
        PROVE  Fits(q)
    <3>1. PlaceFits(q) /\ WorkFits(q) /\ ModelFits(q)
      BY <1>1, <2>1 DEF PlaceFits, WorkFits, ModelFits, Index!Operations
    <3>2. \A s \in DOMAIN q.scope : s \in Sources /\ q.scope[s] = granted[s]
                                    /\ granted[s] \in 1 .. MaxRevision
      BY <1>1, <2>1, ScopeShape DEF Request
    <3>3. RevisionFits(q)
      <4>1. \A s \in DOMAIN q.scope : Reached(s, q.scope[s])
        BY <3>2 DEF Reached
      <4>2. q.op = "index" => Reached(q.source, q.old.revision)
        BY <1>1, <2>1, <3>2, IndexConstants DEF Reached
      <4> QED
        BY <4>1, <4>2, <2>1 DEF RevisionFits
    <3>4. HitsFit(q)
      BY <1>1, <2>1 DEF HitsFit, Index!Operations
    <3> QED
      BY <3>1, <3>3, <3>4 DEF Fits
  <2> QED
    BY <1>0, <1>1, <2>1, QueuedMoves
<1>2. ASSUME NEW s \in Sources, NEW passages \in SUBSET Passages,
             op \in {"index", "retire", "delete"}, (op = "index") = (passages # {}),
             granted[s] > 0,
             Index!Queued(r, "ensure",
                [Index!Fresh EXCEPT !.host = h, !.op = op, !.source = s,
                                    !.scope = [t \in {s} |-> granted[s]],
                                    !.passages = passages])
      PROVE  IndexInv'
  <2> DEFINE scope == [t \in {s} |-> granted[s]]
             f == [Index!Fresh EXCEPT !.host = h, !.op = op, !.source = s,
                                      !.scope = scope, !.passages = passages]
  <2>1. granted[s] \in 1 .. MaxRevision
    BY <1>0, <1>2, ConversationsAssumption
  <2>2. scope \in Scopes /\ DOMAIN scope = {s} /\ scope[s] = granted[s]
    <3>1. {s} \in SUBSET Sources /\ scope \in [{s} -> 1 .. MaxRevision]
      BY <2>1
    <3> QED
      BY <3>1, ScopeOf
  <2> HIDE DEF scope
  <2>3. f \in Request
    BY <2>2, FreshShape DEF Request
  <2>4. f.host = h /\ f.op = op /\ f.source = s
    BY FreshShape DEF Request
  <2>5. f.scope = scope /\ f.passages = passages /\ f.hits = {}
    BY FreshShape DEF Request
  <2>6. f.work = "none" /\ f.old = Index!NoDocument /\ f.snapshot = <<>>
    BY FreshShape DEF Request
  <2>7. f.unread = {} /\ ~f.aborted /\ f.answer = "none"
    BY FreshShape DEF Request
  <2>8. Index!Queued(r, "ensure", f)
    BY <1>2 DEF scope
  <2> HIDE DEF f
  <2> QED
    BY <1>1, <1>2, <2>2, <2>3, <2>4, <2>5, <2>6, <2>7, <2>8
<1>3. ASSUME op = "search",
             Index!Queued(r, "ensure",
                [Index!Fresh EXCEPT !.host = h, !.op = op,
                    !.scope = [s \in {t \in Sources : granted[t] > 0} |-> granted[s]]])
      PROVE  IndexInv'
  <2> DEFINE scope == [s \in {t \in Sources : granted[t] > 0} |-> granted[s]]
             f == [Index!Fresh EXCEPT !.host = h, !.op = op, !.scope = scope]
  <2>1. \A s \in Sources : granted[s] > 0 => granted[s] \in 1 .. MaxRevision
    BY <1>0, ConversationsAssumption
  <2>2. scope \in Scopes /\ \A s \in DOMAIN scope : scope[s] = granted[s]
    <3>1. {t \in Sources : granted[t] > 0} \in SUBSET Sources
      OBVIOUS
    <3>2. scope \in [{t \in Sources : granted[t] > 0} -> 1 .. MaxRevision]
      BY <2>1
    <3> QED
      BY <3>1, <3>2, ScopeOf
  <2> HIDE DEF scope
  <2>3. f \in Request
    BY <2>2, FreshShape DEF Request
  <2>4. f.host = h /\ f.op = op /\ f.scope = scope
    BY FreshShape DEF Request
  <2>6. f.work = "none" /\ f.old = Index!NoDocument /\ f.snapshot = <<>>
    BY FreshShape DEF Request
  <2>7. f.unread = {} /\ ~f.aborted /\ f.answer = "none" /\ f.hits = {}
    BY FreshShape DEF Request
  <2>8. Index!Queued(r, "ensure", f)
    BY <1>3 DEF scope
  <2> HIDE DEF f
  <2> QED
    BY <1>1, <1>3, <2>2, <2>3, <2>4, <2>6, <2>7, <2>8
<1>4. ASSUME NEW s \in Sources, NEW d \in Index!Document, op = "revalidate",
             granted[s] = d.revision,
             Index!Queued(r, "ensure",
                [Index!Fresh EXCEPT !.host = h, !.op = op, !.scope = [t \in {s} |-> granted[s]],
                                    !.hits = {[source |-> s, document |-> d]}])
      PROVE  IndexInv'
  <2> DEFINE scope == [t \in {s} |-> granted[s]]
             hits == {[source |-> s, document |-> d]}
             f == [Index!Fresh EXCEPT !.host = h, !.op = op, !.scope = scope, !.hits = hits]
  <2>1. granted[s] \in 1 .. MaxRevision
    BY <1>4, IndexConstants
  <2>2. scope \in Scopes /\ DOMAIN scope = {s} /\ scope[s] = granted[s]
    <3>1. {s} \in SUBSET Sources /\ scope \in [{s} -> 1 .. MaxRevision]
      BY <2>1
    <3> QED
      BY <3>1, ScopeOf
  <2>a. /\ hits \in SUBSET [source : Sources, document : Index!Document]
        /\ \A hit \in hits : hit.source = s /\ hit.document = d
    OBVIOUS
  <2> HIDE DEF scope, hits
  <2>3. f \in Request
    BY <2>2, <2>a, FreshShape DEF Request
  <2>4. f.host = h /\ f.op = op /\ f.scope = scope /\ f.hits = hits
    BY FreshShape DEF Request
  <2>6. f.work = "none" /\ f.old = Index!NoDocument /\ f.snapshot = <<>>
    BY FreshShape DEF Request
  <2>7. f.unread = {} /\ ~f.aborted /\ f.answer = "none"
    BY FreshShape DEF Request
  <2>8. Index!Queued(r, "ensure", f)
    BY <1>4 DEF scope, hits
  <2> HIDE DEF f
  <2> QED
    BY <1>1, <1>4, <2>2, <2>a, <2>3, <2>4, <2>6, <2>7, <2>8
<1> QED
  BY <1>2, <1>3, <1>4 DEF Index!Arrive

LEMMA TurnEnds ==
    ASSUME IndexInv, NEW r \in Requests, NEW answer \in Index!Answers,
           Index!Heads(r), Index!Leaves(r), Index!Ends(r, answer),
           UNCHANGED <<granted, model, descriptor, documents, retired>>
    PROVE  IndexInv'
BY HeadLeaves, EndsFits DEF IndexInv

\* A transaction of the database, and the answer to its request.
LEMMA Transacts ==
    ASSUME IndexInv, NEW r \in Requests, NEW answer \in Index!Answers,
           Index!Heads(r), Index!Leaves(r), Index!Ends(r, answer),
           UNCHANGED <<granted, model, descriptor>>,
           documents' \in Corpora, retired' \in [Sources -> 0 .. MaxRevision],
           Within(documents'),
           \A s \in Sources :
              /\ documents'[s] # Index!NoDocument =>
                    /\ retired'[s] = 0
                    /\ Reached(s, documents'[s].revision)
                    /\ documents'[s].model = descriptor
    PROVE  IndexInv'
<1>1. IndexTypes'
  BY AnsweredFits, HeadLeaves DEF IndexInv, IndexTypes, Corpora, Index!Ends
<1>2. ASSUME NEW p \in Requests PROVE Fits(request[p])'
  <2>1. request'[p] = request[p] \/ request'[p] = Index!Answered(r, answer)
    BY DEF IndexInv, IndexTypes, Index!Ends
  <2>2. Fits(request'[p])
    BY <2>1, AnsweredFits DEF IndexInv
  <2> QED
    BY <2>2 DEF Fits, PlaceFits, WorkFits, ModelFits, RevisionFits, Reached, HitsFit
<1>3. DocumentInv' /\ Index!RetiredIsGone'
  BY DEF DocumentInv, Reached, Index!Indexed, Index!RetiredIsGone
<1> QED
  BY <1>1, <1>2, <1>3 DEF IndexInv

LEMMA AnswerKinds ==
    "done" \in Index!Answers /\ "refused" \in Index!Answers
BY DEF Index!Answers

LEMMA SkipStep ==
    ASSUME IndexInv, NEW r \in Requests, Index!Skip(r) \/ Index!Throws(r)
    PROVE  IndexInv'
<1>1. request[r].answer \in Index!Answers
  BY DEF IndexInv, IndexTypes, Request
<1>2. CASE Index!Skip(r)
  BY <1>1, <1>2, TurnEnds DEF Index!Skip, Index!database
<1>3. CASE Index!Throws(r)
  BY <1>3, TurnEnds, AnswerKinds DEF Index!Throws, Index!Runs, Index!database
<1> QED
  BY <1>2, <1>3

\* What a request at the head of its queue is, in a transaction of its own.
LEMMA RunsShape ==
    ASSUME IndexInv, NEW r \in Requests, NEW work \in Index!Works, work # "none",
           Index!Runs(r, work)
    PROVE  /\ request[r] \in Request /\ Fits(request[r])
           /\ request[r].host \in Hosts /\ request[r].at = "queued"
           /\ request[r].work = work /\ ~request[r].aborted
           /\ Index!Heads(r) /\ Index!Leaves(r)
           /\ waiting' \in [Hosts -> Seq(Requests)]
<1>1. request[r] \in Request /\ Fits(request[r])
  BY DEF IndexInv, IndexTypes
<1>2. /\ Index!Heads(r) /\ Index!Leaves(r)
      /\ request[r].work = work /\ ~request[r].aborted
  BY DEF Index!Runs
<1>3. request[r].at = "queued" /\ request[r].host \in Hosts
  BY <1>1, <1>2 DEF Fits, PlaceFits
<1> QED
  BY <1>1, <1>2, <1>3, HeadLeaves DEF IndexInv

LEMMA EnsureStep ==
    ASSUME IndexInv, NEW r \in Requests, Index!Ensure(r)
    PROVE  IndexInv'
<1> DEFINE own == model[request[r].host]
           q == [request[r] EXCEPT !.work = "none", !.at = "granted"]
<1>1. /\ request[r] \in Request /\ Fits(request[r])
      /\ request[r].host \in Hosts /\ request[r].at = "queued"
      /\ request[r].work = "ensure" /\ ~request[r].aborted
      /\ Index!Heads(r) /\ Index!Leaves(r)
      /\ waiting' \in [Hosts -> Seq(Requests)]
  BY RunsShape DEF Index!Ensure, Index!Works
<1>2. /\ own \in Models /\ descriptor \in Models \cup {None} /\ None \notin Models
      /\ descriptor' = IF descriptor = None THEN own ELSE descriptor
      /\ UNCHANGED <<granted, model, documents, retired>>
  BY <1>1, ConversationsAssumption DEF Index!Ensure, IndexInv, IndexTypes
<1>3. CASE descriptor \in {None, own}
  <2>1. request' = [request EXCEPT ![r] = q]
    BY <1>3 DEF Index!Ensure, IndexInv, IndexTypes
  <2>2. q \in Request
    BY <1>1 DEF Request, Index!Places, Index!Works
  <2>3. /\ q.work = "none" /\ q.at = "granted" /\ q.host = request[r].host
        /\ q.op = request[r].op /\ q.source = request[r].source /\ q.scope = request[r].scope
    BY <1>1 DEF Request
  <2>4. /\ q.passages = request[r].passages /\ q.snapshot = request[r].snapshot
        /\ q.unread = request[r].unread /\ q.hits = request[r].hits
        /\ q.old = request[r].old /\ q.aborted = request[r].aborted
        /\ q.answer = request[r].answer
    BY <1>1 DEF Request
  <2> HIDE DEF q
  <2>5. descriptor' = own
    BY <1>2, <1>3
  <2>6. PlaceFits(q) /\ WorkFits(q) /\ RevisionFits(q) /\ HitsFit(q)
    BY <1>1, <2>3, <2>4 DEF Fits, PlaceFits, WorkFits, RevisionFits, HitsFit
  <2>7. ASSUME NEW p \in Requests PROVE Fits(request[p])'
    <3>1. CASE request'[p] = q
      <4>1. ModelFits(request[p])'
        BY <1>2, <2>3, <2>5, <3>1 DEF ModelFits
      <4>2. PlaceFits(request'[p]) /\ WorkFits(request'[p]) /\ HitsFit(request'[p])
        BY <2>6, <3>1
      <4>3. RevisionFits(request'[p])
        BY <2>6, <3>1
      <4> QED
        BY <1>2, <4>1, <4>2, <4>3
           DEF Fits, PlaceFits, WorkFits, RevisionFits, Reached, HitsFit
    <3>2. CASE request'[p] # q
      <4>1. request'[p] = request[p] /\ Fits(request[p]) /\ request[p] \in Request
        BY <2>1, <3>2 DEF IndexInv, IndexTypes
      <4>2. ModelFits(request[p])'
        <5>1. PlaceFits(request[p]) /\ ModelFits(request[p])
          BY <4>1 DEF Fits
        <5>2. request[p].at \notin {"new", "ended"} => model[request[p].host] \in Models
          BY <5>1 DEF PlaceFits, IndexInv, IndexTypes
        <5> QED
          BY <1>2, <4>1, <5>1, <5>2 DEF ModelFits
      <4> QED
        BY <1>2, <4>1, <4>2
           DEF Fits, PlaceFits, WorkFits, RevisionFits, Reached, HitsFit
    <3> QED
      BY <3>1, <3>2
  <2>8. IndexTypes'
    BY <1>1, <1>2, <2>1, <2>2 DEF IndexInv, IndexTypes
  <2>9. DocumentInv'
    <3>1. \A s \in Sources : Index!Indexed(s) =>
             documents[s].model = descriptor /\ documents[s].model \in Models
      BY IndexConstants DEF IndexInv, DocumentInv, Index!Indexed, IndexTypes
    <3> QED
      BY <1>2, <3>1 DEF IndexInv, DocumentInv, Index!Indexed, Reached
  <2>10. Index!RetiredIsGone' /\ Within(documents)'
    BY <1>2 DEF IndexInv, Index!RetiredIsGone, Index!Indexed
  <2> QED
    BY <2>7, <2>8, <2>9, <2>10 DEF IndexInv
<1>4. CASE descriptor \notin {None, own}
  BY <1>1, <1>2, <1>4, TurnEnds, AnswerKinds DEF Index!Ensure
<1> QED
  BY <1>3, <1>4

LEMMA ReadStep ==
    ASSUME IndexInv, NEW r \in Requests, Index!Read(r)
    PROVE  IndexInv'
<1> DEFINE s == request[r].source
           old == IF request[r].op = "index" THEN documents[s] ELSE request[r].old
           q == [request[r] EXCEPT !.work = "none", !.at = "read", !.old = old]
<1>1. /\ request[r] \in Request /\ Fits(request[r])
      /\ request[r].host \in Hosts /\ request[r].at = "queued"
      /\ request[r].work = "documents" /\ ~request[r].aborted
      /\ Index!Heads(r) /\ Index!Leaves(r)
      /\ waiting' \in [Hosts -> Seq(Requests)]
  BY RunsShape DEF Index!Read, Index!Works
<1>2. UNCHANGED <<granted, model, descriptor, documents, retired>>
  BY DEF Index!Read, Index!database
<1>3. CASE Index!Ends(r, "refused")
  BY <1>1, <1>2, <1>3, TurnEnds, AnswerKinds
<1>4. CASE ~Index!Ends(r, "refused")
  <2>0. request[r].op = "index" =>
           s \in Sources /\ documents[s] \in Index!Document \cup {Index!NoDocument}
    <3>1. request[r].op = "index" => s \in DOMAIN request[r].scope
      BY <1>1 DEF Fits, PlaceFits
    <3> QED
      BY <1>1, <3>1, ScopeShape DEF IndexInv, IndexTypes, Request
  <2>1. request' = [request EXCEPT ![r] = q]
    BY <1>4 DEF Index!Read, IndexInv, IndexTypes
  <2>a. old \in Index!Document \cup {Index!NoDocument}
    BY <1>1, <2>0 DEF Request
  <2>b. old = request[r].old \/ (request[r].op = "index" /\ old = documents[s])
    OBVIOUS
  <2> HIDE DEF old
  <2>2. q \in Request
    BY <1>1, <2>a DEF Request, Index!Places, Index!Works
  <2>3. /\ q.work = "none" /\ q.at = "read" /\ q.host = request[r].host
        /\ q.op = request[r].op /\ q.source = request[r].source /\ q.scope = request[r].scope
    BY <1>1 DEF Request
  <2>4. /\ q.passages = request[r].passages /\ q.snapshot = request[r].snapshot
        /\ q.unread = request[r].unread /\ q.hits = request[r].hits
        /\ q.old = old /\ q.aborted = request[r].aborted
        /\ q.answer = request[r].answer
    BY <1>1 DEF Request
  <2> HIDE DEF q
  <2>5. Reached(s, documents[s].revision) \/ request[r].op # "index"
    BY <2>0, IndexConstants
       DEF IndexInv, DocumentInv, Index!Indexed, Reached, IndexTypes
  <2>6. RevisionFits(q)
    BY <1>1, <2>b, <2>3, <2>4, <2>5 DEF Fits, RevisionFits
  <2>7. PlaceFits(q) /\ WorkFits(q) /\ HitsFit(q) /\ ModelFits(q)
    BY <1>1, <2>3, <2>4 DEF Fits, PlaceFits, WorkFits, HitsFit, ModelFits
  <2> QED
    BY <1>1, <1>2, <2>1, <2>2, <2>6, <2>7, RequestMoves DEF Fits
<1> QED
  BY <1>3, <1>4

LEMMA ReplaceStep ==
    ASSUME IndexInv, NEW r \in Requests, Index!Replace(r)
    PROVE  IndexInv'
<1> DEFINE s == request[r].source
           own == [revision |-> request[r].scope[s], passages |-> request[r].passages,
                   model |-> model[request[r].host]]
<1>1. /\ request[r] \in Request /\ Fits(request[r])
      /\ request[r].host \in Hosts /\ request[r].at = "queued"
      /\ request[r].work = "replace" /\ ~request[r].aborted
      /\ Index!Heads(r) /\ Index!Leaves(r)
  BY RunsShape DEF Index!Replace, Index!Works
<1>2. UNCHANGED <<granted, model, descriptor, retired>>
  BY DEF Index!Replace
<1>3. CASE Index!Replaced(s, own, Index!Digest(request[r].old))
  <2>1. documents' = [documents EXCEPT ![s] = own] /\ Index!Ends(r, "done")
    BY <1>3 DEF Index!Replace
  <2>2. /\ request[r].op = "index" /\ s \in DOMAIN request[r].scope
        /\ request[r].passages # {} /\ descriptor = model[request[r].host]
    BY <1>1 DEF Fits, PlaceFits, WorkFits, ModelFits
  <2>3. s \in Sources /\ request[r].scope[s] \in 1 .. MaxRevision
    BY <1>1, <2>2, ScopeShape DEF Request
  <2>4. own \in Index!Document /\ own.model = descriptor /\ Reached(s, own.revision)
    <3>1. model[request[r].host] \in Models
      BY <1>1 DEF IndexInv, IndexTypes
    <3>2. request[r].passages \in (SUBSET Passages) \ {{}}
      BY <1>1, <2>2 DEF Request
    <3>3. Reached(s, request[r].scope[s])
      BY <1>1, <2>2 DEF Fits, RevisionFits
    <3> QED
      BY <2>2, <2>3, <3>1, <3>2, <3>3 DEF Index!Document, Index!Revisions
  <2>5. retired[s] = 0
    BY <1>3 DEF Index!Replaced
  <2>6. documents \in Corpora /\ Within(documents)
    BY DEF IndexInv, IndexTypes, Corpora
  <2> HIDE DEF own
  <2>7. Within([documents EXCEPT ![s] = own])
    BY <1>3, <2>3, <2>4, <2>6, WithinReplaced
  <2>8. documents' \in Corpora /\ \A t \in Sources : documents'[t] =
           IF t = s THEN own ELSE documents[t]
    BY <2>1, <2>3, <2>4, <2>6 DEF Corpora
  <2>9. \A t \in Sources : documents'[t] # Index!NoDocument =>
           /\ retired[t] = 0
           /\ Reached(t, documents'[t].revision)
           /\ documents'[t].model = descriptor
    BY <2>4, <2>5, <2>8 DEF IndexInv, DocumentInv, Index!RetiredIsGone, Index!Indexed
  <2> HIDE DEF s
  <2> QED
    BY <1>1, <1>2, <2>1, <2>7, <2>8, <2>9, Transacts, AnswerKinds DEF IndexInv, IndexTypes
<1>4. CASE ~Index!Replaced(s, own, Index!Digest(request[r].old))
  <2>1. documents' = documents /\ Index!Ends(r, "refused")
    BY <1>4 DEF Index!Replace
  <2> QED
    BY <1>1, <1>2, <2>1, TurnEnds, AnswerKinds
<1> QED
  BY <1>3, <1>4

\* Retiring and deleting take a document away.
LEMMA ClearStep ==
    ASSUME IndexInv, NEW r \in Requests, NEW answer \in Index!Answers,
           Index!Heads(r), Index!Leaves(r), Index!Ends(r, answer),
           UNCHANGED <<granted, model, descriptor>>, NEW s \in Sources,
           documents' = [documents EXCEPT ![s] = Index!NoDocument],
           retired' \in [Sources -> 0 .. MaxRevision],
           \A t \in Sources \ {s} : retired'[t] = retired[t]
    PROVE  IndexInv'
<1>1. documents \in Corpora /\ Within(documents)
  BY DEF IndexInv, IndexTypes, Corpora
<1>2. documents' \in Corpora /\ \A t \in Sources : documents'[t] =
         IF t = s THEN Index!NoDocument ELSE documents[t]
  BY <1>1 DEF Corpora
<1>3. Within(documents')
  BY <1>1, WithinCleared
<1>4. \A t \in Sources : documents'[t] # Index!NoDocument =>
         /\ retired'[t] = 0
         /\ Reached(t, documents'[t].revision)
         /\ documents'[t].model = descriptor
  BY <1>2 DEF IndexInv, DocumentInv, Index!RetiredIsGone, Index!Indexed
<1> QED
  BY <1>2, <1>3, <1>4, Transacts

LEMMA RetireStep ==
    ASSUME IndexInv, NEW r \in Requests, Index!Retire(r) \/ Index!Delete(r)
    PROVE  IndexInv'
<1> DEFINE s == request[r].source
           revision == request[r].scope[s]
<1>1. /\ request[r] \in Request /\ Fits(request[r])
      /\ request[r].work \in {"retire", "delete"} /\ ~request[r].aborted
      /\ Index!Heads(r) /\ Index!Leaves(r)
  BY RunsShape DEF Index!Retire, Index!Delete, Index!Works
<1>2. UNCHANGED <<granted, model, descriptor>>
  BY DEF Index!Retire, Index!Delete
<1>3. s \in Sources /\ revision \in 1 .. MaxRevision
  <2>1. s \in DOMAIN request[r].scope
    BY <1>1 DEF Fits, PlaceFits, WorkFits
  <2> QED
    BY <1>1, <2>1, ScopeShape DEF Request
<1>4. retired \in [Sources -> 0 .. MaxRevision]
  BY DEF IndexInv, IndexTypes
<1>5. \/ UNCHANGED <<documents, retired>> /\ Index!Ends(r, "refused")
      \/ /\ documents' = [documents EXCEPT ![s] = Index!NoDocument] /\ Index!Ends(r, "done")
         /\ retired' = [retired EXCEPT ![s] = revision] \/ retired' = retired
  BY DEF Index!Retire, Index!Delete
<1>6. CASE UNCHANGED <<documents, retired>> /\ Index!Ends(r, "refused")
  BY <1>1, <1>2, <1>6, TurnEnds, AnswerKinds
<1>7. CASE /\ documents' = [documents EXCEPT ![s] = Index!NoDocument] /\ Index!Ends(r, "done")
           /\ retired' = [retired EXCEPT ![s] = revision] \/ retired' = retired
  <2> HIDE DEF revision, s
  <2>1. /\ retired' \in [Sources -> 0 .. MaxRevision]
        /\ \A t \in Sources \ {s} : retired'[t] = retired[t]
    BY <1>3, <1>4, <1>7, ConversationsAssumption
  <2> QED
    BY <1>1, <1>2, <1>3, <1>7, <2>1, ClearStep, AnswerKinds
<1> QED
  BY <1>5, <1>6, <1>7

\* What a request is while its search is read.
LEMMA SearchShape ==
    ASSUME IndexInv, NEW r \in Requests, Index!Heads(r), ~request[r].aborted,
           request[r].work = "search" \/ request[r].snapshot # <<>>
    PROVE  /\ request[r] \in Request /\ Fits(request[r])
           /\ request[r].host \in Hosts /\ request[r].at = "queued"
           /\ request[r].work = "search" /\ request[r].op = "search"
<1>1. request[r] \in Request /\ Fits(request[r])
  BY DEF IndexInv, IndexTypes
<1>2. request[r].work = "search" /\ request[r].op = "search"
  BY <1>1 DEF Fits, WorkFits
<1>3. request[r].at = "queued" /\ request[r].host \in Hosts
  BY <1>1, <1>2 DEF Fits, PlaceFits
<1> QED
  BY <1>1, <1>2, <1>3

LEMMA SearchStep ==
    ASSUME IndexInv, NEW r \in Requests, Index!Scan(r) \/ Index!Page(r)
    PROVE  IndexInv'
<1>0. /\ Index!Heads(r) /\ ~request[r].aborted
      /\ request[r].work = "search" \/ request[r].snapshot # <<>>
      /\ UNCHANGED <<granted, model, descriptor, documents, retired, waiting>>
  BY DEF Index!Scan, Index!Page, Index!database
<1>1. /\ request[r] \in Request /\ Fits(request[r])
      /\ request[r].host \in Hosts /\ request[r].at = "queued"
      /\ request[r].work = "search" /\ request[r].op = "search"
  BY <1>0, SearchShape
<1>2. /\ waiting' \in [Hosts -> Seq(Requests)] /\ documents \in Corpora
      /\ request \in [Requests -> Request]
  BY <1>0 DEF IndexInv, IndexTypes, Corpora
<1>3. DOMAIN request[r].scope \subseteq Sources
  BY <1>1, ScopeShape DEF Request
<1>4. CASE Index!Scan(r)
  <2> DEFINE q == [request[r] EXCEPT !.snapshot = documents, !.unread = DOMAIN request[r].scope]
  <2>1. request' = [request EXCEPT ![r] = q]
    BY <1>2, <1>4 DEF Index!Scan
  <2>2. q \in Request
    BY <1>1, <1>2, <1>3 DEF Request, Snapshots, Corpora
  <2>3. /\ q.at = "queued" /\ q.work = "search" /\ q.host = request[r].host
        /\ q.op = "search" /\ q.source = request[r].source /\ q.scope = request[r].scope
    BY <1>1 DEF Request
  <2>4. /\ q.passages = request[r].passages /\ q.hits = request[r].hits
        /\ q.unread = DOMAIN request[r].scope /\ q.old = request[r].old
        /\ q.aborted = request[r].aborted /\ q.answer = request[r].answer
    BY <1>1 DEF Request
  <2> HIDE DEF q
  <2>5. Fits(q)
    BY <1>1, <2>3, <2>4 DEF Fits, PlaceFits, WorkFits, ModelFits, RevisionFits, HitsFit
  <2> QED
    BY <1>0, <1>2, <2>1, <2>2, <2>5, RequestMoves
<1>5. CASE Index!Page(r)
  <2>1. PICK s \in request[r].unread :
           LET found == {d \in {request[r].snapshot[s]} : d.revision = request[r].scope[s]}
           IN \E kept \in SUBSET found :
                 request' = [request EXCEPT
                    ![r].unread = @ \ {s},
                    ![r].hits = @ \cup {[source |-> s, document |-> d] : d \in kept}]
    BY <1>5 DEF Index!Page
  <2>2. PICK kept \in SUBSET {d \in {request[r].snapshot[s]} : d.revision = request[r].scope[s]} :
                 request' = [request EXCEPT
                    ![r].unread = @ \ {s},
                    ![r].hits = @ \cup {[source |-> s, document |-> d] : d \in kept}]
    BY <2>1
  <2>3. s \in DOMAIN request[r].scope /\ s \in Sources
    BY <1>1, <1>3 DEF Fits, HitsFit
  <2>4. \A d \in kept : d \in Index!Document /\ d.revision = request[r].scope[s]
    <3>1. request[r].scope[s] \in 1 .. MaxRevision
      BY <1>1, <2>3, ScopeShape DEF Request
    <3>2. request[r].snapshot \in [Sources -> Index!Document \cup {Index!NoDocument}]
      BY <1>5, <1>1 DEF Index!Page, Request, Snapshots
    <3> QED
      BY <2>2, <2>3, <3>1, <3>2, IndexConstants
  <2> DEFINE new == {[source |-> s, document |-> d] : d \in kept}
             q == [request[r] EXCEPT !.unread = @ \ {s}, !.hits = @ \cup new]
  <2>5. /\ new \in SUBSET [source : Sources, document : Index!Document]
        /\ \A hit \in new : hit.source = s /\ hit.document.revision = request[r].scope[s]
    BY <2>3, <2>4
  <2>6. request' = [request EXCEPT ![r] = q]
    BY <1>2, <2>2
  <2> HIDE DEF new
  <2>7. q \in Request
    BY <1>1, <2>5 DEF Request
  <2>8. /\ q.at = "queued" /\ q.work = "search" /\ q.host = request[r].host
        /\ q.op = "search" /\ q.source = request[r].source /\ q.scope = request[r].scope
    BY <1>1 DEF Request
  <2>9. /\ q.passages = request[r].passages /\ q.hits = request[r].hits \cup new
        /\ q.unread = request[r].unread \ {s} /\ q.old = request[r].old
        /\ q.aborted = request[r].aborted /\ q.answer = request[r].answer
        /\ q.snapshot = request[r].snapshot
    BY <1>1 DEF Request
  <2> HIDE DEF q
  <2>10. HitsFit(q)
    BY <1>1, <2>3, <2>5, <2>8, <2>9 DEF Fits, HitsFit
  <2>11. PlaceFits(q) /\ WorkFits(q) /\ ModelFits(q) /\ RevisionFits(q)
    BY <1>1, <2>8, <2>9 DEF Fits, PlaceFits, WorkFits, ModelFits, RevisionFits
  <2> QED
    BY <1>0, <1>2, <2>6, <2>7, <2>10, <2>11, RequestMoves DEF Fits
<1> QED
  BY <1>4, <1>5

LEMMA ScannedStep ==
    ASSUME IndexInv, NEW r \in Requests, Index!Scanned(r)
    PROVE  IndexInv'
<1> DEFINE q == [request[r] EXCEPT !.work = "documents", !.snapshot = <<>>]
<1>1. /\ request[r] \in Request /\ Fits(request[r])
      /\ request[r].host \in Hosts /\ request[r].at = "queued"
      /\ request[r].work = "search" /\ request[r].op = "search" /\ ~request[r].aborted
  BY SearchShape DEF Index!Scanned
<1>2. /\ UNCHANGED <<granted, model, descriptor, documents, retired>>
      /\ waiting' \in [Hosts -> Seq(Requests)]
      /\ request' = [request EXCEPT ![r] = q]
  BY <1>1, QueueTypes DEF Index!Scanned, Index!database, Index!Heads, IndexInv, IndexTypes
<1>3. q \in Request
  BY <1>1 DEF Request, Snapshots, Index!Works
<1>4. /\ q.at = "queued" /\ q.work = "documents" /\ q.host = request[r].host
      /\ q.op = "search" /\ q.source = request[r].source /\ q.scope = request[r].scope
  BY <1>1 DEF Request
<1>5. /\ q.passages = request[r].passages /\ q.hits = request[r].hits
      /\ q.unread = request[r].unread /\ q.old = request[r].old /\ q.snapshot = <<>>
      /\ q.aborted = request[r].aborted /\ q.answer = request[r].answer
  BY <1>1 DEF Request
<1> HIDE DEF q
<1>6. Fits(q)
  BY <1>1, <1>4, <1>5 DEF Fits, PlaceFits, WorkFits, ModelFits, RevisionFits, HitsFit
<1> QED
  BY <1>2, <1>3, <1>6, RequestMoves

-----------------------------------------------------------------------------
(* The steps of the service *)

\* A request that is not in the queue goes to its next place.
LEMMA GoesMoves ==
    ASSUME IndexInv, NEW r \in Requests, Index!Goes(r, "embedding"),
           request[r].at \in {"granted", "read"}, ~request[r].aborted,
           request[r].op = "search" => request[r].at = "granted",
           request[r].op = "index" =>
              request[r].old.revision < request[r].scope[request[r].source],
           UNCHANGED <<granted, model, descriptor, documents, retired, waiting>>
    PROVE  IndexInv'
<1> DEFINE q == [request[r] EXCEPT !.at = "embedding"]
<1>1. /\ request[r] \in Request /\ Fits(request[r])
      /\ request' = [request EXCEPT ![r] = q]
      /\ waiting' \in [Hosts -> Seq(Requests)]
  BY DEF Index!Goes, IndexInv, IndexTypes
<1>2. q \in Request
  BY <1>1 DEF Request, Index!Places
<1>3. /\ q.at = "embedding" /\ q.work = request[r].work /\ q.host = request[r].host
      /\ q.op = request[r].op /\ q.source = request[r].source /\ q.scope = request[r].scope
  BY <1>1 DEF Request
<1>4. /\ q.passages = request[r].passages /\ q.hits = request[r].hits
      /\ q.unread = request[r].unread /\ q.old = request[r].old
      /\ q.snapshot = request[r].snapshot
      /\ q.aborted = request[r].aborted /\ q.answer = request[r].answer
  BY <1>1 DEF Request
<1> HIDE DEF q
<1>5. request[r].work = "none"
  BY <1>1 DEF Fits, PlaceFits
<1>6. Fits(q)
  BY <1>1, <1>3, <1>4, <1>5 DEF Fits, PlaceFits, WorkFits, ModelFits, RevisionFits, HitsFit
<1> QED
  BY <1>1, <1>2, <1>6, RequestMoves

LEMMA ProceedStep ==
    ASSUME IndexInv, NEW r \in Requests, Index!Proceed(r)
    PROVE  IndexInv'
<1>1. /\ request[r] \in Request /\ Fits(request[r])
      /\ request[r].at = "granted" /\ ~request[r].aborted
      /\ request[r].host \in Hosts
      /\ UNCHANGED <<granted, model, descriptor, documents, retired>>
  BY DEF Index!Proceed, Index!database, IndexInv, IndexTypes, Fits, PlaceFits
<1>2. request[r].work = "none" /\ request[r].snapshot = <<>>
  BY <1>1 DEF Fits, PlaceFits, WorkFits
<1>3. ASSUME NEW work \in {"documents", "retire", "delete"},
             Index!Queued(r, work, request[r]),
             work = "documents" => request[r].op \in {"index", "revalidate"},
             work # "documents" => request[r].op = work
      PROVE  IndexInv'
  <2>1. ASSUME NEW q \in Request,
               q.at = "queued" /\ q.work = work /\ q.host = request[r].host,
               q.op = request[r].op /\ q.source = request[r].source,
               q.scope = request[r].scope /\ q.passages = request[r].passages,
               q.snapshot = request[r].snapshot /\ q.unread = request[r].unread,
               q.hits = request[r].hits /\ q.old = request[r].old,
               q.aborted = request[r].aborted /\ q.answer = request[r].answer
        PROVE  Fits(q)
    BY <1>1, <1>2, <1>3, <2>1
       DEF Fits, PlaceFits, WorkFits, ModelFits, RevisionFits, HitsFit
  <2>2. work \in Index!Works
    BY DEF Index!Works
  <2> QED
    BY <1>1, <1>3, <2>1, <2>2, QueuedMoves
<1>4. ASSUME NEW answer \in {"done", "refused"}, Index!Ends(r, answer), waiting' = waiting
      PROVE  IndexInv'
  BY <1>1, <1>4, EndsFits, AnswerKinds DEF IndexInv, IndexTypes
<1>5. ASSUME Index!Goes(r, "embedding"), waiting' = waiting, request[r].op = "search"
      PROVE  IndexInv'
  BY <1>1, <1>5, GoesMoves
<1> QED
  BY <1>3, <1>4, <1>5 DEF Index!Proceed

LEMMA CompareStep ==
    ASSUME IndexInv, NEW r \in Requests, Index!Compare(r)
    PROVE  IndexInv'
<1>1. /\ request[r] \in Request /\ Fits(request[r])
      /\ request[r].op = "index" /\ request[r].at = "read" /\ ~request[r].aborted
      /\ UNCHANGED <<granted, model, descriptor, documents, retired, waiting>>
  BY DEF Index!Compare, Index!database, IndexInv, IndexTypes
<1>2. ASSUME NEW answer \in {"done", "refused"}, Index!Ends(r, answer)
      PROVE  IndexInv'
  BY <1>1, <1>2, EndsFits, AnswerKinds DEF IndexInv, IndexTypes
<1>3. ASSUME Index!Goes(r, "embedding"), Index!StillGranted(r),
             request[r].old.revision # request[r].scope[request[r].source]
      PROVE  IndexInv'
  <2>1. request[r].source \in DOMAIN request[r].scope
    BY <1>1 DEF Fits, PlaceFits
  <2>2. request[r].scope[request[r].source] \in 1 .. MaxRevision
    BY <1>1, <2>1, ScopeShape DEF Request
  <2>3. request[r].old.revision \in 0 .. MaxRevision
    BY <1>1, IndexConstants, ConversationsAssumption DEF Request
  <2>4. granted[request[r].source] = request[r].scope[request[r].source]
    BY <1>3, <2>1 DEF Index!StillGranted
  <2>5. Reached(request[r].source, request[r].old.revision)
    BY <1>1 DEF Fits, RevisionFits
  <2>6. request[r].old.revision < request[r].scope[request[r].source]
    BY <1>3, <2>2, <2>3, <2>4, <2>5, ConversationsAssumption DEF Reached
  <2> QED
    BY <1>1, <1>3, <2>6, GoesMoves
<1> QED
  BY <1>2, <1>3 DEF Index!Compare

LEMMA EmbedStep ==
    ASSUME IndexInv, NEW r \in Requests, Index!Embed(r)
    PROVE  IndexInv'
<1>1. /\ request[r] \in Request /\ Fits(request[r])
      /\ request[r].at = "embedding" /\ ~request[r].aborted
      /\ request[r].host \in Hosts
      /\ UNCHANGED <<granted, model, descriptor, documents, retired>>
  BY DEF Index!Embed, Index!database, IndexInv, IndexTypes, Fits, PlaceFits
<1>2. request[r].work = "none" /\ request[r].snapshot = <<>>
  BY <1>1 DEF Fits, PlaceFits, WorkFits
<1>3. ASSUME NEW work \in {"search", "replace"}, Index!Queued(r, work, request[r]),
             request[r].op = IF work = "replace" THEN "index" ELSE work
      PROVE  IndexInv'
  <2>1. ASSUME NEW q \in Request,
               q.at = "queued" /\ q.work = work /\ q.host = request[r].host,
               q.op = request[r].op /\ q.source = request[r].source,
               q.scope = request[r].scope /\ q.passages = request[r].passages,
               q.snapshot = request[r].snapshot /\ q.unread = request[r].unread,
               q.hits = request[r].hits /\ q.old = request[r].old,
               q.aborted = request[r].aborted /\ q.answer = request[r].answer
        PROVE  Fits(q)
    BY <1>1, <1>2, <1>3, <2>1
       DEF Fits, PlaceFits, WorkFits, ModelFits, RevisionFits, HitsFit
  <2>2. work \in Index!Works
    BY DEF Index!Works
  <2> QED
    BY <1>1, <1>3, <2>1, <2>2, QueuedMoves
<1>4. ASSUME Index!Ends(r, "refused"), waiting' = waiting
      PROVE  IndexInv'
  BY <1>1, <1>4, EndsFits, AnswerKinds DEF IndexInv, IndexTypes
<1> QED
  BY <1>3, <1>4 DEF Index!Embed

LEMMA DeliverStep ==
    ASSUME IndexInv, NEW r \in Requests, Index!Deliver(r)
    PROVE  IndexInv'
BY EndsFits, AnswerKinds DEF Index!Deliver, Index!database, IndexInv, IndexTypes

LEMMA RequestAborts ==
    ASSUME IndexInv, NEW r \in Requests, Index!Abort(r)
    PROVE  IndexInv'
<1> DEFINE f == Index!Answered(r, "refused")
           host == IF request[r].work = "none" THEN None ELSE request[r].host
           q == [f EXCEPT !.aborted = request[r].work # "none",
                          !.host = host, !.work = request[r].work]
<1>1. /\ request[r] \in Request
      /\ UNCHANGED <<granted, model, descriptor, documents, retired>>
      /\ waiting' \in [Hosts -> Seq(Requests)]
      /\ request' = [request EXCEPT ![r] = q]
  BY DEF Index!Abort, Index!database, IndexInv, IndexTypes
<1>2. /\ f \in Request /\ f.at = "ended" /\ f.answer = "refused" /\ Fits(f)
      /\ f.op = "none" /\ f.scope = <<>> /\ f.hits = {} /\ f.unread = {} /\ f.snapshot = <<>>
  <2>1. f = [Index!Fresh EXCEPT !.at = "ended", !.answer = "refused"]
    BY DEF Index!Answered
  <2> QED
    BY <2>1, AnsweredFits, AnswerKinds, FreshShape DEF Request
<1>3. host \in Hosts \cup {None}
  BY <1>1 DEF Request
<1> HIDE DEF f, host
<1>4. (request[r].work # "none") \in BOOLEAN /\ request[r].work \in Index!Works
  BY <1>1 DEF Request
<1>5. q \in Request
  BY <1>2, <1>3, <1>4 DEF Request
<1>6. /\ q.at = "ended" /\ q.op = "none" /\ q.scope = <<>> /\ q.hits = {} /\ q.unread = {}
      /\ q.snapshot = <<>>
  BY <1>2 DEF Request
<1>7. q.work = request[r].work
  BY <1>2 DEF Request
<1>8. q.aborted = (request[r].work # "none")
  BY <1>2 DEF Request
<1>9. q.aborted <=> q.work # "none"
  BY <1>7, <1>8
<1> HIDE DEF q
<1>10. PlaceFits(q) /\ WorkFits(q)
  <2>1. CASE q.work = "none"
    BY <1>6, <1>9, <2>1 DEF PlaceFits, WorkFits
  <2>2. CASE q.work # "none"
    BY <1>6, <1>9, <2>2 DEF PlaceFits, WorkFits
  <2> QED
    BY <2>1, <2>2
<1>11. ModelFits(q) /\ RevisionFits(q) /\ HitsFit(q)
  BY <1>6 DEF ModelFits, RevisionFits, HitsFit
<1> QED
  BY <1>1, <1>5, <1>10, <1>11, RequestMoves DEF Fits

LEMMA IndexRests == ASSUME IndexInv, UNCHANGED indexVars PROVE IndexInv'
<1>1. UNCHANGED <<granted, model, descriptor, documents, retired, waiting, request>>
  BY DEF indexVars
<1>2. IndexTypes'
  BY <1>1 DEF IndexInv, IndexTypes
<1>3. DocumentInv' /\ Index!RetiredIsGone' /\ Within(documents)'
  BY <1>1 DEF IndexInv, DocumentInv, Reached, Index!Indexed, Index!RetiredIsGone
<1>4. ASSUME NEW r \in Requests PROVE Fits(request[r])'
  <2>1. Fits(request[r])
    BY DEF IndexInv
  <2> QED
    BY <1>1, <2>1 DEF Fits, PlaceFits, WorkFits, ModelFits, RevisionFits, Reached, HitsFit
<1> QED
  BY <1>2, <1>3, <1>4 DEF IndexInv

LEMMA IndexNext == ASSUME IndexInv, Index!Next PROVE IndexInv'
BY GrantStep, ArriveStep, SkipStep, EnsureStep, ReadStep, ReplaceStep, RetireStep, SearchStep,
   ScannedStep, ProceedStep, CompareStep, EmbedStep, DeliverStep, RequestAborts
   DEF Index!Next, Index!Turn, Index!Serve

LEMMA IndexHasItsTypes == IndexInv => Index!TypeOK
BY DEF IndexInv, IndexTypes, Index!TypeOK, Request

LEMMA IndexIsKept == ConversationsSpec => []IndexInv
<1>1. ConversationsInit => IndexInv
  <2> SUFFICES ASSUME ConversationsInit PROVE IndexInv
    OBVIOUS
  <2>1. Index!Init /\ model \in [Hosts -> Models]
    BY DEF ConversationsInit, Index!Init
  <2> QED
    BY <2>1, IndexBegins
<1>2. IndexInv /\ [ConversationsNext]_<<part, vars, contextVars, indexVars, feedVars, catalogVars,
                                        streamVars, nativeVars>> => IndexInv'
  BY IndexNext, IndexRests DEF ConversationsNext
<1> QED
  BY <1>1, <1>2, PTL DEF ConversationsSpec

\* However many processes write, what is indexed is within its limit and of one model,
\* and a retired source stays away (src/src/sqlite-vector-store.ts).
THEOREM IndexHolds == ConversationsSpec => []IndexIsSound
<1>1. IndexInv => IndexIsSound
  BY IndexHasItsTypes, WithinIsSound DEF IndexInv, DocumentInv, IndexIsSound
<1> QED
  BY <1>1, IndexIsKept, PTL

-----------------------------------------------------------------------------
(* Retrieval: the steps *)

\* The sources whose document a step replaces, it replaces by a later revision.
RevisionsStep ==
    \A s \in Sources : Index!Indexed(s) /\ Index!Indexed(s)' /\ documents'[s] # documents[s] =>
        documents'[s].revision > documents[s].revision

LEMMA RevisionsMove == ASSUME IndexInv, Index!Next PROVE RevisionsStep
<1>1. ASSUME UNCHANGED documents PROVE RevisionsStep
  BY <1>1 DEF RevisionsStep
<1>2. ASSUME NEW r \in Requests, Index!Retire(r) \/ Index!Delete(r) PROVE RevisionsStep
  <2>1. documents \in [Sources -> Index!Document \cup {Index!NoDocument}]
    BY DEF IndexInv, IndexTypes
  <2>2. \E s : documents' = [documents EXCEPT ![s] = Index!NoDocument] \/ documents' = documents
    BY <1>2 DEF Index!Retire, Index!Delete
  <2> QED
    BY <2>1, <2>2 DEF RevisionsStep, Index!Indexed
<1>3. ASSUME NEW r \in Requests, Index!Replace(r) PROVE RevisionsStep
  <2> DEFINE s == request[r].source
             own == [revision |-> request[r].scope[s], passages |-> request[r].passages,
                     model |-> model[request[r].host]]
  <2>1. documents' = documents \/ (/\ documents' = [documents EXCEPT ![s] = own]
                                   /\ Index!Digest(documents[s]) = Index!Digest(request[r].old))
    BY <1>3 DEF Index!Replace, Index!Replaced
  <2>2. request[r].work = "replace" /\ ~request[r].aborted
    BY <1>3 DEF Index!Replace, Index!Runs
  <2>3. request[r].old.revision < request[r].scope[s]
    BY <2>2 DEF IndexInv, Fits, WorkFits, RevisionFits
  <2>4. own.revision = request[r].scope[s]
    OBVIOUS
  <2>5. documents \in [Sources -> Index!Document \cup {Index!NoDocument}]
    BY DEF IndexInv, IndexTypes
  <2> HIDE DEF own, s
  <2>6. CASE UNCHANGED documents
    BY <1>1, <2>6
  <2>7. CASE /\ documents' = [documents EXCEPT ![s] = own]
             /\ Index!Digest(documents[s]) = Index!Digest(request[r].old)
    <3>1. documents[s].revision = request[r].old.revision
      BY <2>7 DEF Index!Digest
    <3>2. \A t \in Sources : documents'[t] # documents[t] => t = s /\ documents'[t] = own
      BY <2>5, <2>7
    <3>3. ASSUME NEW t \in Sources, documents'[t] # documents[t]
          PROVE  documents[t].revision < documents'[t].revision
      BY <2>3, <2>4, <3>1, <3>2, <3>3
    <3>4. ASSUME NEW t \in Sources, documents'[t] # documents[t]
          PROVE  documents'[t].revision > documents[t].revision
      BY <3>3, <3>4
    <3> QED
      BY <3>4 DEF RevisionsStep
  <2> QED
    BY <2>1, <2>6, <2>7
<1> QED
  BY <1>1, <1>2, <1>3
  DEF Index!Next, Index!Turn, Index!Serve, Index!Grant, Index!Arrive, Index!Skip, Index!Throws,
      Index!Ensure, Index!Read, Index!Scan, Index!Page, Index!Scanned, Index!Proceed,
      Index!Compare, Index!Embed, Index!Deliver, Index!Abort, Index!database

\* The evidence of a request is granted.
Confirmed(q) == \A hit \in q.hits : granted[hit.source] = hit.document.revision

EvidenceStep ==
    \A r \in Requests :
        request[r].at # "ended" /\ request'[r].answer = "done" => Confirmed(request[r])

LEMMA Unanswered ==
    ASSUME IndexInv, NEW r \in Requests, request[r].at # "ended"
    PROVE  request[r].answer = "none"
BY FreshShape DEF IndexInv, IndexTypes, Fits, PlaceFits

LEMMA EvidenceKept ==
    ASSUME IndexInv, NEW r \in Requests, NEW q, request' = [request EXCEPT ![r] = q],
           q.answer = "done" /\ request[r].at # "ended" => Confirmed(request[r])
    PROVE  EvidenceStep
<1>1. \A p \in Requests : p # r => request'[p] = request[p]
  BY DEF IndexInv, IndexTypes
<1>2. request'[r] = q
  BY DEF IndexInv, IndexTypes
<1>3. ASSUME NEW p \in Requests, request[p].at # "ended", request'[p].answer = "done"
      PROVE  Confirmed(request[p])
  BY <1>1, <1>2, <1>3, Unanswered
<1> QED
  BY <1>3 DEF EvidenceStep

\* A request that goes on has not answered.
LEMMA EvidenceWaits ==
    ASSUME IndexInv, NEW r \in Requests, NEW q, request' = [request EXCEPT ![r] = q],
           q.answer = request[r].answer
    PROVE  EvidenceStep
BY Unanswered, EvidenceKept

\* One that found nothing has nothing to confirm, and a refusal confirms nothing.
LEMMA EvidenceEnds ==
    ASSUME IndexInv, NEW r \in Requests, NEW answer \in Index!Answers, Index!Ends(r, answer),
           answer = "done" /\ request[r].at # "ended" => Confirmed(request[r])
    PROVE  EvidenceStep
<1>1. Index!Answered(r, answer).answer = answer
  BY AnsweredFits
<1> QED
  BY <1>1, EvidenceKept DEF Index!Ends


\* A request that has read nothing yet, or asks for no evidence, has none.
LEMMA NoEvidence ==
    ASSUME IndexInv, NEW r \in Requests,
           \/ request[r].op \notin {"search", "revalidate"}
           \/ request[r].op = "search" /\ request[r].at \in {"granted", "embedding"}
    PROVE  Confirmed(request[r])
BY DEF IndexInv, Fits, HitsFit, Confirmed

LEMMA EvidenceMoves == ASSUME IndexInv, Index!Next PROVE EvidenceStep
<1>1. ASSUME UNCHANGED request PROVE EvidenceStep
  BY <1>1, Unanswered DEF EvidenceStep
<1>2. ASSUME NEW r \in Requests, NEW work, NEW fields, "answer" \in DOMAIN fields,
             fields.answer = request[r].answer, Index!Queued(r, work, fields)
      PROVE  EvidenceStep
  <2> DEFINE q == [fields EXCEPT !.at = "queued", !.work = work]
  <2>1. request' = [request EXCEPT ![r] = q]
    BY <1>2 DEF Index!Queued
  <2>2. q.answer = request[r].answer
    BY <1>2
  <2> HIDE DEF q
  <2> QED
    BY <2>1, <2>2, EvidenceWaits
<1>3. \A r \in Requests : request[r] \in Request /\ Fits(request[r])
  BY DEF IndexInv, IndexTypes
<1>4. ASSUME NEW r \in Requests, Index!Ends(r, "refused") PROVE EvidenceStep
  BY <1>4, EvidenceEnds, AnswerKinds
<1>5. ASSUME NEW r \in Requests, NEW h \in Hosts, NEW op \in Index!Operations,
             Index!Arrive(r, h, op)
      PROVE  EvidenceStep
  <2>1. request[r] = Index!Fresh
    BY <1>3, <1>5 DEF Index!Arrive, Fits, PlaceFits
  <2>2. request[r].answer = "none"
    BY <2>1, FreshShape
  <2>3. \A host, o, scope, s, passages, hits :
           /\ "answer" \in DOMAIN [Index!Fresh EXCEPT !.host = host, !.op = o, !.source = s,
                                         !.scope = scope, !.passages = passages]
           /\ [Index!Fresh EXCEPT !.host = host, !.op = o, !.source = s,
                                  !.scope = scope, !.passages = passages].answer = "none"
           /\ "answer" \in DOMAIN [Index!Fresh EXCEPT !.host = host, !.op = o, !.scope = scope]
           /\ [Index!Fresh EXCEPT !.host = host, !.op = o, !.scope = scope].answer = "none"
           /\ "answer" \in DOMAIN [Index!Fresh EXCEPT !.host = host, !.op = o, !.scope = scope,
                                                     !.hits = hits]
           /\ [Index!Fresh EXCEPT !.host = host, !.op = o, !.scope = scope,
                                  !.hits = hits].answer = "none"
    BY DEF Index!Fresh
  <2> QED
    BY <1>2, <1>5, <2>2, <2>3 DEF Index!Arrive
<1>6. ASSUME NEW r \in Requests, Index!Skip(r) PROVE EvidenceStep
  <2>1. request[r].at = "ended" /\ request[r].answer \in Index!Answers
    BY <1>3, <1>6 DEF Index!Skip, Fits, PlaceFits, Request
  <2> QED
    BY <1>6, <2>1, EvidenceEnds DEF Index!Skip
<1>7. ASSUME NEW r \in Requests, Index!Throws(r) PROVE EvidenceStep
  BY <1>4, <1>7 DEF Index!Throws
<1>8. ASSUME NEW r \in Requests, NEW work \in Index!Works, work # "none", Index!Runs(r, work),
             NEW answer \in {"done", "refused"}, Index!Ends(r, answer),
             work \in {"replace", "retire", "delete"}
      PROVE  EvidenceStep
  <2>1. Confirmed(request[r])
    BY <1>8, RunsShape, NoEvidence DEF Fits, WorkFits
  <2> QED
    BY <1>8, <2>1, EvidenceEnds, AnswerKinds
<1>9. ASSUME NEW r \in Requests, Index!Replace(r) \/ Index!Retire(r) \/ Index!Delete(r)
      PROVE  EvidenceStep
  <2>1. {"replace", "retire", "delete"} \subseteq Index!Works
    BY DEF Index!Works
  <2> QED
    BY <1>8, <1>9, <2>1 DEF Index!Replace, Index!Retire, Index!Delete
<1>10. ASSUME NEW r \in Requests, Index!Ensure(r) PROVE EvidenceStep
  <2>1. CASE request' = [request EXCEPT ![r].work = "none", ![r].at = "granted"]
    <3> DEFINE q == [request[r] EXCEPT !.work = "none", !.at = "granted"]
    <3>1. request' = [request EXCEPT ![r] = q]
      BY <1>3, <2>1
    <3>2. q.answer = request[r].answer
      BY <1>3 DEF Request
    <3> HIDE DEF q
    <3> QED
      BY <3>1, <3>2, EvidenceWaits
  <2> QED
    BY <1>4, <1>10, <2>1 DEF Index!Ensure
<1>11. ASSUME NEW r \in Requests, NEW q, request' = [request EXCEPT ![r] = q],
              q.answer = request[r].answer
       PROVE  EvidenceStep
  BY <1>11, EvidenceWaits
<1>12. ASSUME NEW r \in Requests, Index!Read(r) PROVE EvidenceStep
  <2>1. ASSUME NEW old, request' = [request EXCEPT ![r].work = "none", ![r].at = "read",
                                                   ![r].old = old]
        PROVE  EvidenceStep
    <3> DEFINE q == [request[r] EXCEPT !.work = "none", !.at = "read", !.old = old]
    <3>1. request' = [request EXCEPT ![r] = q]
      BY <2>1
    <3>2. q.answer = request[r].answer
      BY <1>3 DEF Request
    <3> HIDE DEF q
    <3> QED
      BY <3>1, <3>2, <1>11
  <2> QED
    BY <1>4, <1>12, <2>1 DEF Index!Read
<1>13. ASSUME NEW r \in Requests, Index!Scan(r) PROVE EvidenceStep
  <2> DEFINE q == [request[r] EXCEPT !.snapshot = documents, !.unread = DOMAIN request[r].scope]
  <2>1. request' = [request EXCEPT ![r] = q]
    BY <1>13 DEF Index!Scan
  <2>2. q.answer = request[r].answer
    BY <1>3 DEF Request
  <2> HIDE DEF q
  <2> QED
    BY <2>1, <2>2, <1>11
<1>14. ASSUME NEW r \in Requests, Index!Page(r) PROVE EvidenceStep
  <2>1. ASSUME NEW unread, NEW hits,
               request' = [request EXCEPT ![r].unread = unread, ![r].hits = hits]
        PROVE  EvidenceStep
    <3> DEFINE q == [request[r] EXCEPT !.unread = unread, !.hits = hits]
    <3>1. request' = [request EXCEPT ![r] = q]
      BY <2>1
    <3>2. q.answer = request[r].answer
      BY <1>3 DEF Request
    <3> HIDE DEF q
    <3> QED
      BY <3>1, <3>2, <1>11
  <2> QED
    BY <1>14, <2>1 DEF Index!Page
<1>15. ASSUME NEW r \in Requests, Index!Scanned(r) PROVE EvidenceStep
  <2> DEFINE q == [request[r] EXCEPT !.work = "documents", !.snapshot = <<>>]
  <2>1. request' = [request EXCEPT ![r] = q]
    BY <1>15 DEF Index!Scanned
  <2>2. q.answer = request[r].answer
    BY <1>3 DEF Request
  <2> HIDE DEF q
  <2> QED
    BY <2>1, <2>2, <1>11
<1>16. ASSUME NEW r \in Requests, NEW place, Index!Goes(r, place) PROVE EvidenceStep
  <2> DEFINE q == [request[r] EXCEPT !.at = place]
  <2>1. request' = [request EXCEPT ![r] = q]
    BY <1>16 DEF Index!Goes
  <2>2. q.answer = request[r].answer
    BY <1>3 DEF Request
  <2> HIDE DEF q
  <2> QED
    BY <2>1, <2>2, <1>11
<1>17. \A r \in Requests : "answer" \in DOMAIN request[r]
  BY <1>3 DEF Request
<1>18. ASSUME NEW r \in Requests, Index!Ends(r, "done"), Confirmed(request[r])
       PROVE  EvidenceStep
  BY <1>18, EvidenceEnds, AnswerKinds
<1>19. ASSUME NEW r \in Requests, Index!Proceed(r) PROVE EvidenceStep
  BY <1>2, <1>4, <1>16, <1>17, <1>18, <1>19, NoEvidence DEF Index!Proceed
<1>20. ASSUME NEW r \in Requests, Index!Compare(r) PROVE EvidenceStep
  BY <1>4, <1>16, <1>18, <1>20, NoEvidence DEF Index!Compare
<1>21. ASSUME NEW r \in Requests, Index!Embed(r) PROVE EvidenceStep
  BY <1>2, <1>4, <1>17, <1>21 DEF Index!Embed
<1>22. ASSUME NEW r \in Requests, Index!Deliver(r) PROVE EvidenceStep
  <2>1. ASSUME Index!StillGranted(r) PROVE Confirmed(request[r])
    BY <1>3, <2>1 DEF Index!StillGranted, Confirmed, Fits, HitsFit
  <2> QED
    BY <1>4, <1>18, <1>22, <2>1 DEF Index!Deliver
<1>23. ASSUME NEW r \in Requests, Index!Abort(r) PROVE EvidenceStep
  <2> DEFINE host == IF request[r].work = "none" THEN None ELSE request[r].host
             q == [Index!Answered(r, "refused") EXCEPT !.aborted = request[r].work # "none",
                                                       !.host = host, !.work = request[r].work]
  <2>1. request' = [request EXCEPT ![r] = q]
    BY <1>23 DEF Index!Abort
  <2>2. q.answer = "refused"
    BY AnsweredFits, AnswerKinds DEF Request
  <2> HIDE DEF q
  <2> QED
    BY <2>1, <2>2, EvidenceKept
<1>24. UNCHANGED request => EvidenceStep
  BY <1>1
<1> QED
  BY <1>5, <1>6, <1>7, <1>9, <1>10, <1>12, <1>13, <1>14, <1>15, <1>19, <1>20, <1>21, <1>22,
     <1>23, <1>24
  DEF Index!Next, Index!Turn, Index!Serve, Index!Grant

-----------------------------------------------------------------------------
(* Nothing is stale: what is written and what is answered *)

\* A history is extended by the turn that read it, by one.
ExtendsStep ==
    \A id \in Ids :
        record'[id].history # record[id].history =>
            \/ record'[id] = Removed
            \/ \E t \in Turns :
                  /\ record[id].active = t /\ ~turn[t].aborted
                  /\ record'[id].history = Append(turn[t].seen, t)
                  /\ record'[id].revision = turn[t].base + 1

LEMMA ExtendsMove == ASSUME Inv, Next PROVE ExtendsStep
<1>0. record \in [Ids -> Record] /\ turn \in [Turns -> Turn]
  BY DEF Inv, TypeOK
<1>1. ASSUME NEW id \in Ids, NEW r, record' = [record EXCEPT ![id] = r],
             r = Removed \/ r.history = record[id].history
      PROVE  ExtendsStep
  BY <1>0, <1>1 DEF ExtendsStep
<1>2. ASSUME UNCHANGED record PROVE ExtendsStep
  BY <1>2 DEF ExtendsStep
<1>3. ASSUME NEW id \in Ids, Discard(id) PROVE ExtendsStep
  BY <1>1, <1>3 DEF Discard
<1>4. ASSUME NEW id \in Ids, Create(id) PROVE ExtendsStep
  <2>1. record[id].history = <<>> /\ Created.history = <<>>
    BY <1>4, FixedRecords DEF Create, Inv, RecordInv, Held
  <2>2. \A i \in Ids : record'[i] = Removed \/ record'[i].history = record[i].history
    BY <1>0, <1>4, <2>1 DEF Create
  <2> QED
    BY <2>2 DEF ExtendsStep
<1>5. ASSUME NEW id \in Ids, Lapse(id) PROVE ExtendsStep
  <2>1. [record[id] EXCEPT !.due = TRUE].history = record[id].history
    BY <1>0 DEF Record
  <2> QED
    BY <1>1, <1>5, <2>1 DEF Lapse
<1>6. ASSUME NEW t \in Turns, NEW tn \in Turn, tn.session \in Ids, Release(t, tn)
      PROVE  ExtendsStep
  <2>1. Released(record[tn.session], tn).history = record[tn.session].history
    BY <1>0, <1>6, IdleRecord DEF Released, Turn
  <2> QED
    BY <1>1, <1>2, <1>6, <2>1 DEF Release
<1>7. ASSUME NEW t \in Turns, NEW id \in Ids, NEW revision \in 0 .. MaxTurns,
             Begin(t, id, revision)
      PROVE  ExtendsStep
  <2>1. /\ Idle(record[id], "ready").history = record[id].history
        /\ Taken(record[id], t).history = record[id].history
    BY <1>0, IdleRecord, TakenRecord
  <2> QED
    BY <1>1, <1>7, <2>1 DEF Begin
<1>8. ASSUME NEW t \in Turns, Executing(t) PROVE turn[t].session \in Ids
  BY <1>8 DEF Executing, Inv, NewInv
<1>9. ASSUME NEW t \in Turns, Abort(t) PROVE ExtendsStep
  <2> DEFINE tn == [turn[t] EXCEPT !.aborted = TRUE]
  <2>1. tn \in Turn /\ tn.session = turn[t].session
    BY <1>0 DEF Turn
  <2>2. UNCHANGED record \/ (Executing(t) /\ Release(t, tn))
    BY <1>9 DEF Abort
  <2> HIDE DEF tn
  <2> QED
    BY <1>2, <1>6, <1>8, <2>1, <2>2
<1>10. ASSUME NEW t \in Turns, Finish(t) PROVE ExtendsStep
  <2> DEFINE tn == [turn[t] EXCEPT !.at = "ended", !.aborted = TRUE]
  <2>1. tn \in Turn /\ tn.session = turn[t].session
    BY <1>0 DEF Turn
  <2>2. Executing(t) /\ Release(t, tn)
    BY <1>10 DEF Finish, Executing
  <2> HIDE DEF tn
  <2> QED
    BY <1>6, <1>8, <2>1, <2>2
<1>11. ASSUME NEW t \in Turns, Commit(t) PROVE ExtendsStep
  <2> DEFINE id == turn[t].session
             r == Committed(record[id], t)
  <2>1. turn[t].at = "answered" /\ ~turn[t].aborted /\ ~turn[t].settled /\ Held(id)
    BY <1>11 DEF Commit, Available
  <2>2. id \in Ids
    BY <2>1 DEF Inv, NewInv
  <2>3. /\ record[id].active = t /\ record[id].revision = turn[t].base
        /\ record[id].history = turn[t].seen /\ record[id].revision < MaxTurns
    BY <2>1, <2>2, SessionsAssumption DEF Inv, OpenInv, RecordInv
  <2>4. r.history = Append(turn[t].seen, t) /\ r.revision = turn[t].base + 1
    BY <1>0, <2>2, <2>3, CommittedRecord
  <2>5. \A i \in Ids : record'[i] = IF i = id THEN r ELSE record[i]
    BY <1>0, <1>11 DEF Commit
  <2> HIDE DEF id, r
  <2> QED
    BY <2>1, <2>3, <2>4, <2>5 DEF ExtendsStep
<1>12. ASSUME NEW t \in Turns, Check(t) \/ Start(t) \/ Respond(t) \/ Fail(t)
       PROVE  ExtendsStep
  BY <1>2, <1>12 DEF Check, Start, Respond, Fail
<1> QED
  BY <1>3, <1>4, <1>5, <1>7, <1>9, <1>10, <1>11, <1>12
  DEF Next, TurnStep, Expire, Touch, Delete

\* The sessions keep their invariant beside the other parts.
LEMMA SessionsBeside == ConversationsSpec => []Inv
<1>1. ConversationsInit => Inv
  BY InitInv DEF ConversationsInit
<1>2. Inv /\ [ConversationsNext]_<<part, vars, contextVars, indexVars, feedVars, catalogVars,
                                   streamVars, nativeVars>> => Inv'
  <2>1. Inv /\ [ConversationsNext]_<<part, vars, contextVars, indexVars, feedVars, catalogVars,
                                     streamVars, nativeVars>> => [Next]_vars
    BY DEF ConversationsNext
  <2> QED
    BY <2>1, NextInv
<1> QED
  BY <1>1, <1>2, PTL DEF ConversationsSpec

\* What is written rests on what was read: a document is replaced by a later revision
\* only, evidence is of the revisions that are granted when it is given, and a history
\* grows by the turn that read it (src/src/retrieval.ts, src/src/session.ts).
THEOREM NothingGoesStale == ConversationsSpec => NothingIsStale
<1>1. IndexInv /\ [ConversationsNext]_<<part, vars, contextVars, indexVars, feedVars,
                                        catalogVars, streamVars, nativeVars>>
      => [RevisionsStep]_Index!retrievalVars /\ [EvidenceStep]_Index!retrievalVars
  BY RevisionsMove, EvidenceMoves DEF ConversationsNext, indexVars, Index!retrievalVars
<1>2. Inv /\ [ConversationsNext]_<<part, vars, contextVars, indexVars, feedVars,
                                   catalogVars, streamVars, nativeVars>>
      => [ExtendsStep]_vars
  BY ExtendsMove DEF ConversationsNext
<1>3. ConversationsSpec => [][RevisionsStep]_Index!retrievalVars
                           /\ [][EvidenceStep]_Index!retrievalVars /\ [][ExtendsStep]_vars
  BY <1>1, <1>2, IndexIsKept, SessionsBeside, PTL DEF ConversationsSpec
<1> QED
  BY <1>3 DEF NothingIsStale, Index!RevisionsAdvance, Index!EvidenceIsCurrent, CommitExtends,
              RevisionsStep, EvidenceStep, ExtendsStep, Confirmed

-----------------------------------------------------------------------------
(* Discovery: snapshots, and the readers that wait for one *)

Shot == [at : 0 .. MaxTime, found : {"nothing", "complete", "partial", "failed"},
         models : SUBSET Models, whole : BOOLEAN]
Pending == [on : BOOLEAN, models : SUBSET Models, listed : SUBSET Models,
            seen : SUBSET Cursors, pages : Nat]
Reading == [at : {"idle", "waiting", "answered", "gone"}, adapter : Adapters,
            since : 0 .. MaxTime, refresh : BOOLEAN, got : Shot]

Honest(s) == (s.found = "complete" => s.whole) /\ Cardinality(s.models) <= MaxModels

\* How old a snapshot may be for this reader.
Allowed(refresh) == Catalogs!Max({IF refresh THEN 0 ELSE Ttl, Minimum})

\* A reader that waits asked in the past; one that has its answer has a fresh one.
Served(q) ==
    /\ q.at = "waiting" => q.since <= now
    /\ q.at = "answered" => q.since - q.got.at <= 0 \/ q.since - q.got.at < Allowed(q.refresh)

CatalogInv ==
    /\ now \in 1 .. MaxTime /\ adapter \in Adapters
    /\ cache \in [Adapters -> Shot] /\ \A x \in Adapters : Honest(cache[x])
    /\ probe \in [Adapters -> Pending]
    /\ \A x \in Adapters : /\ probe[x].listed = probe[x].models
                           /\ Cardinality(probe[x].models) <= MaxModels
    /\ reader \in [Readers -> Reading]
    /\ \A r \in Readers : Honest(reader[r].got) /\ Served(reader[r])

LEMMA CountingModels == ASSUME NEW S PROVE Catalogs!Cardinality(S) = Cardinality(S)
  BY DEF Catalogs!Cardinality, Cardinality

LEMMA NothingFound ==
    /\ Catalogs!NoSnapshot \in Shot /\ Honest(Catalogs!NoSnapshot)
    /\ Catalogs!NoProbe \in Pending
    /\ Catalogs!NoProbe.models = {} /\ Catalogs!NoProbe.listed = {}
    /\ Catalogs!NoReader \in Reading /\ Catalogs!NoReader.at = "idle"
    /\ Catalogs!NoReader.got = Catalogs!NoSnapshot
<1>1. Cardinality({}) = 0
  BY FS_EmptySet
<1>2. Catalogs!NoSnapshot \in Shot /\ Honest(Catalogs!NoSnapshot)
  BY <1>1, ConversationsAssumption DEF Catalogs!NoSnapshot, Shot, Honest
<1> QED
  BY <1>2, ConversationsAssumption
  DEF Catalogs!NoProbe, Catalogs!NoReader, Pending, Reading

LEMMA CatalogBegins == Catalogs!Init => CatalogInv
<1> SUFFICES ASSUME Catalogs!Init PROVE CatalogInv
  OBVIOUS
<1>1. now \in 1 .. MaxTime /\ adapter \in Adapters
  BY ConversationsAssumption DEF Catalogs!Init
<1>2. /\ cache \in [Adapters -> Shot] /\ probe \in [Adapters -> Pending]
      /\ reader \in [Readers -> Reading]
  BY NothingFound DEF Catalogs!Init
<1>3. Cardinality({}) = 0
  BY FS_EmptySet
<1>4. /\ \A x \in Adapters : cache[x] = Catalogs!NoSnapshot /\ probe[x] = Catalogs!NoProbe
      /\ \A r \in Readers : reader[r] = Catalogs!NoReader
  BY DEF Catalogs!Init
<1>5. \A r \in Readers : Served(reader[r])
  BY <1>4, NothingFound DEF Served
<1> QED
  BY <1>1, <1>2, <1>3, <1>4, <1>5, NothingFound, ConversationsAssumption DEF CatalogInv

\* The probe of one adapter is over with an honest snapshot.
LEMMA Settled ==
    ASSUME CatalogInv, NEW x \in Adapters, NEW s \in Shot, Honest(s), s.at = now,
           Catalogs!Settle(x, s), UNCHANGED <<now, adapter>>
    PROVE  CatalogInv'
<1>1. cache' = [cache EXCEPT ![x] = IF x = adapter THEN s ELSE Catalogs!NoSnapshot]
  BY DEF Catalogs!Settle
<1>2. cache' \in [Adapters -> Shot] /\ \A y \in Adapters : Honest(cache'[y])
  BY <1>1, NothingFound DEF CatalogInv
<1>3. probe' = [probe EXCEPT ![x] = Catalogs!NoProbe]
  BY DEF Catalogs!Settle
<1>4. Cardinality({}) = 0 /\ 0 <= MaxModels
  BY FS_EmptySet, ConversationsAssumption
<1>5. /\ probe' \in [Adapters -> Pending]
      /\ \A y \in Adapters : /\ probe'[y].listed = probe'[y].models
                             /\ Cardinality(probe'[y].models) <= MaxModels
  BY <1>3, <1>4, NothingFound DEF CatalogInv
<1>6. ASSUME NEW r \in Readers
      PROVE  reader'[r] \in Reading /\ Honest(reader'[r].got) /\ Served(reader'[r])
  <2> DEFINE q == [reader[r] EXCEPT !.at = "answered", !.got = s]
  <2>1. reader[r] \in Reading /\ Honest(reader[r].got) /\ Served(reader[r])
    BY DEF CatalogInv
  <2>2. reader'[r] = reader[r] \/ (reader[r].at = "waiting" /\ reader'[r] = q)
    BY DEF Catalogs!Settle
  <2>3. /\ q \in Reading /\ q.at = "answered" /\ q.got = s /\ q.since = reader[r].since
    BY <2>1 DEF Reading
  <2>4. reader[r].at = "waiting" => q.since - q.got.at <= 0
    <3>1. s.at \in 0 .. MaxTime /\ reader[r].since \in 0 .. MaxTime
      BY <2>1 DEF Shot, Reading
    <3> QED
      BY <2>1, <2>3, <3>1 DEF Served
  <2> HIDE DEF q
  <2> QED
    BY <2>1, <2>2, <2>3, <2>4 DEF Served
<1>7. reader' \in [Readers -> Reading]
  BY <1>6 DEF Catalogs!Settle
<1>8. now' \in 1 .. MaxTime /\ adapter' \in Adapters
  BY DEF CatalogInv
<1>9. \A r \in Readers : Served(reader[r])'
  BY <1>6 DEF Served
<1> QED
  BY <1>2, <1>5, <1>6, <1>7, <1>8, <1>9 DEF CatalogInv, Honest

\* Steps of readers.
LEMMA ReaderMoves ==
    ASSUME CatalogInv, NEW r \in Readers, NEW q \in Reading, Honest(q.got), Served(q),
           reader' = [reader EXCEPT ![r] = q],
           probe' \in [Adapters -> Pending],
           \A x \in Adapters : /\ probe'[x].listed = probe'[x].models
                               /\ Cardinality(probe'[x].models) <= MaxModels,
           UNCHANGED <<now, adapter, cache>>
    PROVE  CatalogInv'
<1>1. reader' \in [Readers -> Reading]
  BY DEF CatalogInv
<1>2. ASSUME NEW p \in Readers PROVE Honest(reader'[p].got) /\ Served(reader'[p])
  BY DEF CatalogInv
<1>3. \A p \in Readers : Served(reader[p])'
  BY <1>2 DEF Served
<1>4. /\ cache' \in [Adapters -> Shot] /\ \A x \in Adapters : Honest(cache'[x])
      /\ now' \in 1 .. MaxTime /\ adapter' \in Adapters
  BY DEF CatalogInv
<1> QED
  BY <1>1, <1>2, <1>3, <1>4 DEF CatalogInv, Honest

LEMMA GetStep ==
    ASSUME CatalogInv, NEW r \in Readers, NEW refresh \in BOOLEAN, Catalogs!Get(r, refresh)
    PROVE  CatalogInv'
<1> DEFINE visit == [Catalogs!NoReader EXCEPT !.adapter = adapter, !.since = now,
                                              !.refresh = refresh]
           served == [visit EXCEPT !.at = "answered", !.got = cache[adapter]]
           waits == [visit EXCEPT !.at = "waiting"]
           asked == [Catalogs!NoProbe EXCEPT !.on = TRUE]
<1>1. now \in 0 .. MaxTime /\ adapter \in Adapters /\ cache[adapter] \in Shot
  BY DEF CatalogInv
<1>2. visit \in Reading
  BY <1>1, NothingFound DEF Reading
<1>3. visit.since = now /\ visit.refresh = refresh /\ visit.got = Catalogs!NoSnapshot
  BY NothingFound DEF Reading
<1> HIDE DEF visit
<1>4. CASE Catalogs!Usable(adapter, refresh)
  <2>1. served \in Reading
    BY <1>1, <1>2 DEF Reading
  <2>2. served.at = "answered" /\ served.got = cache[adapter]
    BY <1>2 DEF Reading
  <2>3. served.since = now /\ served.refresh = refresh
    BY <1>2, <1>3 DEF Reading
  <2>4. reader' = [reader EXCEPT ![r] = served] /\ UNCHANGED <<now, adapter, cache, probe>>
    BY <1>4 DEF Catalogs!Get, visit
  <2>5. now - cache[adapter].at < Allowed(refresh)
    BY <1>4 DEF Catalogs!Usable, Allowed
  <2> HIDE DEF served
  <2>6. Served(served)
    BY <2>2, <2>3, <2>5 DEF Served
  <2>7. Honest(served.got)
    BY <1>1, <2>2 DEF CatalogInv
  <2>8. /\ probe' \in [Adapters -> Pending]
        /\ \A x \in Adapters : /\ probe'[x].listed = probe'[x].models
                               /\ Cardinality(probe'[x].models) <= MaxModels
    BY <2>4 DEF CatalogInv
  <2> QED
    BY <2>1, <2>4, <2>6, <2>7, <2>8, ReaderMoves
<1>5. CASE ~Catalogs!Usable(adapter, refresh)
  <2>1. waits \in Reading
    BY <1>2 DEF Reading
  <2>2. waits.at = "waiting" /\ waits.got = Catalogs!NoSnapshot /\ waits.since = now
    BY <1>2, <1>3 DEF Reading
  <2>3. reader' = [reader EXCEPT ![r] = waits] /\ UNCHANGED <<now, adapter, cache>>
    BY <1>5 DEF Catalogs!Get, visit
  <2>4. asked \in Pending /\ asked.models = {} /\ asked.listed = {}
    BY NothingFound DEF Pending
  <2>5. probe' = probe \/ probe' = [probe EXCEPT ![adapter] = asked]
    BY <1>5 DEF Catalogs!Get
  <2> HIDE DEF waits, asked
  <2>6. Cardinality({}) = 0 /\ 0 <= MaxModels
    BY FS_EmptySet, ConversationsAssumption
  <2>7. /\ probe' \in [Adapters -> Pending]
        /\ \A x \in Adapters : /\ probe'[x].listed = probe'[x].models
                               /\ Cardinality(probe'[x].models) <= MaxModels
    BY <1>1, <2>4, <2>5, <2>6 DEF CatalogInv
  <2>8. Served(waits) /\ Honest(waits.got)
    BY <1>1, <2>2, NothingFound DEF Served
  <2> QED
    BY <2>1, <2>3, <2>7, <2>8, ReaderMoves
<1> QED
  BY <1>4, <1>5

LEMMA ReadPageStep ==
    ASSUME CatalogInv, NEW x \in Adapters, NEW models \in SUBSET Models,
           NEW next \in Cursors \cup {"none"}, Catalogs!Read(x, models, next)
    PROVE  CatalogInv'
<1> DEFINE all == probe[x].models \cup models
           listed == probe[x].listed \cup models
           kept == CHOOSE s \in SUBSET all :
                      probe[x].models \subseteq s /\ Catalogs!Cardinality(s) = MaxModels
           shot(found, of) == [Catalogs!Snapshot(x, found, of) EXCEPT !.whole = of = listed]
           more == [probe[x] EXCEPT !.models = all, !.listed = listed,
                                    !.seen = @ \cup {next}, !.pages = @ + 1]
<1>1. /\ probe[x] \in Pending /\ probe[x].listed = probe[x].models
      /\ Cardinality(probe[x].models) <= MaxModels
      /\ UNCHANGED <<now, adapter>>
      /\ now \in 0 .. MaxTime
  BY ConversationsAssumption DEF CatalogInv, Catalogs!Read
<1>2. all \in SUBSET Models /\ listed = all /\ IsFiniteSet(all) /\ Cardinality(all) \in Nat
  <2>1. all \in SUBSET Models /\ listed = all
    BY <1>1 DEF Pending
  <2> QED
    BY <2>1, ConversationsAssumption, FS_Subset, FS_CardinalityType
<1>3. ASSUME NEW found \in {"complete", "partial", "failed"}, NEW of \in SUBSET Models
      PROVE  /\ shot(found, of) \in Shot /\ shot(found, of).at = now
             /\ shot(found, of).found = found /\ shot(found, of).models = of
             /\ shot(found, of).whole <=> of = listed
  BY <1>1 DEF Catalogs!Snapshot, Shot
<1>4. CASE Cardinality(all) > MaxModels
  <2>0. /\ Catalogs!Cardinality(all) > MaxModels
        /\ ~(Catalogs!Cardinality(all) <= MaxModels)
    BY <1>2, <1>4, CountingModels, ConversationsAssumption
  <2>1. Catalogs!Settle(x, shot("partial", kept))
    BY <2>0 DEF Catalogs!Read
  <2>2. \E s \in SUBSET all : probe[x].models \subseteq s /\ Cardinality(s) = MaxModels
    <3> HIDE DEF all
    <3>1. probe[x].models \in SUBSET all
      BY DEF all
    <3>2. MaxModels \in Nat
      BY ConversationsAssumption
    <3> QED
      BY <1>1, <1>2, <1>4, <3>1, <3>2, FilledUp
  <2>3. kept \in SUBSET all /\ Cardinality(kept) = MaxModels
    BY <2>2, CountingModels
  <2>4. kept \in SUBSET Models
    BY <1>2, <2>3
  <2> HIDE DEF kept, all, listed
  <2>5. /\ shot("partial", kept) \in Shot /\ shot("partial", kept).at = now
        /\ shot("partial", kept).found = "partial" /\ shot("partial", kept).models = kept
    BY <1>3, <2>4
  <2> HIDE DEF shot
  <2>6. Honest(shot("partial", kept))
    BY <2>3, <2>5, ConversationsAssumption DEF Honest
  <2> QED
    BY <1>1, <2>1, <2>5, <2>6, Settled
<1>5. CASE Cardinality(all) <= MaxModels
  <2>0. ~(Cardinality(all) > MaxModels)
    BY <1>2, <1>5, ConversationsAssumption
  <2>1. \/ Catalogs!Settle(x, shot("complete", all))
        \/ Catalogs!Settle(x, shot("failed", {}))
        \/ Catalogs!Settle(x, shot("partial", all))
        \/ /\ next \in Cursors
           /\ probe' = [probe EXCEPT ![x].models = all, ![x].listed = listed,
                                     ![x].seen = @ \cup {next}, ![x].pages = @ + 1]
           /\ UNCHANGED <<cache, reader>>
    BY <1>5, <2>0, CountingModels DEF Catalogs!Read
  <2>2. ASSUME next \in Cursors
        PROVE  more \in Pending /\ more.models = all /\ more.listed = listed
    <3>1. /\ probe[x].seen \cup {next} \in SUBSET Cursors /\ probe[x].pages + 1 \in Nat
          /\ listed \in SUBSET Models
      BY <1>1, <1>2, <2>2 DEF Pending
    <3> HIDE DEF all, listed
    <3>2. more \in Pending
      BY <1>1, <1>2, <3>1 DEF Pending
    <3>3. more.models = all /\ more.listed = listed
      BY <1>1 DEF Pending
    <3> QED
      BY <3>2, <3>3
  <2>3. {} \in SUBSET Models /\ Cardinality({}) <= MaxModels
    BY FS_EmptySet, ConversationsAssumption
  <2>4. ASSUME NEW found \in {"complete", "partial", "failed"}, NEW of \in {all, {}},
               found = "complete" => of = all,
               Catalogs!Settle(x, shot(found, of))
        PROVE  CatalogInv'
    <3>1. of \in SUBSET Models /\ Cardinality(of) <= MaxModels
      BY <1>2, <1>5, <2>3
    <3> HIDE DEF all, listed
    <3>2. /\ shot(found, of) \in Shot /\ shot(found, of).at = now
          /\ shot(found, of).found = found /\ shot(found, of).models = of
          /\ shot(found, of).whole <=> of = listed
      BY <1>3, <3>1
    <3> HIDE DEF shot
    <3>3. Honest(shot(found, of))
      BY <1>2, <2>4, <3>1, <3>2 DEF Honest
    <3> QED
      BY <1>1, <2>4, <3>2, <3>3, Settled
  <2>5. CASE /\ next \in Cursors
             /\ probe' = [probe EXCEPT ![x].models = all, ![x].listed = listed,
                                       ![x].seen = @ \cup {next}, ![x].pages = @ + 1]
             /\ UNCHANGED <<cache, reader>>
    <3>1. probe' = [probe EXCEPT ![x] = more]
      BY <2>5 DEF CatalogInv
    <3> HIDE DEF more, all, listed
    <3>a. more \in Pending /\ more.models = all /\ more.listed = all
      BY <1>2, <2>2, <2>5
    <3>2. /\ probe' \in [Adapters -> Pending]
          /\ \A y \in Adapters : /\ probe'[y].listed = probe'[y].models
                                 /\ Cardinality(probe'[y].models) <= MaxModels
      BY <1>5, <3>1, <3>a DEF CatalogInv
    <3>3. \A r \in Readers : Honest(reader[r].got)' /\ Served(reader[r])'
      BY <1>1, <2>5 DEF CatalogInv, Served, Honest
    <3> QED
      BY <1>1, <2>5, <3>2, <3>3 DEF CatalogInv, Honest
  <2> QED
    BY <2>1, <2>4, <2>5
<1> QED
  BY <1>1, <1>2, <1>4, <1>5, ConversationsAssumption

LEMMA ProbeFails ==
    ASSUME CatalogInv, NEW x \in Adapters, Catalogs!Fail(x)
    PROVE  CatalogInv'
<1> DEFINE s == Catalogs!Snapshot(x, "failed", {})
<1>1. /\ Catalogs!Settle(x, s) /\ UNCHANGED <<now, adapter>> /\ now \in 0 .. MaxTime
  BY ConversationsAssumption DEF Catalogs!Fail, CatalogInv
<1>2. s \in Shot /\ s.at = now /\ s.found = "failed" /\ s.models = {}
  BY <1>1 DEF Catalogs!Snapshot, Shot
<1> HIDE DEF s
<1>3. Honest(s)
  BY <1>2, FS_EmptySet, ConversationsAssumption DEF Honest
<1> QED
  BY <1>1, <1>2, <1>3, Settled

LEMMA ReaderLeaves ==
    ASSUME CatalogInv, NEW r \in Readers, Catalogs!Leave(r) \/ Catalogs!Done(r)
    PROVE  CatalogInv'
<1> DEFINE q == [reader[r] EXCEPT !.at = "gone"]
<1>1. reader[r] \in Reading /\ Honest(reader[r].got)
  BY DEF CatalogInv
<1>2. q \in Reading /\ q.at = "gone" /\ q.got = reader[r].got
  BY <1>1 DEF Reading
<1>3. reader' = [reader EXCEPT ![r] = q] \/ reader' = [reader EXCEPT ![r] = Catalogs!NoReader]
  BY DEF Catalogs!Leave, Catalogs!Done
<1> HIDE DEF q
<1>4. /\ Served(q) /\ Served(Catalogs!NoReader)
      /\ Honest(q.got) /\ Honest(Catalogs!NoReader.got)
  BY <1>1, <1>2, NothingFound DEF Served
<1>5. UNCHANGED <<now, adapter, cache, probe>>
  BY DEF Catalogs!Leave, Catalogs!Done
<1>6. /\ probe' \in [Adapters -> Pending]
      /\ \A x \in Adapters : /\ probe'[x].listed = probe'[x].models
                             /\ Cardinality(probe'[x].models) <= MaxModels
  BY <1>5 DEF CatalogInv
<1> QED
  BY <1>2, <1>3, <1>4, <1>5, <1>6, NothingFound, ReaderMoves

LEMMA CatalogRests ==
    ASSUME CatalogInv, Catalogs!Configure \/ Catalogs!Tick \/ UNCHANGED catalogVars
    PROVE  CatalogInv'
<1>1. /\ now' \in 1 .. MaxTime /\ now <= now' /\ adapter' \in Adapters
      /\ UNCHANGED <<probe, reader>>
      /\ \/ cache' = cache
         \/ cache' = [cache EXCEPT ![adapter] = Catalogs!NoSnapshot]
  BY ConversationsAssumption DEF CatalogInv, Catalogs!Configure, Catalogs!Tick, catalogVars
<1>2. cache' \in [Adapters -> Shot] /\ \A x \in Adapters : Honest(cache'[x])
  BY <1>1, NothingFound DEF CatalogInv
<1>3. ASSUME NEW r \in Readers PROVE Served(reader[r])'
  <2>1. reader'[r] = reader[r] /\ Served(reader[r]) /\ reader[r] \in Reading
    BY <1>1 DEF CatalogInv
  <2>2. reader[r].since \in Int /\ now \in Int /\ now' \in Int
    BY <1>1, <2>1 DEF Reading, CatalogInv
  <2> QED
    BY <1>1, <2>1, <2>2 DEF Served
<1> QED
  BY <1>1, <1>2, <1>3 DEF CatalogInv, Honest

LEMMA CatalogNext == ASSUME CatalogInv, Catalogs!Next PROVE CatalogInv'
BY GetStep, ReadPageStep, ProbeFails, ReaderLeaves, CatalogRests DEF Catalogs!Next

\* A catalog that calls itself complete is, and each reader's answer is as fresh as it
\* asked, however its probe was shared (src/src/discovery.ts).
THEOREM CatalogsHold == ConversationsSpec => []CatalogsAreHonest
<1>1. ConversationsInit => CatalogInv
  BY CatalogBegins DEF ConversationsInit
<1>2. CatalogInv /\ [ConversationsNext]_<<part, vars, contextVars, indexVars, feedVars,
                                          catalogVars, streamVars, nativeVars>> => CatalogInv'
  BY CatalogNext, CatalogRests DEF ConversationsNext
<1>3. CatalogInv => CatalogsAreHonest
  <2> SUFFICES ASSUME CatalogInv PROVE CatalogsAreHonest
    OBVIOUS
  <2>1. Catalogs!TypeOK
    BY DEF CatalogInv, Catalogs!TypeOK, Reading
  <2>2. Catalogs!CatalogsAreHonest
    BY CountingModels DEF CatalogInv, Honest, Catalogs!CatalogsAreHonest
  <2>3. Catalogs!FreshEnough
    BY DEF CatalogInv, Served, Allowed, Catalogs!FreshEnough
  <2> QED
    BY <2>1, <2>2, <2>3 DEF CatalogsAreHonest
<1> QED
  BY <1>1, <1>2, <1>3, PTL DEF ConversationsSpec

-----------------------------------------------------------------------------
(* Context: what the store keeps, and the leases of the runs *)

Stores == [{a, b} -> Contexts!Entry \cup {Contexts!NoEntry}]

\* The bytes of each source.
Sizes(e) == [id \in {a, b} |-> e[id].content]

\* The limits of the store.
Limited(e) ==
    /\ Cardinality(Contexts!Present(e)) <= ContextEntries
    /\ SumOver(Sizes(e))[{a, b}] <= ContextBytes

\* A timer that is set at this time forgets all of e in time.
Covers(at, e) ==
    \A id \in Contexts!Present(e) :
        at # 0 /\ (at <= e[id].expires \/ at <= clock + 1)

Stands == {"idle", "resolving", "waiting", "checking", "running", "ended"}
Leases == [1 .. 2 -> {"none", "asked", "held", "released"}]

\* A run is closed when it has ended, and its leases are given back just then.
RunFits(q) ==
    /\ {"at", "closed"} \subseteq DOMAIN q
    /\ q.at \in Stands /\ q.closed \in BOOLEAN /\ (q.closed <=> q.at = "ended")
LeaseFits(q, l) ==
    \A i \in 1 .. 2 : /\ q.at = "ended" => l[i] # "held"
                      /\ l[i] = "released" => q.at = "ended"

StoreInv ==
    /\ clock \in 1 .. ContextTime
    /\ entries \in Stores /\ Limited(entries)
    /\ timer \in 0 .. ContextTime + 1 /\ Covers(timer, entries)

RunInv ==
    /\ DOMAIN run = ContextRuns
    /\ lease \in [ContextRuns -> Leases]
    /\ \A r \in ContextRuns : RunFits(run[r]) /\ LeaseFits(run[r], lease[r])

-----------------------------------------------------------------------------
(* The store *)

LEMMA EntryShape ==
    /\ Contexts!NoEntry \notin Contexts!Entry
    /\ Contexts!NoEntry.content = 0 /\ Contexts!NoEntry.expires = 0
    /\ \A e \in Contexts!Entry : /\ e.content \in Nat
                                 /\ e.expires \in 1 .. ContextTime + 1
BY ConversationsAssumption DEF Contexts!NoEntry, Contexts!Entry, Contexts!Times

LEMMA StoredSizes ==
    ASSUME NEW e \in Stores
    PROVE  /\ IsFiniteSet({a, b})
           /\ Sizes(e) \in [{a, b} -> Nat]
           /\ \A id \in {a, b} : Sizes(e)[id] = e[id].content
           /\ \A id \in {a, b} : e[id].expires \in 0 .. ContextTime + 1
<1>1. IsFiniteSet({a, b})
  <2>1. IsFiniteSet({a}) /\ {a, b} = {a} \cup {b}
    BY FS_Singleton
  <2> QED
    BY <2>1, FS_AddElement
<1>2. \A id \in {a, b} : /\ e[id].content \in Nat
                         /\ e[id].expires \in 0 .. ContextTime + 1
  BY EntryShape, ConversationsAssumption DEF Stores
<1> QED
  BY <1>1, <1>2 DEF Sizes

LEMMA BytesAreSums ==
    ASSUME NEW e \in Stores
    PROVE  Contexts!Bytes(e) = SumOver(Sizes(e))[{a, b}]
<1> DEFINE S == {a, b}
           F == Sizes(e)
           Step(h) == [s \in SUBSET S |->
                         IF s = {} THEN 0
                         ELSE e[CHOOSE x \in s : TRUE].content
                                + h[s \ {CHOOSE x \in s : TRUE}]]
           h0 == [s \in SUBSET S |-> SumOver(F)[s]]
<1>1. IsFiniteSet(S) /\ F \in [S -> Nat] /\ \A s \in S : F[s] = e[s].content
  BY StoredSizes
<1> HIDE DEF F, S
<1>2. \A s \in SUBSET S : Adds(SumOver(F), F, s)
  BY <1>1, SumType
<1>3. \A s \in SUBSET S : s # {} => F[Pick(s)] = e[Pick(s)].content
  BY <1>1, PickIn
<1>4. h0 = Step(h0)
  <2>1. ASSUME NEW s \in SUBSET S PROVE h0[s] = Step(h0)[s]
    <3>1. CASE s = {}
      BY <1>2, <3>1 DEF Adds
    <3>2. CASE s # {}
      BY <1>2, <1>3, <3>2, PickIn DEF Adds, Pick
    <3> QED
      BY <3>1, <3>2
  <2> QED
    BY <2>1
<1>5. \E g : g = Step(g) /\ Contexts!MapThenSumSet(LAMBDA id : e[id].content, S) = g[S]
  <2> HIDE DEF h0
  <2> QED
    BY <1>4, Zenon DEF Contexts!MapThenSumSet, Contexts!MapThenFoldSet
<1>6. PICK g : g = Step(g) /\ Contexts!MapThenSumSet(LAMBDA id : e[id].content, S) = g[S]
  BY <1>5
<1>7. \A s \in SUBSET S : Adds(g, F, s)
  BY <1>3, <1>6 DEF Adds, Pick
<1>8. g[S] = SumOver(F)[S]
  BY <1>1, <1>7, SumUnique
<1>9. Contexts!Bytes(e) = Contexts!MapThenSumSet(LAMBDA id : e[id].content, S)
  BY DEF Contexts!Bytes, S
<1> QED
  BY <1>6, <1>8, <1>9 DEF F, S

LEMMA CountingEntries == ASSUME NEW S PROVE Contexts!Cardinality(S) = Cardinality(S)
  BY DEF Contexts!Cardinality, Cardinality

LEMMA LaterOf ==
    ASSUME NEW x \in Int, NEW y \in Int
    PROVE  /\ Contexts!Max({x, y}) \in {x, y}
           /\ Contexts!Max({x, y}) >= x /\ Contexts!Max({x, y}) >= y
<1>1. \E z \in {x, y} : \A w \in {x, y} : z >= w
  OBVIOUS
<1> QED
  BY <1>1 DEF Contexts!Max

\* The timer that schedule sets covers what the store holds.
LEMMA Scheduled ==
    ASSUME NEW e \in Stores, clock \in 1 .. ContextTime
    PROVE  /\ Contexts!Schedule(e) \in 0 .. ContextTime + 1
           /\ Covers(Contexts!Schedule(e), e)
<1> DEFINE T == {e[id].expires : id \in Contexts!Present(e)}
<1>1. CASE Contexts!Present(e) = {}
  BY <1>1, ConversationsAssumption DEF Contexts!Schedule, Covers
<1>2. CASE Contexts!Present(e) # {}
  <2>1. T \in SUBSET (0 .. ContextTime + 1) /\ T # {} /\ ContextTime + 1 \in Nat
    BY <1>2, StoredSizes, ConversationsAssumption DEF Contexts!Present
  <2>2. \E x \in T : \A y \in T : x <= y
    <3> HIDE DEF T
    <3> QED
      BY <2>1, LeastNumber
  <2>3. Contexts!Min(T) \in T /\ \A y \in T : Contexts!Min(T) <= y
    <3> HIDE DEF T
    <3> QED
      BY <2>2 DEF Contexts!Min
  <2>4. Contexts!Schedule(e) = Contexts!Max({clock + 1, Contexts!Min(T)})
    BY <1>2 DEF Contexts!Schedule
  <2>5. Contexts!Min(T) \in 0 .. ContextTime + 1
    BY <2>1, <2>3
  <2>6. \A id \in Contexts!Present(e) : Contexts!Min(T) <= e[id].expires
    BY <2>3
  <2>7. \A id \in Contexts!Present(e) : e[id].expires \in 0 .. ContextTime + 1
    BY StoredSizes DEF Contexts!Present
  <2> DEFINE m == Contexts!Min(T)
             x == Contexts!Max({clock + 1, m})
  <2> HIDE DEF T, m
  <2>8. x \in {clock + 1, m} /\ x >= clock + 1 /\ x >= m
    <3>1. ContextTime \in Nat
      BY ConversationsAssumption
    <3>2. clock + 1 \in Int /\ m \in Int
      BY <2>5, <3>1 DEF m
    <3> QED
      BY <3>2, LaterOf
  <2> HIDE DEF x
  <2>9. x \in 0 .. ContextTime + 1 /\ x # 0
    BY <2>5, <2>8, ConversationsAssumption DEF m
  <2>10. \A id \in Contexts!Present(e) : x <= e[id].expires \/ x <= clock + 1
    BY <2>5, <2>6, <2>7, <2>8 DEF m
  <2>11. Contexts!Schedule(e) = x
    BY <2>4 DEF x, m
  <2> QED
    BY <2>9, <2>10, <2>11 DEF Covers
<1> QED
  BY <1>1, <1>2

\* A store that has lost some of its entries.
Less(f, e) == \A id \in {a, b} : f[id] = e[id] \/ f[id] = Contexts!NoEntry

LEMMA LessIsLimited ==
    ASSUME NEW e \in Stores, NEW f \in Stores, Less(f, e), Limited(e)
    PROVE  Limited(f)
<1>1. Contexts!Present(f) \subseteq Contexts!Present(e) /\ Contexts!Present(e) \subseteq {a, b}
  BY DEF Less, Contexts!Present
<1>2. IsFiniteSet({a, b})
  BY StoredSizes
<1>3. /\ IsFiniteSet(Contexts!Present(e))
      /\ Cardinality(Contexts!Present(f)) <= Cardinality(Contexts!Present(e))
      /\ Cardinality(Contexts!Present(f)) \in Nat /\ Cardinality(Contexts!Present(e)) \in Nat
  <2>1. IsFiniteSet(Contexts!Present(e))
    BY <1>1, <1>2, FS_Subset
  <2>2. /\ IsFiniteSet(Contexts!Present(f))
        /\ Cardinality(Contexts!Present(f)) <= Cardinality(Contexts!Present(e))
    BY <1>1, <2>1, FS_Subset
  <2> QED
    BY <2>1, <2>2, FS_CardinalityType
<1> DEFINE F == Sizes(f)
           E == Sizes(e)
           S == {a, b}
<1>4. F \in [S -> Nat] /\ E \in [S -> Nat]
  BY StoredSizes
<1>5. \A id \in S : F[id] <= E[id]
  <2>1. \A id \in S : F[id] = f[id].content /\ E[id] = e[id].content /\ E[id] \in Nat
    BY StoredSizes
  <2> QED
    BY <2>1, EntryShape DEF Less
<1>6. S \in SUBSET S /\ IsFiniteSet(S)
  BY <1>2
<1> HIDE DEF F, E, S
<1>7. SumOver(F)[S] <= SumOver(E)[S] /\ SumOver(F)[S] \in Nat /\ SumOver(E)[S] \in Nat
  BY <1>4, <1>5, <1>6, SumMonotone, SumIsNat
<1> QED
  BY <1>3, <1>7, ConversationsAssumption DEF Limited, F, E, S

LEMMA LessIsCovered ==
    ASSUME NEW e, NEW f, Less(f, e), NEW at, Covers(at, e)
    PROVE  Covers(at, f)
BY DEF Less, Covers, Contexts!Present

LEMMA PurgedIsLess ==
    ASSUME entries \in Stores
    PROVE  Contexts!Purged \in Stores /\ Less(Contexts!Purged, entries)
BY DEF Contexts!Purged, Stores, Less

LEMMA StoreSteps ==
    ASSUME StoreInv, entries' \in Stores, Limited(entries'), clock' = clock,
           timer' \in 0 .. ContextTime + 1, Covers(timer', entries')
    PROVE  StoreInv'
<1>1. Limited(entries)'
  BY DEF Limited
<1>2. Covers(timer, entries)'
  BY DEF Covers
<1> QED
  BY <1>1, <1>2 DEF StoreInv

LEMMA PutStep ==
    ASSUME StoreInv, NEW id \in {a, b}, NEW entry \in Contexts!Entry, Contexts!Put(id, entry)
    PROVE  StoreInv'
<1> DEFINE kept == Contexts!Purged
           after == [kept EXCEPT ![id] = entry]
<1>1. kept \in Stores /\ Less(kept, entries) /\ Limited(kept)
  BY PurgedIsLess, LessIsLimited DEF StoreInv
<1>2. clock \in 1 .. ContextTime /\ clock' = clock
  BY DEF StoreInv, Contexts!Put
<1>3. \/ entries' = kept /\ timer' = timer
      \/ /\ entries' = after /\ timer' = Contexts!Schedule(after)
         /\ Contexts!Room(kept, id, entry)
  BY DEF Contexts!Put
<1> HIDE DEF kept
<1>4. CASE entries' = kept /\ timer' = timer
  BY <1>1, <1>2, <1>4, LessIsCovered, StoreSteps DEF StoreInv
<1>5. CASE /\ entries' = after /\ timer' = Contexts!Schedule(after)
           /\ Contexts!Room(kept, id, entry)
  <2>1. after \in Stores
    BY <1>1 DEF Stores
  <2>2. SumOver(Sizes(after))[{a, b}] <= ContextBytes
    BY <1>5, <2>1, BytesAreSums DEF Contexts!Room
  <2>3. Cardinality(Contexts!Present(after)) <= ContextEntries
    <3>1. /\ Contexts!Present(after) = Contexts!Present(kept) \cup {id}
          /\ Contexts!Present(kept) \subseteq {a, b}
      BY <1>1, EntryShape DEF Stores, Contexts!Present
    <3>2. IsFiniteSet({a, b})
      BY <1>1, StoredSizes
    <3>3. IsFiniteSet(Contexts!Present(kept)) /\ Cardinality(Contexts!Present(kept)) \in Nat
      BY <3>1, <3>2, FS_Subset, FS_CardinalityType
    <3>4. Cardinality(Contexts!Present(kept) \cup {id})
             = IF id \in Contexts!Present(kept) THEN Cardinality(Contexts!Present(kept))
               ELSE Cardinality(Contexts!Present(kept)) + 1
      BY <3>3, FS_AddElement
    <3>5. Cardinality(Contexts!Present(kept)) < ContextEntries \/ id \in Contexts!Present(kept)
      BY <1>5, CountingEntries DEF Contexts!Room, Contexts!Present
    <3>6. Cardinality(Contexts!Present(kept)) <= ContextEntries
      BY <1>1 DEF Limited
    <3> DEFINE n == Cardinality(Contexts!Present(kept))
    <3>7. Cardinality(Contexts!Present(after)) = n
             \/ (Cardinality(Contexts!Present(after)) = n + 1 /\ n < ContextEntries)
      BY <3>1, <3>4, <3>5
    <3>8. n \in Nat /\ n <= ContextEntries /\ ContextEntries \in Nat
      BY <3>3, <3>6, ConversationsAssumption
    <3> HIDE DEF n
    <3> QED
      BY <3>7, <3>8
  <2> HIDE DEF after
  <2>4. Limited(after)
    BY <2>2, <2>3 DEF Limited
  <2> QED
    BY <1>2, <1>5, <2>1, <2>4, Scheduled, StoreSteps
<1> QED
  BY <1>3, <1>4, <1>5

LEMMA ForgetStep ==
    ASSUME StoreInv, entries' \in Stores, Less(entries', entries),
           timer' = Contexts!Schedule(entries'), clock' = clock
    PROVE  StoreInv'
BY LessIsLimited, Scheduled, StoreSteps DEF StoreInv

\* Whatever purges on the way leaves the timer.
LEMMA PurgeStep ==
    ASSUME StoreInv, entries' \in {entries, Contexts!Purged}, UNCHANGED <<timer, clock>>
    PROVE  StoreInv'
<1>1. entries \in Stores /\ Less(entries, entries)
  BY DEF StoreInv, Less
<1>2. entries' \in Stores /\ Less(entries', entries)
  BY <1>1, PurgedIsLess
<1> QED
  BY <1>1, <1>2, LessIsLimited, LessIsCovered, StoreSteps DEF StoreInv

LEMMA ClockTicks == ASSUME StoreInv, Contexts!Tick PROVE StoreInv'
<1>1. /\ clock' = clock + 1 /\ clock' \in 1 .. ContextTime
      /\ UNCHANGED <<entries, timer>>
  BY ConversationsAssumption DEF StoreInv, Contexts!Tick, Contexts!store
<1>2. Covers(timer, entries)'
  <2>1. ASSUME NEW id \in Contexts!Present(entries)
        PROVE  timer # 0 /\ (timer <= entries[id].expires \/ timer <= clock + 1 + 1)
    <3>1. timer # 0 /\ (timer <= entries[id].expires \/ timer <= clock + 1)
      BY DEF StoreInv, Covers
    <3>2. timer \in Int /\ clock \in Int
      BY DEF StoreInv
    <3> QED
      BY <3>1, <3>2
  <2> QED
    BY <1>1, <2>1 DEF Covers, Contexts!Present
<1>3. Limited(entries)'
  BY <1>1 DEF StoreInv, Limited, Contexts!Present
<1> QED
  BY <1>1, <1>2, <1>3 DEF StoreInv

LEMMA StoreBegins == Contexts!Init => StoreInv
<1> SUFFICES ASSUME Contexts!Init PROVE StoreInv
  OBVIOUS
<1>1. /\ entries \in Stores /\ Contexts!Present(entries) = {} /\ clock \in 1 .. ContextTime
      /\ timer \in 0 .. ContextTime + 1
      /\ \A id \in {a, b} : entries[id].content = 0
  BY EntryShape, ConversationsAssumption DEF Contexts!Init, Stores, Contexts!Present
<1>2. Covers(timer, entries)
  BY <1>1 DEF Covers
<1>3. Cardinality(Contexts!Present(entries)) <= ContextEntries
  BY <1>1, FS_EmptySet, ConversationsAssumption
<1>4. SumOver(Sizes(entries))[{a, b}] = 0
  <2> DEFINE F == Sizes(entries)
             S == {a, b}
  <2>1. IsFiniteSet(S) /\ F \in [S -> Nat] /\ \A id \in S : F[id] = 0
    BY <1>1, StoredSizes
  <2> HIDE DEF F, S
  <2>2. SumOver(F)[S] = 0
    BY <2>1, SumOfZeros
  <2> QED
    BY <2>2 DEF F, S
<1> QED
  BY <1>1, <1>2, <1>3, <1>4, ConversationsAssumption DEF StoreInv, Limited

-----------------------------------------------------------------------------
(* The runs *)

LEMMA TwoInputs ==
    /\ Contexts!MaxInputs = 2
    /\ Selections \subseteq Seq(Contexts!Inputs)
<1>1. /\ App \in Contexts!Inputs /\ Stored(a, 2) \in Contexts!Inputs
      /\ Inline(1) \in Contexts!Inputs
  BY ConversationsAssumption DEF Contexts!Inputs, App, Stored, Inline
<1>2. \A s \in Selections : s \in Seq(Contexts!Inputs) /\ Contexts!Len(s) = 2
  <2> DEFINE x == App  y == Stored(a, 2)  z == Inline(1)
  <2>1. x \in Contexts!Inputs /\ y \in Contexts!Inputs /\ z \in Contexts!Inputs
    BY <1>1
  <2>2. Selections = {<<x, y>>, <<z, y>>}
    BY DEF Selections
  <2> HIDE DEF x, y, z
  <2>3. <<x, y>> \in Seq(Contexts!Inputs) /\ <<z, y>> \in Seq(Contexts!Inputs)
    BY <2>1
  <2>4. Contexts!Len(<<x, y>>) = 2 /\ Contexts!Len(<<z, y>>) = 2
    OBVIOUS
  <2> QED
    BY <2>2, <2>3, <2>4
<1>3. {Contexts!Len(s) : s \in Selections} = {2}
  BY <1>2 DEF Selections
<1>4. Contexts!Max({2}) = 2
  BY DEF Contexts!Max
<1> QED
  BY <1>2, <1>3, <1>4 DEF Contexts!MaxInputs

LEMMA RunMove ==
    ASSUME RunInv, NEW r \in ContextRuns, NEW q, RunFits(q), NEW l \in Leases, LeaseFits(q, l),
           run' = [run EXCEPT ![r] = q], lease' = [lease EXCEPT ![r] = l]
    PROVE  RunInv'
<1>1. DOMAIN run' = ContextRuns /\ lease' \in [ContextRuns -> Leases]
  BY DEF RunInv
<1>2. ASSUME NEW p \in ContextRuns
      PROVE  RunFits(run'[p]) /\ LeaseFits(run'[p], lease'[p])
  <2>1. CASE p = r
    BY <2>1 DEF RunInv
  <2>2. CASE p # r
    <3>1. run'[p] = run[p] /\ lease'[p] = lease[p]
      BY <2>2 DEF RunInv
    <3> QED
      BY <3>1 DEF RunInv
  <2> QED
    BY <2>1, <2>2
<1>3. ASSUME NEW p \in ContextRuns PROVE RunFits(run[p])' /\ LeaseFits(run[p], lease[p])'
  BY <1>2 DEF RunFits, LeaseFits
<1> QED
  BY <1>1, <1>3 DEF RunInv

\* A run that goes on has given nothing back.
LEMMA RunGoesOn ==
    ASSUME RunInv, NEW r \in ContextRuns, run[r].at # "ended", NEW q,
           {"at", "closed"} \subseteq DOMAIN q, q.closed = run[r].closed,
           q.at \in Stands \ {"ended"},
           run' = [run EXCEPT ![r] = q],
           \/ lease' = lease
           \/ \E i : \E kind \in {"none", "asked", "held"} :
                 lease' = [lease EXCEPT ![r][i] = kind]
    PROVE  RunInv'
<1>1. RunFits(q)
  BY DEF RunInv, RunFits
<1>2. \A i \in 1 .. 2 : lease[r][i] # "released"
  BY DEF RunInv, LeaseFits
<1>3. lease[r] \in Leases
  BY DEF RunInv
<1>4. CASE lease' = lease
  <2>1. lease' = [lease EXCEPT ![r] = lease[r]]
    BY <1>4 DEF RunInv
  <2>2. LeaseFits(q, lease[r])
    BY <1>2 DEF LeaseFits
  <2> QED
    BY <1>1, <1>3, <2>1, <2>2, RunMove
<1>5. ASSUME NEW i, NEW kind \in {"none", "asked", "held"},
             lease' = [lease EXCEPT ![r][i] = kind]
      PROVE  RunInv'
  <2> DEFINE l == [lease[r] EXCEPT ![i] = kind]
  <2>1. lease' = [lease EXCEPT ![r] = l]
    BY <1>5
  <2>2. l \in Leases
    BY <1>3 DEF Leases
  <2>3. \A j \in 1 .. 2 : l[j] = kind \/ l[j] = lease[r][j]
    BY <1>3 DEF Leases
  <2> HIDE DEF l
  <2>4. LeaseFits(q, l)
    BY <1>2, <2>3 DEF LeaseFits
  <2> QED
    BY <1>1, <2>1, <2>2, <2>4, RunMove
<1> QED
  BY <1>4, <1>5

LEMMA FreshRun ==
    /\ {"at", "closed"} \subseteq DOMAIN Contexts!Fresh
    /\ Contexts!Fresh.at = "idle" /\ Contexts!Fresh.closed = FALSE
    /\ RunFits([Contexts!Fresh EXCEPT !.at = "ended", !.closed = TRUE])
    /\ [Contexts!Fresh EXCEPT !.at = "ended", !.closed = TRUE].at = "ended"
BY DEF Contexts!Fresh, RunFits, Stands

LEMMA GivenBack ==
    ASSUME NEW l \in Leases
    PROVE  /\ Contexts!Released(l) \in Leases
           /\ \A i \in 1 .. 2 : Contexts!Released(l)[i] # "held"
BY TwoInputs DEF Contexts!Released, Leases

LEMMA RunEnds ==
    ASSUME RunInv, NEW r \in ContextRuns, Contexts!Release(r)
    PROVE  RunInv'
<1> DEFINE l == Contexts!Released(lease[r])
           q == [Contexts!Fresh EXCEPT !.at = "ended", !.closed = TRUE]
<1>1. l \in Leases /\ \A i \in 1 .. 2 : l[i] # "held"
  BY GivenBack DEF RunInv
<1>2. run' = [run EXCEPT ![r] = q] /\ lease' = [lease EXCEPT ![r] = l]
  BY DEF Contexts!Release, RunInv
<1>3. RunFits(q) /\ q.at = "ended"
  BY FreshRun
<1> HIDE DEF l, q
<1>4. LeaseFits(q, l)
  BY <1>1, <1>3 DEF LeaseFits
<1> QED
  BY <1>1, <1>2, <1>3, <1>4, RunMove

LEMMA StartsRun ==
    ASSUME RunInv, NEW r \in ContextRuns, NEW subject, NEW inputs,
           Contexts!Start(r, subject, inputs)
    PROVE  RunInv'
<1> DEFINE q == [Contexts!Fresh EXCEPT !.at = "resolving", !.subject = subject,
                                       !.inputs = inputs]
<1>1. run' = [run EXCEPT ![r] = q] /\ lease' = lease /\ run[r].at = "idle"
  BY DEF Contexts!Start
<1>2. {"at", "closed"} \subseteq DOMAIN q /\ q.at = "resolving" /\ q.closed = FALSE
  BY DEF Contexts!Fresh
<1>3. run[r].closed = FALSE
  BY <1>1 DEF RunInv, RunFits
<1> HIDE DEF q
<1> QED
  BY <1>1, <1>2, <1>3, RunGoesOn DEF Stands

\* The fields that a run has.
LEMMA RunShape ==
    ASSUME RunInv, NEW r \in ContextRuns
    PROVE  {"at", "closed"} \subseteq DOMAIN run[r] /\ DOMAIN run = ContextRuns
BY DEF RunInv, RunFits

LEMMA ResolveRun ==
    ASSUME RunInv, NEW r \in ContextRuns, Contexts!Resolve(r)
    PROVE  RunInv' /\ entries' \in {entries, Contexts!Purged} /\ UNCHANGED <<timer, clock>>
<1>1. UNCHANGED <<timer, clock>> /\ run[r].at = "resolving"
  BY DEF Contexts!Resolve
<1>2. ASSUME NEW found, NEW expires, lease' = lease,
             run' = [run EXCEPT ![r].at = "checking", ![r].found = found,
                                ![r].expires = expires]
      PROVE  RunInv'
  <2> DEFINE q == [run[r] EXCEPT !.at = "checking", !.found = found, !.expires = expires]
  <2>1. run' = [run EXCEPT ![r] = q]
    BY <1>2, RunShape
  <2>2. {"at", "closed"} \subseteq DOMAIN q /\ q.at = "checking" /\ q.closed = run[r].closed
    BY RunShape
  <2> HIDE DEF q
  <2> QED
    BY <1>1, <1>2, <2>1, <2>2, RunGoesOn DEF Stands
<1>3. ASSUME run' = [run EXCEPT ![r].at = "waiting"],
             lease' = [lease EXCEPT ![r][run[r].next] = "asked"]
      PROVE  RunInv'
  <2> DEFINE q == [run[r] EXCEPT !.at = "waiting"]
  <2>1. run' = [run EXCEPT ![r] = q]
    BY <1>3, RunShape
  <2>2. {"at", "closed"} \subseteq DOMAIN q /\ q.at = "waiting" /\ q.closed = run[r].closed
    BY RunShape
  <2> HIDE DEF q
  <2> QED
    BY <1>1, <1>3, <2>1, <2>2, RunGoesOn DEF Stands
<1>4. CASE run[r].aborted
  BY <1>1, <1>4, RunEnds DEF Contexts!Resolve
<1>5. CASE ~run[r].aborted
  <2> DEFINE input == Contexts!Input(r)
             entry == Contexts!Purged[input.id]
             Has(found, expires) ==
                /\ run' = [run EXCEPT ![r].at = "checking", ![r].found = found,
                                      ![r].expires = expires]
                /\ lease' = lease
  <2>1. CASE input.type = "inline"
    <3>1. Has(input.content, 0) /\ entries' = entries
      BY <1>5, <2>1 DEF Contexts!Resolve
    <3> QED
      BY <1>1, <1>2, <3>1
  <2>2. CASE input.type = "store"
    <3>1. /\ entries' = Contexts!Purged
          /\ Has(entry.content, entry.expires) \/ Contexts!Release(r)
      BY <1>5, <2>2 DEF Contexts!Resolve
    <3> QED
      BY <1>1, <1>2, <3>1, RunEnds
  <2>3. CASE input.type \notin {"inline", "store"}
    <3>1. /\ run' = [run EXCEPT ![r].at = "waiting"] /\ entries' = entries
          /\ lease' = [lease EXCEPT ![r][run[r].next] = "asked"]
      BY <1>5, <2>3 DEF Contexts!Resolve
    <3> QED
      BY <1>1, <1>3, <3>1
  <2> QED
    BY <2>1, <2>2, <2>3
<1> QED
  BY <1>4, <1>5

LEMMA AnswerRun ==
    ASSUME RunInv, NEW r \in ContextRuns, NEW i \in 1 .. 2, NEW content, NEW expires,
           Contexts!Answer(r, i, content, expires)
    PROVE  RunInv'
<1>1. lease[r][i] = "asked" /\ lease[r] \in Leases
  BY DEF Contexts!Answer, RunInv
<1>2. CASE run[r].at = "ended"
  <2> DEFINE l == [lease[r] EXCEPT ![i] = "released"]
  <2>1. lease' = [lease EXCEPT ![r] = l] /\ run' = run
    BY <1>2 DEF Contexts!Answer, RunInv, RunFits
  <2>2. l \in Leases /\ \A j \in 1 .. 2 : l[j] = "released" \/ l[j] = lease[r][j]
    BY <1>1 DEF Leases
  <2> HIDE DEF l
  <2>3. LeaseFits(run[r], l)
    BY <1>2, <2>2 DEF LeaseFits, RunInv
  <2>4. run' = [run EXCEPT ![r] = run[r]] \/ UNCHANGED run
    BY <2>1
  <2>5. lease' \in [ContextRuns -> Leases]
    BY <2>1, <2>2 DEF RunInv
  <2>6. ASSUME NEW p \in ContextRuns PROVE LeaseFits(run[p], lease'[p])
    BY <2>1, <2>3 DEF RunInv
  <2> QED
    BY <2>1, <2>5, <2>6 DEF RunInv, RunFits, LeaseFits
<1>3. CASE run[r].at # "ended"
  <2>1. lease' = [lease EXCEPT ![r][i] = "held"]
    BY <1>3 DEF Contexts!Answer, RunInv, RunFits
  <2>2. CASE run[r].at = "waiting" /\ run[r].next = i
    <3> DEFINE q == [run[r] EXCEPT !.at = "checking", !.found = content, !.expires = expires]
    <3>1. run' = [run EXCEPT ![r] = q]
      BY <2>2, RunShape DEF Contexts!Answer
    <3>2. {"at", "closed"} \subseteq DOMAIN q /\ q.at = "checking" /\ q.closed = run[r].closed
      BY RunShape
    <3> HIDE DEF q
    <3> QED
      BY <1>3, <2>1, <3>1, <3>2, RunGoesOn DEF Stands
  <2>3. CASE ~(run[r].at = "waiting" /\ run[r].next = i)
    <3>1. run' = run
      BY <2>3 DEF Contexts!Answer
    <3> DEFINE l == [lease[r] EXCEPT ![i] = "held"]
    <3>2. lease' = [lease EXCEPT ![r] = l]
      BY <2>1
    <3>3. l \in Leases /\ \A j \in 1 .. 2 : l[j] = "held" \/ l[j] = lease[r][j]
      BY <1>1 DEF Leases
    <3> HIDE DEF l
    <3>4. LeaseFits(run[r], l)
      BY <1>3, <3>3 DEF LeaseFits, RunInv
    <3>5. lease' \in [ContextRuns -> Leases]
      BY <3>2, <3>3 DEF RunInv
    <3>6. ASSUME NEW p \in ContextRuns PROVE LeaseFits(run[p], lease'[p])
      BY <3>2, <3>4 DEF RunInv
    <3> QED
      BY <3>1, <3>5, <3>6 DEF RunInv, RunFits, LeaseFits
  <2> QED
    BY <2>2, <2>3
<1> QED
  BY <1>2, <1>3

LEMMA RefuseRun ==
    ASSUME RunInv, NEW r \in ContextRuns, NEW i \in 1 .. 2, Contexts!Refuse(r, i)
    PROVE  RunInv'
<1>1. lease[r] \in Leases
  BY DEF RunInv
<1>2. CASE run[r].at = "waiting" /\ run[r].next = i
  <2> DEFINE l == [Contexts!Released(lease[r]) EXCEPT ![i] = "none"]
             q == [Contexts!Fresh EXCEPT !.at = "ended", !.closed = TRUE]
  <2>1. run' = [run EXCEPT ![r] = q] /\ lease' = [lease EXCEPT ![r] = l]
    BY <1>2 DEF Contexts!Refuse, RunInv
  <2>2. l \in Leases /\ \A j \in 1 .. 2 : l[j] # "held"
    BY <1>1, GivenBack DEF Leases
  <2>3. RunFits(q) /\ q.at = "ended"
    BY FreshRun
  <2> HIDE DEF l, q
  <2>4. LeaseFits(q, l)
    BY <2>2, <2>3 DEF LeaseFits
  <2> QED
    BY <2>1, <2>2, <2>3, <2>4, RunMove
<1>3. CASE ~(run[r].at = "waiting" /\ run[r].next = i)
  <2> DEFINE l == [lease[r] EXCEPT ![i] = "none"]
  <2>1. lease' = [lease EXCEPT ![r] = l] /\ run' = run
    BY <1>3 DEF Contexts!Refuse
  <2>2. l \in Leases /\ \A j \in 1 .. 2 : l[j] = "none" \/ l[j] = lease[r][j]
    BY <1>1 DEF Leases
  <2> HIDE DEF l
  <2>3. LeaseFits(run[r], l)
    BY <2>2 DEF LeaseFits, RunInv
  <2>4. lease' \in [ContextRuns -> Leases]
    BY <2>1, <2>2 DEF RunInv
  <2>5. ASSUME NEW p \in ContextRuns PROVE LeaseFits(run[p], lease'[p])
    BY <2>1, <2>3 DEF RunInv
  <2> QED
    BY <2>1, <2>4, <2>5 DEF RunInv, RunFits, LeaseFits
<1> QED
  BY <1>2, <1>3

LEMMA CheckRun ==
    ASSUME RunInv, NEW r \in ContextRuns,
           Contexts!Check(r) \/ Contexts!Resolved(r) \/ Contexts!Abort(r)
    PROVE  RunInv'
<1>1. run[r].at # "ended"
  BY DEF Contexts!Check, Contexts!Resolved, Contexts!Abort
<1>2. ASSUME NEW next, NEW total, lease' = lease,
             run' = [run EXCEPT ![r].at = "resolving", ![r].next = next, ![r].total = total]
      PROVE  RunInv'
  <2> DEFINE q == [run[r] EXCEPT !.at = "resolving", !.next = next, !.total = total]
  <2>1. run' = [run EXCEPT ![r] = q]
    BY <1>2, RunShape
  <2>2. {"at", "closed"} \subseteq DOMAIN q /\ q.at = "resolving" /\ q.closed = run[r].closed
    BY RunShape
  <2> HIDE DEF q
  <2> QED
    BY <1>1, <1>2, <2>1, <2>2, RunGoesOn DEF Stands
<1>3. ASSUME lease' = lease, run' = [run EXCEPT ![r].at = "running"] PROVE RunInv'
  <2> DEFINE q == [run[r] EXCEPT !.at = "running"]
  <2>1. run' = [run EXCEPT ![r] = q]
    BY <1>3, RunShape
  <2>2. {"at", "closed"} \subseteq DOMAIN q /\ q.at = "running" /\ q.closed = run[r].closed
    BY RunShape
  <2> HIDE DEF q
  <2> QED
    BY <1>1, <1>3, <2>1, <2>2, RunGoesOn DEF Stands
<1>4. ASSUME lease' = lease, run' = [run EXCEPT ![r].aborted = TRUE] PROVE RunInv'
  <2> DEFINE q == [run[r] EXCEPT !.aborted = TRUE]
  <2>1. run' = [run EXCEPT ![r] = q]
    BY <1>4, RunShape
  <2>2. {"at", "closed"} \subseteq DOMAIN q /\ q.at = run[r].at /\ q.closed = run[r].closed
    BY RunShape
  <2>3. run[r].at \in Stands
    BY DEF RunInv, RunFits
  <2> HIDE DEF q
  <2> QED
    BY <1>1, <1>4, <2>1, <2>2, <2>3, RunGoesOn
<1> QED
  BY <1>2, <1>3, <1>4, RunEnds DEF Contexts!Check, Contexts!Resolved, Contexts!Abort

LEMMA RunsBegin == Contexts!Init => RunInv
<1> SUFFICES ASSUME Contexts!Init PROVE RunInv
  OBVIOUS
<1>1. Contexts!NoLease \in Leases /\ \A i \in 1 .. 2 : Contexts!NoLease[i] = "none"
  BY TwoInputs DEF Contexts!NoLease, Leases
<1>2. RunFits(Contexts!Fresh)
  BY FreshRun DEF RunFits, Stands
<1>3. LeaseFits(Contexts!Fresh, Contexts!NoLease)
  BY <1>1 DEF LeaseFits
<1> QED
  BY <1>1, <1>2, <1>3 DEF Contexts!Init, RunInv

-----------------------------------------------------------------------------
(* Both *)

LEMMA ContextNext == ASSUME StoreInv, RunInv, Contexts!Next PROVE StoreInv' /\ RunInv'
<1>1. ASSUME UNCHANGED <<run, lease>> PROVE RunInv'
  BY <1>1 DEF RunInv, RunFits, LeaseFits
<1>2. ASSUME UNCHANGED <<clock, entries, timer>> PROVE StoreInv'
  BY <1>2, PurgeStep
<1>3. CASE Contexts!Tick
  BY <1>1, <1>3, ClockTicks DEF Contexts!Tick
<1>4. CASE Contexts!Fire
  BY <1>1, <1>4, ForgetStep, PurgedIsLess DEF Contexts!Fire, StoreInv
<1>5. ASSUME NEW id \in {a, b}, NEW entry \in Contexts!Entry, Contexts!Put(id, entry)
      PROVE  StoreInv' /\ RunInv'
  <2>1. UNCHANGED <<run, lease>>
    BY <1>5 DEF Contexts!Put
  <2> QED
    BY <1>1, <1>5, <2>1, PutStep
<1>6. ASSUME NEW gone \in SUBSET {a, b}, Contexts!Forget(gone)
      PROVE  StoreInv' /\ RunInv'
  <2>1. UNCHANGED <<run, lease, clock>> /\ timer' = Contexts!Schedule(entries')
    BY <1>6 DEF Contexts!Forget
  <2>2. entries' \in Stores /\ Less(entries', entries)
    BY <1>6 DEF Contexts!Forget, StoreInv, Stores, Less
  <2> QED
    BY <1>1, <2>1, <2>2, ForgetStep
<1>7. ASSUME NEW r \in ContextRuns, NEW subject, NEW inputs, Contexts!Start(r, subject, inputs)
      PROVE  StoreInv' /\ RunInv'
  BY <1>2, <1>7, StartsRun DEF Contexts!Start, Contexts!store
<1>8. ASSUME NEW r \in ContextRuns, Contexts!Resolve(r) PROVE StoreInv' /\ RunInv'
  BY <1>8, ResolveRun, PurgeStep
<1>9. ASSUME NEW r \in ContextRuns,
             Contexts!Check(r) \/ Contexts!Resolved(r) \/ Contexts!Abort(r)
      PROVE  StoreInv' /\ RunInv'
  BY <1>2, <1>9, CheckRun
     DEF Contexts!Check, Contexts!Resolved, Contexts!Abort, Contexts!store
<1>10. ASSUME NEW r \in ContextRuns, Contexts!Finish(r) PROVE StoreInv' /\ RunInv'
  BY <1>2, <1>10, RunEnds DEF Contexts!Finish, Contexts!store
<1>11. ASSUME NEW r \in ContextRuns, NEW i \in 1 .. 2, NEW content, NEW expires,
              Contexts!Answer(r, i, content, expires)
       PROVE  StoreInv' /\ RunInv'
  BY <1>2, <1>11, AnswerRun DEF Contexts!Answer, Contexts!store
<1>12. ASSUME NEW r \in ContextRuns, NEW i \in 1 .. 2, Contexts!Refuse(r, i)
       PROVE  StoreInv' /\ RunInv'
  BY <1>2, <1>12, RefuseRun DEF Contexts!Refuse, Contexts!store
<1> QED
  BY <1>3, <1>4, <1>5, <1>6, <1>7, <1>8, <1>9, <1>10, <1>11, <1>12, TwoInputs
  DEF Contexts!Next

LEMMA ContextRests ==
    ASSUME StoreInv, RunInv, UNCHANGED contextVars PROVE StoreInv' /\ RunInv'
<1>1. UNCHANGED <<clock, entries, timer, run, lease>>
  BY DEF contextVars
<1>2. RunInv'
  BY <1>1 DEF RunInv, RunFits, LeaseFits
<1> QED
  BY <1>1, <1>2, PurgeStep

\* A lease is given back just when its run has ended, however late it arrives, and the
\* store keeps within its limits and forgets in time (src/src/context.ts).
THEOREM LeasesComeBack == ConversationsSpec => []LeasesReturned
<1>1. ConversationsInit => StoreInv /\ RunInv
  BY StoreBegins, RunsBegin DEF ConversationsInit
<1>2. StoreInv /\ RunInv
      /\ [ConversationsNext]_<<part, vars, contextVars, indexVars, feedVars, catalogVars,
                               streamVars, nativeVars>> => StoreInv' /\ RunInv'
  BY ContextNext, ContextRests DEF ConversationsNext
<1>3. StoreInv /\ RunInv => LeasesReturned
  <2> SUFFICES ASSUME StoreInv, RunInv PROVE LeasesReturned
    OBVIOUS
  <2>1. Contexts!TypeOK
    BY TwoInputs DEF StoreInv, Stores, RunInv, RunFits, Stands, Contexts!TypeOK
  <2>2. Contexts!LeasesReturned
    BY TwoInputs DEF RunInv, LeaseFits, Contexts!LeasesReturned
  <2>3. Contexts!StoreForgets
    <3>1. Contexts!Bytes(entries) <= ContextBytes
      BY BytesAreSums DEF StoreInv, Limited
    <3>2. Contexts!Cardinality(Contexts!Present(entries)) <= ContextEntries
      BY CountingEntries DEF StoreInv, Limited
    <3>3. ASSUME NEW id \in Contexts!Present(entries)
          PROVE  timer # 0 /\ timer <= Contexts!Max({entries[id].expires, clock + 1})
      <4>1. /\ entries[id].expires \in Int /\ clock + 1 \in Int /\ timer \in Int
            /\ timer # 0
            /\ timer <= entries[id].expires \/ timer <= clock + 1
        BY StoredSizes DEF StoreInv, Covers, Contexts!Present
      <4> DEFINE x == entries[id].expires
                 y == clock + 1
                 m == Contexts!Max({x, y})
      <4> HIDE DEF x, y
      <4>2. m \in {x, y} /\ m >= x /\ m >= y
        BY <4>1, LaterOf DEF x, y
      <4> HIDE DEF m
      <4>3. timer <= m
        BY <4>1, <4>2 DEF x, y
      <4> QED
        BY <4>1, <4>3 DEF m, x, y
    <3> QED
      BY <3>1, <3>2, <3>3 DEF Contexts!StoreForgets
  <2> QED
    BY <2>1, <2>2, <2>3 DEF LeasesReturned
<1> QED
  BY <1>1, <1>2, <1>3, PTL DEF ConversationsSpec

-----------------------------------------------------------------------------
(* Native turns: the calls that were announced and those that were proposed *)

LEMMA RemovedShape ==
    ASSUME NEW S, NEW s \in Seq(S), NEW i \in DOMAIN s
    PROVE  /\ Natives!RemoveAt(s, i) \in Seq(S)
           /\ Len(Natives!RemoveAt(s, i)) = Len(s) - 1
           /\ \A n \in 1 .. Len(s) - 1 :
                 Natives!RemoveAt(s, i)[n] = IF n < i THEN s[n] ELSE s[n + 1]
<1>1. Natives!RemoveAt(s, i) = RemoveAt(s, i)
  BY DEF Natives!RemoveAt, RemoveAt
<1> QED
  BY <1>1, WithoutShape

LEMMA TimesRemoved ==
    ASSUME NEW S, NEW s \in Seq(S), NEW i \in DOMAIN s, NEW T
    PROVE  Times(s, T) = Times(Natives!RemoveAt(s, i), T) + (IF s[i] \in T THEN 1 ELSE 0)
<1> DEFINE t == Natives!RemoveAt(s, i)
           f == [n \in Hits(t, T) |-> IF n < i THEN n ELSE n + 1]
           rest == Hits(s, T) \ {i}
<1>1. /\ t \in Seq(S) /\ Len(t) = Len(s) - 1 /\ i \in 1 .. Len(s) /\ Len(s) \in Nat
      /\ \A n \in 1 .. Len(s) - 1 : t[n] = IF n < i THEN s[n] ELSE s[n + 1]
  BY RemovedShape
<1> HIDE DEF t
<1>2. IsFiniteSet(Hits(t, T)) /\ Times(t, T) \in Nat /\ IsFiniteSet(Hits(s, T))
      /\ Times(s, T) \in Nat
  BY <1>1, TimesType
<1>3. Hits(t, T) = {n \in 1 .. Len(s) - 1 : t[n] \in T}
  BY <1>1 DEF Hits
<1>4. Hits(s, T) = {n \in 1 .. Len(s) : s[n] \in T}
  BY DEF Hits
<1>5. f \in [Hits(t, T) -> rest]
  BY <1>1, <1>3, <1>4
<1>6. \A m, n \in Hits(t, T) : f[m] = f[n] => m = n
  BY <1>1, <1>3
<1>7. ASSUME NEW k \in rest PROVE \E n \in Hits(t, T) : f[n] = k
  <2>1. CASE k < i
    <3>1. k \in Hits(t, T) /\ f[k] = k
      BY <1>1, <1>3, <1>4, <2>1
    <3> QED
      BY <3>1
  <2>2. CASE ~(k < i)
    <3>1. k - 1 \in Hits(t, T) /\ f[k - 1] = k
      BY <1>1, <1>3, <1>4, <2>2
    <3> QED
      BY <3>1
  <2> QED
    BY <2>1, <2>2
<1>8. ExistsBijection(Hits(t, T), rest)
  <2> HIDE DEF f, rest
  <2> QED
    BY <1>5, <1>6, <1>7 DEF ExistsBijection, Bijection, Injection, Surjection, IsInjective
<1>9. Cardinality(rest) = Times(t, T)
  BY <1>2, <1>8, FS_Bijection DEF Times
<1>10. CASE s[i] \in T
  <2>1. i \in Hits(s, T)
    BY <1>10 DEF Hits
  <2>2. Cardinality(rest) = Cardinality(Hits(s, T)) - 1
    BY <1>2, <2>1, FS_RemoveElement
  <2> QED
    BY <1>2, <1>9, <1>10, <2>2 DEF Times, t
<1>11. CASE s[i] \notin T
  <2>1. rest = Hits(s, T)
    BY <1>11 DEF Hits
  <2>2. Cardinality(rest) = Times(s, T)
    BY <2>1 DEF Times
  <2> HIDE DEF rest
  <2> QED
    BY <1>2, <1>9, <1>11, <2>2 DEF t
<1> QED
  BY <1>10, <1>11

-----------------------------------------------------------------------------
(* The turn *)

Announced == [value : Values, confirmed : BOOLEAN]
TurnCall == [at : {"checking", "prepared", "running", "leaving", "returned", "threw"},
             phase : 0 .. 4, attempts : 0 .. 2, prompts : 0 .. 1,
             result : {"none", "text", "calls", "threw"}, directory : BOOLEAN,
             failure : {"none", "failed", "proposed"}]
TurnChild == [at : {"none", "alive", "exited"}, ending : BOOLEAN, killed : BOOLEAN,
              group : BOOLEAN, escaped : BOOLEAN, code : {"ok", "failed", "changed"}]
TurnBridge == [open : BOOLEAN, announced : Seq(Announced), received : Seq(Values),
               posted : Seq(Values), interrupting : BOOLEAN,
               reason : {"none", "proposed", "invalid"}]

NativeTypes ==
    /\ call \in TurnCall /\ child \in TurnChild /\ bridge \in TurnBridge
    /\ lines \in Seq(Natives!Calls \cup Natives!Plain) /\ Len(lines) <= MaxLines

\* The prompt goes out with the attempt, or in the third step of the process.
Prompts(c) ==
    /\ c.prompts = IF vendor = "codex" THEN (IF c.phase >= 3 THEN 1 ELSE 0)
                   ELSE IF vendor = "claude" THEN c.attempts ELSE 0
    /\ vendor # "codex" => c.attempts <= 1 /\ c.phase <= 1
    /\ c.at \in {"checking", "prepared"} => c.phase = 0
    /\ c.at \in {"checking", "prepared"} =>
          c.attempts <= (IF vendor = "codex" THEN 1 ELSE 0)

\* What there is of a turn that has not ended.
Left(c, ch, g) ==
    /\ ch.at # "none" => c.at = "running"
    /\ g.open => c.at \in {"prepared", "running", "leaving"}
    /\ c.directory => c.at \in {"prepared", "running", "leaving", "threw"}

\* A confirmed call that asks for v.
Sure(v) == {[value |-> v, confirmed |-> TRUE]}

\* Every proposal confirmed a call or waits for one.
Proposed(g) ==
    \A v \in Values :
        Times(g.posted, {v}) = Times(g.announced, Sure(v)) + Times(g.received, {v})

\* All calls are confirmed, each by a proposal.
Handed(g) ==
    /\ g.announced # <<>> /\ Natives!Confirmed(g.announced)
    /\ \A v \in Values : Times(g.announced, Sure(v)) = Times(g.posted, {v})

Hands(c, g) ==
    /\ c.result = "calls" => Handed(g)
    /\ c.result # "calls" /\ c.at \in {"checking", "prepared", "running"} => Proposed(g)
    /\ c.result = "calls" /\ c.at \in {"prepared", "running"} => vendor = "codex"
    /\ c.at = "checking" => c.result = "none"
    /\ c.at = "returned" \/ (c.at = "leaving" /\ c.result # "threw") => g.reason # "invalid"

NativeInv == NativeTypes /\ Prompts(call) /\ Left(call, child, bridge) /\ Hands(call, bridge)

-----------------------------------------------------------------------------
(* The bridge *)

\* A proposal and the first call that asks for the same are matched.
LEMMA MatchedOne ==
    ASSUME NEW g \in TurnBridge, Natives!Matched(g) # g
    PROVE  \E i \in DOMAIN g.announced, j \in DOMAIN g.received :
              /\ ~g.announced[i].confirmed /\ g.announced[i].value = g.received[j]
              /\ Natives!Matched(g) = [g EXCEPT !.announced[i].confirmed = TRUE,
                                               !.received = Natives!RemoveAt(@, j)]
<1> DEFINE pairs == {q \in (DOMAIN g.announced) \X (DOMAIN g.received) :
                       /\ ~g.announced[q[1]].confirmed
                       /\ g.announced[q[1]].value = g.received[q[2]]}
           pair == CHOOSE q \in pairs : \A r \in pairs : q[1] <= r[1]
           firsts == {q[1] : q \in pairs}
<1>1. pairs # {}
  BY DEF Natives!Matched
<1>2. Natives!Matched(g) = [g EXCEPT !.announced[pair[1]].confirmed = TRUE,
                                    !.received = Natives!RemoveAt(@, pair[2])]
  BY <1>1 DEF Natives!Matched
<1>3. g.announced \in Seq(Announced) /\ Len(g.announced) \in Nat
  BY DEF TurnBridge
<1>4. firsts \in SUBSET (0 .. Len(g.announced)) /\ firsts # {}
  BY <1>1, <1>3
<1>5. \E x \in firsts : \A y \in firsts : x <= y
  <2> HIDE DEF firsts
  <2> QED
    BY <1>3, <1>4, LeastNumber
<1>6. \E q \in pairs : \A r \in pairs : q[1] <= r[1]
  BY <1>5
<1>7. pair \in pairs
  <2> HIDE DEF pairs
  <2> QED
    BY <1>6
<1> HIDE DEF pair
<1> QED
  BY <1>2, <1>7

LEMMA MatchedKeeps ==
    ASSUME NEW g \in TurnBridge
    PROVE  /\ Natives!Matched(g) \in TurnBridge
           /\ Natives!Matched(g).open = g.open
           /\ Natives!Matched(g).reason = g.reason
           /\ Natives!Matched(g).posted = g.posted
           /\ Proposed(g) => Proposed(Natives!Matched(g))
           /\ Handed(g) => Handed(Natives!Matched(g))
<1> DEFINE m == Natives!Matched(g)
<1>1. CASE m = g
  BY <1>1
<1>2. CASE m # g
  <2>1. PICK i \in DOMAIN g.announced, j \in DOMAIN g.received :
               /\ ~g.announced[i].confirmed /\ g.announced[i].value = g.received[j]
               /\ m = [g EXCEPT !.announced[i].confirmed = TRUE,
                                !.received = Natives!RemoveAt(@, j)]
    BY <1>2, MatchedOne
  <2> DEFINE old == g.announced
             sure == [old[i] EXCEPT !.confirmed = TRUE]
             new == [old EXCEPT ![i] = sure]
             left == Natives!RemoveAt(g.received, j)
  <2>2. /\ old \in Seq(Announced) /\ g.received \in Seq(Values)
        /\ old[i] \in Announced /\ g.received[j] \in Values
    BY DEF TurnBridge
  <2>3. sure \in Announced /\ sure.value = g.received[j] /\ sure.confirmed
    BY <2>1, <2>2 DEF Announced
  <2>4. new \in Seq(Announced) /\ left \in Seq(Values)
    BY <2>2, <2>3, RemovedShape
  <2>5. m = [g EXCEPT !.announced = new, !.received = left]
    BY <2>1 DEF TurnBridge
  <2> HIDE DEF m, new, left
  <2>6. m \in TurnBridge
    BY <2>4, <2>5 DEF TurnBridge
  <2>7. /\ m.open = g.open /\ m.reason = g.reason /\ m.posted = g.posted
        /\ m.announced = new /\ m.received = left
    BY <2>5 DEF TurnBridge
  <2>8. ASSUME Proposed(g) PROVE Proposed(m)
    <3> SUFFICES ASSUME NEW v \in Values
                 PROVE  Times(m.posted, {v}) = Times(m.announced, Sure(v))
                                                 + Times(m.received, {v})
      BY DEF Proposed
    <3>1. old[i] \notin Sure(v)
      BY <2>1 DEF Sure
    <3>2. sure \in Sure(v) <=> g.received[j] \in {v}
      <4> HIDE DEF sure
      <4>1. sure.confirmed = TRUE
        BY <2>3 DEF Announced
      <4>2. sure = [value |-> g.received[j], confirmed |-> TRUE]
        BY <2>3, <4>1 DEF Announced
      <4> QED
        BY <4>2 DEF Sure
    <3> HIDE DEF sure
    <3>3. Times(new, Sure(v)) = Times(old, Sure(v)) + (IF sure \in Sure(v) THEN 1 ELSE 0)
      <4> HIDE DEF old
      <4>1. i \in DOMAIN old
        BY DEF old
      <4> QED
        BY <2>2, <2>3, <3>1, <4>1, TimesReplaced DEF new
    <3>4. Times(g.received, {v}) = Times(left, {v})
                                     + (IF g.received[j] \in {v} THEN 1 ELSE 0)
      BY <2>2, TimesRemoved DEF left
    <3>5. Times(g.posted, {v}) = Times(old, Sure(v)) + Times(g.received, {v})
      BY <2>8 DEF Proposed
    <3>6. /\ Times(old, Sure(v)) \in Nat /\ Times(g.received, {v}) \in Nat
          /\ Times(left, {v}) \in Nat /\ Times(new, Sure(v)) \in Nat
      BY <2>2, <2>4, TimesType
    <3> HIDE DEF old
    <3> QED
      BY <2>7, <3>2, <3>3, <3>4, <3>5, <3>6
  <2>9. ~Handed(g)
    BY <2>1 DEF Handed, Natives!Confirmed
  <2> QED
    BY <2>6, <2>7, <2>8, <2>9 DEF m
<1> QED
  BY <1>1, <1>2

LEMMA CompleteHands ==
    ASSUME NEW g \in TurnBridge, Proposed(g), Natives!Complete(g)
    PROVE  Handed(g)
<1>1. g.received = <<>> /\ g.announced \in Seq(Announced)
  BY DEF Natives!Complete, TurnBridge
<1>2. \A v \in Values : Times(g.received, {v}) = 0
  <2>1. \A v \in Values : Hits(g.received, {v}) = {}
    BY <1>1 DEF Hits
  <2> QED
    BY <2>1, FS_EmptySet DEF Times
<1>3. ASSUME NEW v \in Values PROVE Times(g.announced, Sure(v)) = Times(g.posted, {v})
  <2>1. Times(g.announced, Sure(v)) \in Nat
    BY <1>1, TimesType
  <2>2. Times(g.posted, {v}) = Times(g.announced, Sure(v)) + 0
    BY <1>2 DEF Proposed
  <2> QED
    BY <2>1, <2>2
<1> QED
  BY <1>3 DEF Natives!Complete, Handed

LEMMA CountingCalls == ASSUME NEW S PROVE Natives!Cardinality(S) = Cardinality(S)
  BY DEF Natives!Cardinality, Cardinality

\* What is handed over was announced as often as it was proposed.
LEMMA HandedCounts ==
    ASSUME NEW g \in TurnBridge, Handed(g), NEW v \in Values
    PROVE  Natives!Count([n \in DOMAIN g.announced |-> g.announced[n].value], v)
              = Natives!Count(g.posted, v)
<1> DEFINE values == [n \in DOMAIN g.announced |-> g.announced[n].value]
<1>1. \A n \in DOMAIN g.announced : g.announced[n] \in Announced /\ g.announced[n].confirmed
  BY DEF Handed, Natives!Confirmed, TurnBridge
<1>2. {n \in DOMAIN values : values[n] = v} = Hits(g.announced, Sure(v))
  BY <1>1 DEF Hits, Sure, Announced
<1>3. {n \in DOMAIN g.posted : g.posted[n] = v} = Hits(g.posted, {v})
  BY DEF Hits
<1>4. Natives!Count(values, v) = Times(g.announced, Sure(v))
  <2> HIDE DEF values
  <2> QED
    BY <1>2, CountingCalls DEF Natives!Count, Times
<1>5. Natives!Count(g.posted, v) = Times(g.posted, {v})
  BY <1>3, CountingCalls DEF Natives!Count, Times
<1> QED
  BY <1>4, <1>5 DEF Handed

-----------------------------------------------------------------------------
(* The steps of a turn *)

\* A failure is recorded, and the process told to end, at no other cost.
LEMMA FailedCall ==
    ASSUME NEW c \in TurnCall, NEW why \in {"failed", "proposed"}
    PROVE  /\ Natives!Failing(c, why) \in TurnCall
           /\ Natives!Failing(c, why).at = c.at
           /\ Natives!Failing(c, why).phase = c.phase
           /\ Natives!Failing(c, why).attempts = c.attempts
           /\ Natives!Failing(c, why).prompts = c.prompts
           /\ Natives!Failing(c, why).result = c.result
           /\ Natives!Failing(c, why).directory = c.directory
BY DEF TurnCall, Natives!Failing

LEMMA StoppedChild ==
    ASSUME NEW ch \in TurnChild
    PROVE  Natives!Stopped(ch) \in TurnChild /\ Natives!Stopped(ch).at = ch.at
BY DEF TurnChild, Natives!Stopped

LEMMA NativeBegins == ASSUME Natives!Init, ConversationsAssumption PROVE NativeInv
<1>1. /\ call \in TurnCall /\ call.at = "checking" /\ call.result = "none"
      /\ call.phase = 0 /\ call.attempts = 0 /\ call.prompts = 0 /\ ~call.directory
  BY DEF Natives!Init, Natives!NoTurn, TurnCall
<1>2. child \in TurnChild /\ child.at = "none"
  BY DEF Natives!Init, Natives!NoChild, TurnChild
<1>3. /\ bridge \in TurnBridge /\ ~bridge.open /\ bridge.reason = "none"
      /\ bridge.announced = <<>> /\ bridge.received = <<>> /\ bridge.posted = <<>>
  BY DEF Natives!Init, Natives!NoBridge, TurnBridge
<1>4. lines \in Seq(Natives!Calls \cup Natives!Plain) /\ Len(lines) <= MaxLines
  BY DEF Natives!Init, ConversationsAssumption
<1>5. \A T : Times(<<>>, T) = 0
  <2>1. \A T : Hits(<<>>, T) = {}
    BY DEF Hits
  <2> QED
    BY <2>1, FS_EmptySet DEF Times
<1>6. Proposed(bridge)
  BY <1>3, <1>5 DEF Proposed
<1> QED
  BY <1>1, <1>2, <1>3, <1>4, <1>6 DEF NativeInv, NativeTypes, Prompts, Left, Hands

\* A step of the running process that leaves the bridge alone.
LEMMA ProcessMoves ==
    ASSUME NativeInv, UNCHANGED <<vendor, bridge>>,
           call' \in TurnCall, child' \in TurnChild,
           call'.at = call.at, call'.result = call.result, call'.phase = call.phase,
           call'.prompts = call.prompts, call'.attempts = call.attempts,
           call'.directory = call.directory,
           child'.at # "none" => child.at # "none",
           lines' \in Seq(Natives!Calls \cup Natives!Plain), Len(lines') <= MaxLines
    PROVE  NativeInv'
BY DEF NativeInv, NativeTypes, Prompts, Left, Hands

LEMMA NativeRests == ASSUME NativeInv, UNCHANGED nativeVars PROVE NativeInv'
BY ProcessMoves DEF nativeVars, NativeInv, NativeTypes

\* The process fails, exits or is told to end; its descendants come and go.
LEMMA ProcessSteps ==
    ASSUME NativeInv,
           \/ Natives!Abort \/ Natives!Kill \/ Natives!Exit \/ Natives!Fork
           \/ Natives!EscapedEnds \/ Natives!Exceed
           \/ \E line \in Natives!Calls \cup Natives!Plain : Natives!Say(line)
    PROVE  NativeInv'
<1>1. /\ call \in TurnCall /\ child \in TurnChild /\ Len(lines) <= MaxLines
      /\ lines \in Seq(Natives!Calls \cup Natives!Plain)
  BY DEF NativeInv, NativeTypes
<1>2. CASE Natives!Abort
  BY <1>1, <1>2, FailedCall, StoppedChild, ProcessMoves DEF Natives!Abort
<1>3. CASE Natives!Kill
  <2>1. child' \in TurnChild /\ child'.at = child.at
    BY <1>1, <1>3 DEF Natives!Kill, TurnChild
  <2> QED
    BY <1>1, <1>3, <2>1, ProcessMoves DEF Natives!Kill
<1>4. CASE Natives!Exit
  <2>1. child' \in TurnChild /\ child.at # "none"
    BY <1>1, <1>4 DEF Natives!Exit, TurnChild
  <2> QED
    BY <1>1, <1>4, <2>1, ProcessMoves DEF Natives!Exit
<1>5. CASE Natives!Fork
  <2>1. child' \in TurnChild /\ child.at # "none"
    BY <1>1, <1>5 DEF Natives!Fork, TurnChild
  <2> QED
    BY <1>1, <1>5, <2>1, ProcessMoves DEF Natives!Fork
<1>6. CASE Natives!EscapedEnds
  <2>1. child' \in TurnChild /\ child'.at = child.at
    BY <1>1, <1>6 DEF Natives!EscapedEnds, TurnChild
  <2> QED
    BY <1>1, <1>6, <2>1, ProcessMoves DEF Natives!EscapedEnds
<1>7. CASE Natives!Exceed
  <2>1. /\ call' \in TurnCall /\ call'.at = call.at /\ call'.result = call.result
        /\ call'.phase = call.phase /\ call'.prompts = call.prompts
        /\ call'.attempts = call.attempts /\ call'.directory = call.directory
    BY <1>1, <1>7 DEF Natives!Exceed, TurnCall
  <2> QED
    BY <1>1, <1>7, <2>1, StoppedChild, ProcessMoves DEF Natives!Exceed
<1>8. CASE \E line \in Natives!Calls \cup Natives!Plain : Natives!Say(line)
  <2> PICK line \in Natives!Calls \cup Natives!Plain : Natives!Say(line)
    BY <1>8
  <2>1. Len(lines) < MaxLines /\ lines' = Append(lines, line)
        /\ UNCHANGED <<vendor, call, child, bridge>>
    BY DEF Natives!Say
  <2>2. lines' \in Seq(Natives!Calls \cup Natives!Plain) /\ Len(lines') <= MaxLines
    BY <1>1, <2>1, ConversationsAssumption DEF ConversationsAssumption
  <2> QED
    BY <1>1, <2>1, <2>2, ProcessMoves
<1> QED
  BY <1>2, <1>3, <1>4, <1>5, <1>6, <1>7, <1>8

\* The counts of a bridge do not depend on the rest of it.
LEMMA SameCounts ==
    ASSUME NEW g, NEW h, h.announced = g.announced, h.received = g.received,
           h.posted = g.posted
    PROVE  (Proposed(g) => Proposed(h)) /\ (Handed(g) => Handed(h))
BY DEF Proposed, Handed

LEMMA ReconcileKeeps ==
    ASSUME NativeInv, Natives!Running, UNCHANGED vendor,
           NEW g \in TurnBridge, g.open = bridge.open, g.reason = bridge.reason,
           Hands(call, g), Natives!Reconcile(g),
           lines' \in Seq(Natives!Calls \cup Natives!Plain), Len(lines') <= MaxLines
    PROVE  NativeInv'
<1> DEFINE m == Natives!Matched(g)
           first == ~g.interrupting /\ Natives!Complete(m)
           stops == first /\ vendor = "claude"
           n == [m EXCEPT !.interrupting = @ \/ first,
                          !.reason = IF stops /\ @ = "none" THEN "proposed" ELSE @]
<1>1. /\ m \in TurnBridge /\ m.open = g.open /\ m.reason = g.reason
      /\ Proposed(g) => Proposed(m)
      /\ Handed(g) => Handed(m)
  BY MatchedKeeps
<1>2. /\ bridge' = n
      /\ child' = IF stops THEN Natives!Stopped(child) ELSE child
      /\ call' = IF stops THEN Natives!Failing(call, "proposed") ELSE call
  BY DEF Natives!Reconcile
<1> HIDE DEF m, first, stops
<1>3. n \in TurnBridge
  BY <1>1 DEF TurnBridge
<1>4. n.open = m.open /\ n.announced = m.announced /\ n.received = m.received
      /\ n.posted = m.posted
  BY <1>1 DEF TurnBridge
<1> HIDE DEF n
<1>5. (Proposed(g) => Proposed(n)) /\ (Handed(g) => Handed(n))
  BY <1>1, <1>4, SameCounts
<1>6. /\ call \in TurnCall /\ child \in TurnChild
      /\ call.at = "running" /\ bridge' \in TurnBridge
      /\ call' \in TurnCall /\ child' \in TurnChild /\ child'.at = child.at
      /\ call'.at = call.at /\ call'.result = call.result
      /\ call'.phase = call.phase /\ call'.prompts = call.prompts
      /\ call'.attempts = call.attempts /\ call'.directory = call.directory
  BY <1>2, <1>3, FailedCall, StoppedChild DEF NativeInv, NativeTypes, Natives!Running
<1>7. NativeTypes'
  BY <1>6 DEF NativeTypes
<1>8. Prompts(call)'
  BY <1>6 DEF NativeInv, Prompts
<1>9. Left(call, child, bridge)'
  BY <1>1, <1>2, <1>4, <1>6 DEF NativeInv, Left
<1>10. Hands(call, bridge)'
  BY <1>2, <1>5, <1>6 DEF Hands
<1> QED
  BY <1>7, <1>8, <1>9, <1>10 DEF NativeInv

LEMMA ProposeStep ==
    ASSUME NativeInv, NEW value \in Values, Natives!Propose(value)
    PROVE  NativeInv'
<1> DEFINE g == [bridge EXCEPT !.received = Append(@, value),
                    !.posted = IF call.result = "calls" THEN @ ELSE Append(@, value)]
<1>1. bridge \in TurnBridge /\ call \in TurnCall /\ call.at = "running"
  BY DEF NativeInv, NativeTypes, Natives!Propose, Natives!Running
<1>2. g \in TurnBridge
  <2> DEFINE received == Append(bridge.received, value)
             posted == IF call.result = "calls" THEN bridge.posted
                       ELSE Append(bridge.posted, value)
  <2>1. g = [bridge EXCEPT !.received = received, !.posted = posted]
    BY <1>1 DEF TurnBridge
  <2>2. bridge.received \in Seq(Values) /\ bridge.posted \in Seq(Values)
    BY <1>1 DEF TurnBridge
  <2>3. received \in Seq(Values) /\ posted \in Seq(Values)
    BY <2>2
  <2> HIDE DEF received, posted
  <2> QED
    BY <1>1, <2>1, <2>3 DEF TurnBridge
<1>3. /\ g.open = bridge.open /\ g.reason = bridge.reason /\ g.announced = bridge.announced
      /\ g.received = Append(bridge.received, value)
      /\ g.posted = IF call.result = "calls" THEN bridge.posted
                    ELSE Append(bridge.posted, value)
  BY <1>1 DEF TurnBridge
<1>4. /\ Natives!Reconcile(g) /\ Natives!Running /\ UNCHANGED <<vendor, lines>>
  BY DEF Natives!Propose
<1> HIDE DEF g
<1>5. CASE call.result = "calls"
  <2>1. Handed(g)
    BY <1>1, <1>3, <1>5 DEF NativeInv, Hands, Handed
  <2> QED
    BY <1>1, <1>2, <1>3, <1>4, <1>5, <2>1, ReconcileKeeps DEF NativeInv, NativeTypes, Hands
<1>6. CASE call.result # "calls"
  <2>1. Proposed(bridge)
    BY <1>1, <1>6 DEF NativeInv, Hands
  <2>2. bridge.received \in Seq(Values) /\ bridge.posted \in Seq(Values)
        /\ bridge.announced \in Seq(Announced)
    BY <1>1 DEF TurnBridge
  <2>3. ASSUME NEW v \in Values
        PROVE  Times(g.posted, {v}) = Times(g.announced, Sure(v)) + Times(g.received, {v})
    <3>1. Times(g.posted, {v}) = Times(bridge.posted, {v}) + (IF value \in {v} THEN 1 ELSE 0)
      BY <1>3, <1>6, <2>2, TimesAppended
    <3>2. Times(g.received, {v})
            = Times(bridge.received, {v}) + (IF value \in {v} THEN 1 ELSE 0)
      BY <1>3, <2>2, TimesAppended
    <3>3. Times(bridge.posted, {v})
            = Times(bridge.announced, Sure(v)) + Times(bridge.received, {v})
      BY <2>1 DEF Proposed
    <3>4. /\ Times(bridge.announced, Sure(v)) \in Nat /\ Times(bridge.received, {v}) \in Nat
          /\ Times(bridge.posted, {v}) \in Nat
      BY <2>2, TimesType
    <3> QED
      BY <1>3, <3>1, <3>2, <3>3, <3>4
  <2>4. Proposed(g)
    BY <2>3 DEF Proposed
  <2> QED
    BY <1>1, <1>2, <1>3, <1>4, <1>6, <2>4, ReconcileKeeps DEF NativeInv, NativeTypes, Hands
<1> QED
  BY <1>5, <1>6

\* The adapter gives up on the process.
LEMMA Refused ==
    ASSUME NativeInv, Natives!Running, UNCHANGED vendor,
           \/ call' = Natives!Failing(call, "failed")
           \/ call' = [call EXCEPT !.failure = "failed"],
           child' = Natives!Stopped(child),
           \/ bridge' = bridge
           \/ bridge' = [bridge EXCEPT !.reason = "invalid"],
           lines' \in Seq(Natives!Calls \cup Natives!Plain), Len(lines') <= MaxLines
    PROVE  NativeInv'
<1>1. call \in TurnCall /\ child \in TurnChild /\ bridge \in TurnBridge
      /\ call.at = "running"
  BY DEF NativeInv, NativeTypes, Natives!Running
<1>2. /\ call' \in TurnCall /\ child' \in TurnChild /\ child'.at = child.at
      /\ call'.at = call.at /\ call'.result = call.result
      /\ call'.phase = call.phase /\ call'.prompts = call.prompts
      /\ call'.attempts = call.attempts /\ call'.directory = call.directory
  <2>1. CASE call' = [call EXCEPT !.failure = "failed"]
    BY <1>1, <2>1, StoppedChild DEF TurnCall
  <2> QED
    BY <1>1, <2>1, FailedCall, StoppedChild
<1>3. bridge' \in TurnBridge /\ bridge'.open = bridge.open
      /\ bridge'.announced = bridge.announced /\ bridge'.received = bridge.received
      /\ bridge'.posted = bridge.posted
  BY <1>1 DEF TurnBridge
<1>4. (Proposed(bridge) => Proposed(bridge')) /\ (Handed(bridge) => Handed(bridge'))
  BY <1>3, SameCounts
<1>5. NativeTypes'
  BY <1>2, <1>3 DEF NativeTypes
<1>6. Prompts(call)'
  BY <1>2 DEF NativeInv, Prompts
<1>7. Left(call, child, bridge)'
  BY <1>2, <1>3 DEF NativeInv, Left
<1>8. Hands(call, bridge)'
  BY <1>1, <1>2, <1>4 DEF NativeInv, Hands
<1> QED
  BY <1>5, <1>6, <1>7, <1>8 DEF NativeInv

LEMMA RejectStep == ASSUME NativeInv, Natives!Reject PROVE NativeInv'
BY Refused DEF Natives!Reject, NativeInv, NativeTypes

\* An announced call is one that no proposal has confirmed yet.
LEMMA AnnounceStep ==
    ASSUME NativeInv, Natives!Running, UNCHANGED vendor, call.result # "calls",
           NEW value \in Values, Natives!Announce(value),
           lines' \in Seq(Natives!Calls \cup Natives!Plain), Len(lines') <= MaxLines
    PROVE  NativeInv'
<1> DEFINE new == [value |-> value, confirmed |-> FALSE]
           g == [bridge EXCEPT !.announced = Append(@, new)]
<1>1. bridge \in TurnBridge /\ call \in TurnCall /\ call.at = "running"
  BY DEF NativeInv, NativeTypes, Natives!Running
<1>2. new \in Announced /\ \A v \in Values : new \notin Sure(v)
  BY DEF Announced, Sure
<1>3. CASE ~(Len(bridge.announced) < MaxCalls)
  BY <1>3, Refused DEF Natives!Announce, Natives!Refuse
<1>4. CASE Len(bridge.announced) < MaxCalls
  <2>1. Natives!Reconcile(g)
    BY <1>4 DEF Natives!Announce
  <2> HIDE DEF new
  <2>2. g \in TurnBridge
    <3>1. bridge.announced \in Seq(Announced)
      BY <1>1 DEF TurnBridge
    <3>2. Append(bridge.announced, new) \in Seq(Announced)
      BY <1>2, <3>1
    <3> QED
      BY <1>1, <3>2 DEF TurnBridge
  <2>3. /\ g.open = bridge.open /\ g.reason = bridge.reason /\ g.posted = bridge.posted
        /\ g.received = bridge.received /\ g.announced = Append(bridge.announced, new)
    BY <1>1 DEF TurnBridge
  <2>4. bridge.announced \in Seq(Announced)
    BY <1>1 DEF TurnBridge
  <2> HIDE DEF g
  <2>5. ASSUME NEW v \in Values
        PROVE  Times(g.announced, Sure(v)) = Times(bridge.announced, Sure(v))
    <3>1. Times(g.announced, Sure(v)) = Times(bridge.announced, Sure(v)) + 0
      BY <1>2, <2>3, <2>4, TimesAppended
    <3>2. Times(bridge.announced, Sure(v)) \in Nat
      BY <2>4, TimesType
    <3> QED
      BY <3>1, <3>2
  <2>6. Proposed(g)
    BY <1>1, <2>3, <2>5 DEF NativeInv, Hands, Proposed
  <2>7. Hands(call, g)
    BY <1>1, <2>6 DEF Hands
  <2> QED
    BY <2>1, <2>2, <2>3, <2>7, ReconcileKeeps
<1> QED
  BY <1>3, <1>4

\* A reply moves the protocol on; the third of codex sends the prompt.
LEMMA ReplyStep ==
    ASSUME NativeInv, Natives!Running, ~Natives!Ready, UNCHANGED <<vendor, child, bridge>>,
           call' = Natives!Replied(call),
           lines' \in Seq(Natives!Calls \cup Natives!Plain), Len(lines') <= MaxLines
    PROVE  NativeInv'
<1>1. call \in TurnCall /\ call.at = "running" /\ Prompts(call)
  BY DEF NativeInv, NativeTypes, Natives!Running
<1>2. call.phase \in 0 .. 3 /\ (vendor # "codex" => call.phase = 0)
  BY <1>1 DEF Natives!Ready, TurnCall, Prompts
<1>3. call.prompts \in 0 .. 1 /\ (vendor = "codex" /\ call.phase = 2 => call.prompts = 0)
  BY <1>1 DEF TurnCall, Prompts
<1>4. call' \in TurnCall
  <2> DEFINE phase == call.phase + 1
             prompts == IF vendor = "codex" /\ call.phase = 2 THEN call.prompts + 1
                        ELSE call.prompts
  <2>1. call' = [call EXCEPT !.phase = phase, !.prompts = prompts]
    BY <1>1 DEF Natives!Replied, TurnCall
  <2>2. phase \in 0 .. 4 /\ prompts \in 0 .. 1
    BY <1>2, <1>3
  <2> HIDE DEF phase, prompts
  <2> QED
    BY <1>1, <2>1, <2>2 DEF TurnCall
<1>5. /\ call'.at = call.at /\ call'.result = call.result /\ call'.phase = call.phase + 1
      /\ call'.attempts = call.attempts /\ call'.directory = call.directory
      /\ call'.prompts = IF vendor = "codex" /\ call.phase = 2 THEN call.prompts + 1
                         ELSE call.prompts
  BY <1>1 DEF Natives!Replied, TurnCall
<1>6. Prompts(call)'
  BY <1>1, <1>2, <1>3, <1>5 DEF Prompts
<1> QED
  BY <1>4, <1>5, <1>6 DEF NativeInv, NativeTypes, Left, Hands

\* The turn has its text, or its calls.
LEMMA ResultStep ==
    ASSUME NativeInv, Natives!Running, UNCHANGED <<vendor, child, bridge>>,
           call.result # "calls", NEW how \in {"text", "calls"},
           how = "calls" => vendor = "codex" /\ Natives!Complete(bridge),
           call' = [call EXCEPT !.result = how],
           lines' \in Seq(Natives!Calls \cup Natives!Plain), Len(lines') <= MaxLines
    PROVE  NativeInv'
<1>1. call \in TurnCall /\ call.at = "running" /\ bridge \in TurnBridge
  BY DEF NativeInv, NativeTypes, Natives!Running
<1>2. call' \in TurnCall
  BY <1>1 DEF TurnCall
<1>3. /\ call'.at = call.at /\ call'.result = how /\ call'.phase = call.phase
      /\ call'.prompts = call.prompts
      /\ call'.attempts = call.attempts /\ call'.directory = call.directory
  BY <1>1 DEF TurnCall
<1>4. Proposed(bridge) /\ (how = "calls" => Handed(bridge))
  BY <1>1, CompleteHands DEF NativeInv, Hands
<1>5. Hands(call, bridge)'
  BY <1>1, <1>3, <1>4 DEF Hands
<1> QED
  BY <1>2, <1>3, <1>5 DEF NativeInv, NativeTypes, Prompts, Left

LEMMA HandleStep == ASSUME NativeInv, Natives!Handle PROVE NativeInv'
<1> DEFINE line == Head(lines)
<1>1. /\ call \in TurnCall /\ child \in TurnChild /\ Natives!Running
      /\ lines # <<>> /\ lines' = Tail(lines) /\ UNCHANGED vendor
      /\ lines \in Seq(Natives!Calls \cup Natives!Plain) /\ Len(lines) <= MaxLines
  BY DEF NativeInv, NativeTypes, Natives!Handle
<1>2. /\ line \in Natives!Calls \cup Natives!Plain
      /\ lines' \in Seq(Natives!Calls \cup Natives!Plain) /\ Len(lines') <= MaxLines
  BY <1>1, ConversationsAssumption DEF ConversationsAssumption
<1>3. line.type = "call" => line.value \in Values
  BY <1>2 DEF Natives!Calls, Natives!Plain
<1>4. call.result = "calls" => vendor = "codex"
  BY <1>1 DEF NativeInv, Hands, Natives!Running
<1> HIDE DEF line
<1>5. CASE Natives!Keep(call)
  BY <1>1, <1>2, <1>5, ProcessMoves DEF Natives!Keep
<1>6. CASE Natives!Refuse
  BY <1>1, <1>2, <1>6, Refused DEF Natives!Refuse
<1>7. CASE ~Natives!Ready /\ Natives!Keep(Natives!Replied(call))
  BY <1>1, <1>2, <1>7, ReplyStep DEF Natives!Keep
<1>8. CASE /\ vendor = "codex" /\ Natives!CodexLine(line)
           /\ ~Natives!Keep(call) /\ ~Natives!Refuse
           /\ ~(~Natives!Ready /\ Natives!Keep(Natives!Replied(call)))
  <2>1. \/ line.type = "call" /\ call.result = "none" /\ Natives!Announce(line.value)
        \/ call.result = "none" /\ Natives!Keep([call EXCEPT !.result = "text"])
        \/ /\ Natives!Complete(bridge) /\ call.result = "none"
           /\ Natives!Keep([call EXCEPT !.result = "calls"])
    BY <1>8 DEF Natives!CodexLine
  <2> QED
    BY <1>1, <1>2, <1>3, <1>8, <2>1, AnnounceStep, ResultStep DEF Natives!Keep
<1>9. CASE /\ vendor # "codex" /\ Natives!ClaudeLine(line)
           /\ ~Natives!Keep(call) /\ ~Natives!Refuse
           /\ ~(~Natives!Ready /\ Natives!Keep(Natives!Replied(call)))
  <2>1. \/ line.type = "call" /\ Natives!Announce(line.value)
        \/ Natives!Keep([call EXCEPT !.result = "text"])
    BY <1>9 DEF Natives!ClaudeLine
  <2> QED
    BY <1>1, <1>2, <1>3, <1>4, <1>9, <2>1, AnnounceStep, ResultStep DEF Natives!Keep
<1> QED
  BY <1>5, <1>6, <1>7, <1>8, <1>9 DEF Natives!Handle, line

LEMMA PreparedStep ==
    ASSUME NativeInv, (\E ok \in BOOLEAN : Natives!Check(ok)) \/ Natives!Spawn
    PROVE  NativeInv'
<1>1. /\ call \in TurnCall /\ child \in TurnChild /\ bridge \in TurnBridge
      /\ Prompts(call) /\ Left(call, child, bridge) /\ Hands(call, bridge)
      /\ lines \in Seq(Natives!Calls \cup Natives!Plain) /\ Len(lines) <= MaxLines
  BY DEF NativeInv, NativeTypes
<1>2. CASE \E ok \in BOOLEAN : Natives!Check(ok)
  <2>1. call.at = "checking" /\ UNCHANGED <<vendor, child, lines>>
    BY <1>2 DEF Natives!Check
  <2>2. CASE call' = [call EXCEPT !.at = "threw"] /\ UNCHANGED bridge
    <3>1. /\ call' \in TurnCall /\ call'.at = "threw" /\ call'.result = call.result
          /\ call'.phase = call.phase /\ call'.prompts = call.prompts
          /\ call'.attempts = call.attempts /\ call'.directory = call.directory
      BY <1>1, <2>2 DEF TurnCall
    <3> QED
      BY <1>1, <2>1, <2>2, <3>1 DEF NativeInv, NativeTypes, Prompts, Left, Hands
  <2>3. CASE /\ call' = [call EXCEPT !.at = "prepared", !.directory = TRUE]
             /\ bridge' = [bridge EXCEPT !.open = TRUE]
    <3>1. call' \in TurnCall
      BY <1>1, <2>3 DEF TurnCall
    <3>2. /\ call'.at = "prepared" /\ call'.result = call.result
          /\ call'.phase = call.phase /\ call'.prompts = call.prompts
          /\ call'.attempts = call.attempts /\ call'.directory
      BY <1>1, <2>3 DEF TurnCall
    <3>3. /\ bridge' \in TurnBridge /\ bridge'.announced = bridge.announced
          /\ bridge'.received = bridge.received /\ bridge'.posted = bridge.posted
      BY <1>1, <2>3 DEF TurnBridge
    <3>4. Proposed(bridge')
      BY <1>1, <2>1, <3>3, SameCounts DEF Hands
    <3>5. call.result = "none"
      BY <1>1, <2>1 DEF Hands
    <3>6. Hands(call, bridge)'
      BY <3>2, <3>4, <3>5 DEF Hands
    <3>7. Left(call, child, bridge)' /\ Prompts(call)'
      BY <1>1, <2>1, <3>2 DEF Left, Prompts
    <3> QED
      BY <1>1, <2>1, <3>1, <3>3, <3>6, <3>7 DEF NativeInv, NativeTypes
  <2> QED
    BY <1>2, <2>2, <2>3 DEF Natives!Check
<1>3. CASE Natives!Spawn
  <2>1. call.at = "prepared" /\ UNCHANGED <<vendor, lines, bridge>>
    BY <1>3 DEF Natives!Spawn
  <2>2. CASE Natives!Leave("threw") /\ UNCHANGED child
    <3>1. call' \in TurnCall
      BY <1>1, <2>2 DEF Natives!Leave, TurnCall
    <3>2. /\ call'.at = "leaving" /\ call'.result = "threw"
          /\ call'.phase = call.phase /\ call'.prompts = call.prompts
          /\ call'.attempts = call.attempts /\ call'.directory = call.directory
      BY <1>1, <2>2 DEF Natives!Leave, TurnCall
    <3> QED
      BY <1>1, <2>1, <2>2, <3>1, <3>2 DEF NativeInv, NativeTypes, Prompts, Left, Hands
  <2>3. CASE /\ call' = [call EXCEPT !.at = "running", !.attempts = @ + 1,
                           !.prompts = @ + (IF vendor = "claude" THEN 1 ELSE 0)]
             /\ child' = [Natives!NoChild EXCEPT !.at = "alive"]
    <3>1. /\ call.attempts \in 0 .. 1 /\ call.prompts \in 0 .. 1
          /\ vendor # "codex" => call.attempts = 0
          /\ vendor = "claude" => call.prompts = 0
      BY <1>1, <2>1 DEF Prompts, TurnCall
    <3>2. call' \in TurnCall
      <4> DEFINE attempts == call.attempts + 1
                 prompts == call.prompts + (IF vendor = "claude" THEN 1 ELSE 0)
      <4>1. call' = [call EXCEPT !.at = "running", !.attempts = attempts, !.prompts = prompts]
        BY <1>1, <2>3 DEF TurnCall
      <4>2. attempts \in 0 .. 2 /\ prompts \in 0 .. 1
        BY <3>1
      <4> HIDE DEF attempts, prompts
      <4> QED
        BY <1>1, <4>1, <4>2 DEF TurnCall
    <3>3. /\ call'.at = "running" /\ call'.result = call.result
          /\ call'.phase = call.phase /\ call'.attempts = call.attempts + 1
          /\ call'.prompts = call.prompts + (IF vendor = "claude" THEN 1 ELSE 0)
          /\ call'.directory = call.directory
      BY <1>1, <2>3 DEF TurnCall
    <3>4. child' \in TurnChild
      BY <2>3 DEF Natives!NoChild, TurnChild
    <3>5. Prompts(call)'
      BY <1>1, <2>1, <3>1, <3>3 DEF Prompts
    <3>6. Left(call, child, bridge)'
      BY <3>3 DEF Left
    <3>7. Hands(call, bridge)'
      BY <1>1, <2>1, <3>3 DEF Hands
    <3> QED
      BY <1>1, <2>1, <3>2, <3>4, <3>5, <3>6, <3>7 DEF NativeInv, NativeTypes
  <2> QED
    BY <1>3, <2>2, <2>3 DEF Natives!Spawn
<1> QED
  BY <1>2, <1>3

\* What the process left is settled: calls were announced and proposed, both.
LEMMA SettleStep == ASSUME NativeInv, Natives!Settle PROVE NativeInv'
<1>1. /\ call \in TurnCall /\ bridge \in TurnBridge
      /\ Prompts(call) /\ Left(call, child, bridge) /\ Hands(call, bridge)
      /\ lines \in Seq(Natives!Calls \cup Natives!Plain) /\ Len(lines) <= MaxLines
      /\ call.at = "running" /\ UNCHANGED <<vendor, lines, bridge>>
  BY DEF NativeInv, NativeTypes, Natives!Settle, Natives!Running
<1>2. child' \in TurnChild /\ child'.at = "none"
  BY DEF Natives!Settle, Natives!NoChild, TurnChild
<1>3. ASSUME NEW how \in {"text", "calls", "threw"}, Natives!Leave(how),
             how = "calls" => Handed(bridge),
             how # "threw" => bridge.reason # "invalid"
      PROVE  NativeInv'
  <2>1. call' \in TurnCall
    BY <1>1, <1>3 DEF Natives!Leave, TurnCall
  <2>2. /\ call'.at = "leaving" /\ call'.result = how
        /\ call'.phase = call.phase /\ call'.prompts = call.prompts
        /\ call'.attempts = call.attempts /\ call'.directory = call.directory
    BY <1>1, <1>3 DEF Natives!Leave, TurnCall
  <2>3. Hands(call, bridge)'
    BY <1>1, <1>3, <2>2 DEF Hands
  <2> QED
    BY <1>1, <1>2, <2>1, <2>2, <2>3 DEF NativeInv, NativeTypes, Prompts, Left
<1>4. CASE Natives!Again /\ ~aborted
  <2>1. call' = [call EXCEPT !.at = "prepared", !.phase = 0] /\ call.phase = 0
        /\ vendor = "codex" /\ call.attempts = 1
    BY <1>4 DEF Natives!Settle, Natives!Again
  <2>2. call' \in TurnCall
    BY <1>1, <2>1 DEF TurnCall
  <2>3. /\ call'.at = "prepared" /\ call'.result = call.result
        /\ call'.phase = call.phase /\ call'.prompts = call.prompts
        /\ call'.attempts = call.attempts /\ call'.directory = call.directory
    BY <1>1, <2>1 DEF TurnCall
  <2>4. Hands(call, bridge)'
    BY <1>1, <2>3 DEF Hands
  <2> QED
    BY <1>1, <1>2, <2>1, <2>2, <2>3, <2>4 DEF NativeInv, NativeTypes, Prompts, Left
<1>5. CASE Natives!Again /\ aborted
  BY <1>3, <1>5 DEF Natives!Settle
<1>6. CASE ~Natives!Again
  <2>1. Natives!Leave(Natives!Outcome)
    BY <1>6 DEF Natives!Settle
  <2>2. CASE ~aborted /\ vendor = "claude" /\ call.failure = "proposed"
    <3>1. call.result # "calls" /\ Proposed(bridge)
      BY <1>1, <2>2 DEF Hands
    <3>2. Natives!Outcome = IF Natives!Complete(bridge) /\ bridge.reason = "proposed"
                            THEN "calls" ELSE "threw"
      BY <2>2 DEF Natives!Outcome
    <3>3. Natives!Outcome = "calls" => Handed(bridge) /\ bridge.reason # "invalid"
      BY <1>1, <3>1, <3>2, CompleteHands
    <3> QED
      BY <1>3, <2>1, <3>2, <3>3
  <2>3. CASE /\ ~(~aborted /\ vendor = "claude" /\ call.failure = "proposed")
             /\ ~aborted /\ call.failure = "none" /\ child.code = "ok"
             /\ bridge.reason = "none" /\ call.result # "none"
    <3>1. Natives!Outcome = call.result
      BY <2>3 DEF Natives!Outcome
    <3>2. call.result \in {"text", "calls", "threw"}
      BY <1>1, <2>3 DEF TurnCall
    <3>3. call.result = "calls" => Handed(bridge)
      BY <1>1 DEF Hands
    <3> QED
      BY <1>3, <2>1, <2>3, <3>1, <3>2, <3>3
  <2>4. CASE /\ ~(~aborted /\ vendor = "claude" /\ call.failure = "proposed")
             /\ ~(/\ ~aborted /\ call.failure = "none" /\ child.code = "ok"
                  /\ bridge.reason = "none" /\ call.result # "none")
    <3>1. Natives!Outcome = "threw"
      BY <2>4 DEF Natives!Outcome
    <3> QED
      BY <1>3, <2>1, <3>1
  <2> QED
    BY <2>2, <2>3, <2>4
<1> QED
  BY <1>4, <1>5, <1>6

LEMMA LeavingStep ==
    ASSUME NativeInv, Natives!CloseBridge \/ Natives!Finish
    PROVE  NativeInv'
<1>1. /\ call \in TurnCall /\ bridge \in TurnBridge /\ child \in TurnChild
      /\ Prompts(call) /\ Left(call, child, bridge) /\ Hands(call, bridge)
      /\ lines \in Seq(Natives!Calls \cup Natives!Plain) /\ Len(lines) <= MaxLines
      /\ call.at = "leaving" /\ UNCHANGED <<vendor, child, lines>>
  BY DEF NativeInv, NativeTypes, Natives!CloseBridge, Natives!Finish
<1>2. CASE Natives!CloseBridge
  <2>1. /\ bridge' \in TurnBridge /\ bridge'.announced = bridge.announced
        /\ bridge'.received = bridge.received /\ bridge'.posted = bridge.posted
        /\ ~bridge'.open /\ bridge'.reason = bridge.reason /\ call' = call
    BY <1>1, <1>2 DEF Natives!CloseBridge, TurnBridge
  <2>2. Handed(bridge) => Handed(bridge')
    BY <2>1, SameCounts
  <2>3. Hands(call, bridge)'
    BY <1>1, <2>1, <2>2 DEF Hands
  <2> QED
    BY <1>1, <2>1, <2>3 DEF NativeInv, NativeTypes, Prompts, Left
<1>3. CASE Natives!Finish
  <2>1. call' \in TurnCall /\ bridge' = bridge
    BY <1>1, <1>3 DEF Natives!Finish, TurnCall
  <2>2. /\ call'.at = IF call'.directory \/ call.result = "threw" THEN "threw" ELSE "returned"
        /\ call'.result = call.result
        /\ call'.phase = call.phase /\ call'.prompts = call.prompts
        /\ call'.attempts = call.attempts /\ ~bridge.open
    BY <1>1, <1>3 DEF Natives!Finish, TurnCall
  <2>3. Hands(call, bridge)'
    BY <1>1, <2>1, <2>2 DEF Hands
  <2> QED
    BY <1>1, <2>1, <2>2, <2>3 DEF NativeInv, NativeTypes, Prompts, Left
<1> QED
  BY <1>2, <1>3

LEMMA NativeNext == ASSUME NativeInv, Natives!Next PROVE NativeInv'
BY PreparedStep, ProcessSteps, RejectStep, ProposeStep, HandleStep, SettleStep, LeavingStep
   DEF Natives!Next

\* A native turn hands over the calls its process both announced and proposed, each as
\* often as the other, sends its prompt to one process, and leaves no process, bridge or
\* directory (src/src/providers/local-cli.ts, codex-app-server.ts).
THEOREM ProposedCallsOnly == ConversationsSpec => []CallsAreProposed
<1>1. ConversationsInit => NativeInv
  BY NativeBegins, ConversationsAssumption DEF ConversationsInit
<1>2. NativeInv /\ [ConversationsNext]_<<part, vars, contextVars, indexVars, feedVars,
                                         catalogVars, streamVars, nativeVars>> => NativeInv'
  BY NativeNext, NativeRests DEF ConversationsNext
<1>3. NativeInv => CallsAreProposed
  <2> SUFFICES ASSUME NativeInv PROVE CallsAreProposed
    OBVIOUS
  <2>1. call \in TurnCall /\ child \in TurnChild /\ bridge \in TurnBridge
    BY DEF NativeInv, NativeTypes
  <2>2. Natives!TypeOK
    BY <2>1 DEF NativeInv, NativeTypes, Natives!TypeOK, TurnCall, TurnChild, TurnBridge
  <2>3. Natives!CallsAreProposed
    <3>1. call.at = "returned" => bridge.reason # "invalid"
      BY DEF NativeInv, Hands
    <3>2. call.result = "calls" => Handed(bridge)
      BY DEF NativeInv, Hands
    <3> QED
      BY <2>1, <3>1, <3>2, HandedCounts DEF Natives!CallsAreProposed, Handed
  <2>4. Natives!PromptedOnce
    BY <2>1 DEF Natives!PromptedOnce, TurnCall
  <2>5. Natives!NothingIsLeft
    BY DEF NativeInv, Left, Natives!NothingIsLeft, Natives!Over
  <2> QED
    BY <2>2, <2>3, <2>4, <2>5 DEF CallsAreProposed
<1> QED
  BY <1>1, <1>2, <1>3, PTL DEF ConversationsSpec

=============================================================================
