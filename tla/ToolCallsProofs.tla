-------------------------- MODULE ToolCallsProofs ---------------------------
(***************************************************************************)
(* Proofs about ToolCalls: no tool acts that was not approved, no effect   *)
(* is denied, the two managers keep entries of waiting runs only, and the  *)
(* activity clock runs when it must.                                       *)
(***************************************************************************)
EXTENDS ToolCalls, TLAPS

-----------------------------------------------------------------------------
(* The invariant, of one run: its record, and whether the managers hold an
   entry of it. *)

\* A pending review is of a run that waits for it and has heard nothing.
ReviewInv(rn, reviewed) ==
    reviewed => /\ rn.at = "reviewing" /\ rn.finished = "none" /\ rn.told = "none"
                /\ ~rn.delivered

\* A ticket is of a run that executes, not aborted, an application's tool.
TicketInv(rn, ticketed) ==
    ticketed => /\ rn.at = "executing" /\ rn.result = "none"
                /\ rn.application /\ ~rn.aborted

\* Before its review a run was told nothing, before it executes it has no result;
\* past its review it was told the outcome;
\* what the reviewer was told is that.
OutcomeInv(rn) ==
    /\ rn.at = "called" => rn.finished = "none" /\ rn.told = "none"
    /\ rn.at \in {"called", "reviewing", "resolved"} => rn.result = "none"
    /\ rn.at = "resolved" => rn.told = rn.finished /\ rn.told # "none"
    /\ rn.receipt # "none" => rn.told = rn.receipt

\* A tool that may act was approved, and until the run says that it completed its
\* outcome is pending.
EffectInv(rn) ==
    rn.delivered =>
        /\ rn.at \in {"executing", "done", "failed", "ended"} /\ rn.told = "approved"
        /\ rn.at = "ended" => rn.answer \in {"completed", "uncertain"}
        /\ rn.at # "ended" => rn.pending \/ rn.answer = "completed"

\* The clock stands while a review is open and pauses it; it runs until then, and
\* from then on if the tool may run.
ClockInv(rn, reviewed) ==
    /\ reviewed /\ rn.pauses => ~rn.clock
    /\ /\ rn.limited /\ ~rn.aborted
       /\ \/ rn.at = "called"
          \/ /\ rn.at \in {"reviewing", "resolved", "executing"}
             /\ ~rn.pauses \/ rn.told = "approved"
       => rn.clock

RunInv(rn, reviewed, ticketed) ==
    /\ rn \in Run /\ rn.told \in {"unaudited", rn.finished}
    /\ ReviewInv(rn, reviewed) /\ TicketInv(rn, ticketed)
    /\ OutcomeInv(rn) /\ EffectInv(rn) /\ ClockInv(rn, reviewed)

Inv ==
    /\ reviews \subseteq Runs /\ tickets \subseteq Runs
    /\ run \in [Runs -> Run]
    /\ \A r \in Runs : RunInv(run[r], r \in reviews, r \in tickets)

\* The fields the invariant speaks of, the Boolean ones among a run's fields, and that
\* new differs from rn in those of changed only.
Fields == {"at", "application", "pauses", "limited", "aborted", "finished", "told", "clock",
           "delivered", "result", "pending", "receipt", "answer"}
Flags == {"aborted", "clock", "delivered", "pending", "due", "acted"}
Differs(new, rn, changed) ==
    new \in Run /\ \A f \in Fields \ changed : new[f] = rn[f]

-----------------------------------------------------------------------------
(* Steps of one run *)

\* Setting a Boolean field of a run leaves a run, and the other fields alone.
LEMMA FlagSet ==
    ASSUME NEW rn \in Run, NEW f \in Flags, NEW b \in BOOLEAN,
           NEW new, new = [rn EXCEPT ![f] = b]
    PROVE  Differs(new, rn, {f}) /\ new[f] = b
<1>1. new \in Run
  BY DEF Flags, Run
<1>2. new[f] = b /\ \A g \in Fields \ {f} : new[g] = rn[g]
  BY DEF Flags, Run, Fields
<1> QED
  BY <1>1, <1>2 DEF Differs

\* So does moving it to another place.
LEMMA PlaceSet ==
    ASSUME NEW rn \in Run, NEW place \in Places, NEW new, new = [rn EXCEPT !.at = place]
    PROVE  Differs(new, rn, {"at"}) /\ new.at = place
BY DEF Run, Fields, Differs

\* A step that changes one run and its entries only is judged by what it makes
\* of that run.
LEMMA OneRunMoves ==
    ASSUME Inv, NEW r \in Runs, NEW rn,
           run' = [run EXCEPT ![r] = rn],
           reviews' \in {reviews, reviews \cup {r}, reviews \ {r}},
           tickets' \in {tickets, tickets \cup {r}, tickets \ {r}},
           RunInv(rn, r \in reviews', r \in tickets')
    PROVE  Inv'
<1>1. rn \in Run
  BY DEF RunInv
<1>2. /\ reviews' \subseteq Runs /\ tickets' \subseteq Runs
      /\ run' \in [Runs -> Run]
  BY <1>1 DEF Inv
<1>3. ASSUME NEW q \in Runs PROVE RunInv(run'[q], q \in reviews', q \in tickets')
  <2>1. CASE q = r
    BY <2>1 DEF Inv
  <2>2. CASE q # r
    <3>1. run'[q] = run[q] /\ (q \in reviews' <=> q \in reviews)
          /\ (q \in tickets' <=> q \in tickets)
      BY <2>2
    <3>2. RunInv(run[q], q \in reviews, q \in tickets)
      BY DEF Inv
    <3> QED
      BY <3>1, <3>2 DEF RunInv, ReviewInv, TicketInv, OutcomeInv, EffectInv, ClockInv
  <2> QED
    BY <2>1, <2>2
<1> QED
  BY <1>2, <1>3 DEF Inv

\* The same, for a run that neither manager holds an entry of afterwards.
LEMMA FreeRunMoves ==
    ASSUME Inv, NEW r \in Runs, NEW rn,
           run' = [run EXCEPT ![r] = rn],
           reviews' \in {reviews, reviews \ {r}}, tickets' \in {tickets, tickets \ {r}},
           r \notin reviews', r \notin tickets',
           RunInv(rn, FALSE, FALSE)
    PROVE  Inv'
<1>1. RunInv(rn, r \in reviews', r \in tickets')
  BY DEF RunInv, ReviewInv, TicketInv, ClockInv
<1> QED
  BY <1>1, OneRunMoves

\* What finish makes of a run under review: it is told the outcome, or that the
\* audit failed, and its clock goes on if the tool may run.
LEMMA FinishedRun ==
    ASSUME NEW rn \in Run, NEW outcome \in Outcomes, NEW ok \in BOOLEAN,
           NEW done, done = Finished(rn, outcome, ok)
    PROVE  /\ done \in Run
           /\ done.finished = outcome
           /\ done.told = IF ok THEN outcome ELSE "unaudited"
           /\ done.clock = IF rn.pauses /\ ok /\ outcome = "approved"
                           THEN rn.limited /\ ~rn.aborted ELSE rn.clock
           /\ done.at = rn.at /\ done.delivered = rn.delivered
           /\ done.receipt = rn.receipt /\ done.limited = rn.limited
           /\ done.result = rn.result
           /\ done.aborted = rn.aborted /\ done.pauses = rn.pauses
<1> DEFINE first == [rn EXCEPT !.finished = outcome]
           settled == [first EXCEPT !.told = Audited(first, ok)]
<1>1. /\ first \in Run /\ Audited(first, ok) = IF ok THEN outcome ELSE "unaudited"
      /\ first.at = rn.at /\ first.delivered = rn.delivered
      /\ first.result = rn.result /\ first.receipt = rn.receipt /\ first.limited = rn.limited
      /\ first.aborted = rn.aborted /\ first.pauses = rn.pauses
      /\ first.clock = rn.clock /\ first.finished = outcome
  BY DEF Audited, Run
<1> HIDE DEF first
<1>2. /\ settled \in Run /\ settled.told = IF ok THEN outcome ELSE "unaudited"
      /\ settled.at = rn.at /\ settled.delivered = rn.delivered
      /\ settled.result = rn.result /\ settled.receipt = rn.receipt /\ settled.limited = rn.limited
      /\ settled.aborted = rn.aborted /\ settled.pauses = rn.pauses
      /\ settled.clock = rn.clock /\ settled.finished = outcome
  BY <1>1 DEF Run
<1>3. done = IF rn.pauses /\ settled.told = "approved" THEN Active(settled) ELSE settled
  BY DEF Finished, first
<1> HIDE DEF settled
<1>4. CASE rn.pauses /\ settled.told = "approved"
  <2>1. done = [settled EXCEPT !.clock = settled.limited /\ ~settled.aborted]
    BY <1>3, <1>4 DEF Active
  <2>2. ok /\ outcome = "approved"
    BY <1>2, <1>4
  <2>3. /\ done \in Run /\ done.clock = (settled.limited /\ ~settled.aborted)
        /\ \A f \in {"finished", "told", "at", "delivered", "receipt", "limited",
                     "aborted", "pauses", "result"} : done[f] = settled[f]
    BY <1>2, <2>1 DEF Run
  <2> QED
    BY <1>2, <1>4, <2>2, <2>3
<1>5. CASE ~(rn.pauses /\ settled.told = "approved")
  BY <1>2, <1>3, <1>5
<1> QED
  BY <1>4, <1>5

\* The end of a review keeps the invariant of its run, whatever the outcome, and
\* whether the run is aborted with it or not.
LEMMA ReviewEndsWell ==
    ASSUME NEW rn, RunInv(rn, TRUE, FALSE), NEW outcome \in Outcomes, NEW ok \in BOOLEAN,
           NEW stopped \in {rn, [rn EXCEPT !.aborted = TRUE, !.clock = FALSE]}
    PROVE  /\ RunInv(Finished(stopped, outcome, ok), FALSE, FALSE)
           /\ Finished(stopped, outcome, ok).finished = outcome
           /\ ok => Finished(stopped, outcome, ok).told = outcome
<1>1. rn \in Run /\ stopped \in Run
  BY DEF RunInv, Run
<1>2. /\ stopped.at = "reviewing" /\ ~stopped.delivered /\ stopped.receipt = "none"
      /\ stopped.result = "none"
      /\ stopped.limited /\ ~stopped.aborted /\ ~stopped.pauses => stopped.clock
  <2>1. /\ rn.at = "reviewing" /\ ~rn.delivered /\ rn.receipt = "none"
        /\ rn.result = "none"
        /\ rn.limited /\ ~rn.aborted /\ ~rn.pauses => rn.clock
    BY DEF RunInv, ReviewInv, OutcomeInv, ClockInv
  <2>2. CASE stopped = rn
    BY <2>1, <2>2
  <2>3. CASE stopped = [rn EXCEPT !.aborted = TRUE, !.clock = FALSE]
    BY <1>1, <2>1, <2>3 DEF Run
  <2> QED
    BY <2>2, <2>3
<1> DEFINE done == Finished(stopped, outcome, ok)
<1>3. /\ done \in Run /\ done.at = "reviewing" /\ ~done.delivered
      /\ done.receipt = "none" /\ done.finished = outcome /\ done.result = "none"
      /\ done.told = IF ok THEN outcome ELSE "unaudited"
      /\ done.clock = IF stopped.pauses /\ ok /\ outcome = "approved"
                      THEN stopped.limited /\ ~stopped.aborted ELSE stopped.clock
      /\ done.limited = stopped.limited
      /\ done.aborted = stopped.aborted /\ done.pauses = stopped.pauses
  BY <1>1, <1>2, FinishedRun
<1> HIDE DEF done
<1>4. RunInv(done, FALSE, FALSE)
  BY <1>2, <1>3 DEF RunInv, ReviewInv, TicketInv, OutcomeInv, EffectInv, ClockInv, Outcomes
<1>5. done.finished = outcome /\ (ok => done.told = outcome)
  BY <1>3
<1> QED
  BY <1>4, <1>5 DEF done

\* The abort listeners keep the invariant of the run, whichever manager waits.
LEMMA AbortedWell ==
    ASSUME Inv, NEW r \in Runs, ~run[r].aborted, NEW ok \in BOOLEAN
    PROVE  RunInv(Aborted(r, run[r], ok), FALSE, FALSE)
<1> DEFINE rn == run[r]
           stopped == [rn EXCEPT !.aborted = TRUE, !.clock = FALSE]
<1>1. RunInv(rn, r \in reviews, r \in tickets) /\ rn \in Run
  BY DEF Inv
<1>2. Differs(stopped, rn, {"aborted", "clock"}) /\ stopped.aborted /\ ~stopped.clock
  BY <1>1 DEF Differs, Fields, Run
<1>3. CASE r \in reviews
  <2>1. RunInv(rn, TRUE, FALSE)
    BY <1>1, <1>3 DEF RunInv, ReviewInv, TicketInv, ClockInv
  <2>2. Aborted(r, rn, ok) = Finished(stopped, "cancelled", ok)
    BY <1>3 DEF Aborted
  <2>3. "cancelled" \in Outcomes /\ stopped \in {rn, [rn EXCEPT !.aborted = TRUE, !.clock = FALSE]}
    BY DEF Outcomes
  <2> HIDE DEF stopped, rn
  <2>4. RunInv(Finished(stopped, "cancelled", ok), FALSE, FALSE)
    BY ONLY <2>1, <2>3, ok \in BOOLEAN, ReviewEndsWell
  <2> QED
    BY <2>2, <2>4 DEF rn
<1>4. CASE r \notin reviews /\ r \in tickets
  <2> DEFINE lost == [stopped EXCEPT !.result = "lost"]
  <2>1. Aborted(r, rn, ok) = lost
    BY <1>4 DEF Aborted, Settled
  <2> HIDE DEF stopped
  <2>2. Differs(lost, stopped, {"result"})
    BY <1>2 DEF Differs, Fields, Run, Results
  <2> HIDE DEF lost
  <2>3. RunInv(lost, FALSE, FALSE)
    BY <1>1, <1>2, <1>4, <2>2
       DEF Differs, Fields, RunInv, ReviewInv, TicketInv, OutcomeInv, EffectInv, ClockInv
  <2> QED
    BY <2>1, <2>3
<1>5. CASE r \notin reviews /\ r \notin tickets
  <2>1. Aborted(r, rn, ok) = stopped
    BY <1>5 DEF Aborted
  <2> HIDE DEF stopped
  <2>2. RunInv(stopped, FALSE, FALSE)
    BY <1>1, <1>2, <1>5
       DEF Differs, Fields, RunInv, ReviewInv, TicketInv, OutcomeInv, EffectInv, ClockInv
  <2> QED
    BY <2>1, <2>2
<1> QED
  BY <1>3, <1>4, <1>5

\* Every step of a run keeps the invariant.
LEMMA RunStep ==
    ASSUME Inv, NEW r \in Runs,
           \/ RequestReview(r) \/ Lapse(r) \/ Expire(r) \/ Resolve(r)
           \/ \E outcome \in {"approved", "denied", "cancelled"} : Decide(r, outcome)
           \/ Execute(r) \/ Refuse(r) \/ Act(r) \/ Return(r) \/ Complete(r)
           \/ Complied(r) \/ Fail(r) \/ Finish(r) \/ Stop(r)
    PROVE  Inv'
<1> DEFINE rn == run[r]
<1> USE DEF ReviewInv, TicketInv, OutcomeInv, EffectInv, ClockInv
<1>0. /\ RunInv(rn, r \in reviews, r \in tickets) /\ rn \in Run
      /\ run \in [Runs -> Run]
  BY DEF Inv
<1>1. CASE RequestReview(r)
  <2>1. r \notin reviews /\ r \notin tickets
    BY <1>0, <1>1 DEF RequestReview, RunInv
  <2>2. CASE reviews' = reviews \cup {r}
    <3> DEFINE clock == rn.clock /\ ~rn.pauses
               one == [rn EXCEPT !.at = "reviewing"]
               new == [one EXCEPT !.clock = clock]
    <3>1. run' = [run EXCEPT ![r] = new] /\ tickets' = tickets
      BY <1>0, <1>1, <2>1, <2>2 DEF RequestReview
    <3>2. Differs(one, rn, {"at"}) /\ one.at = "reviewing"
      BY <1>0, PlaceSet DEF Places
    <3>3. clock \in BOOLEAN /\ (clock <=> rn.clock /\ ~rn.pauses)
      OBVIOUS
    <3> HIDE DEF one, clock
    <3>4. Differs(new, one, {"clock"}) /\ new.clock = clock
      BY <3>2, <3>3, FlagSet DEF Differs, Flags
    <3> HIDE DEF new
    <3>5. /\ Differs(new, rn, {"at", "clock"}) /\ new.at = "reviewing"
          /\ new.clock <=> rn.clock /\ ~rn.pauses
      BY <3>2, <3>3, <3>4 DEF Differs, Fields
    <3>6. rn.at = "called" /\ ~rn.aborted /\ r \in reviews' /\ r \notin tickets'
      BY <1>1, <2>1, <2>2, <3>1 DEF RequestReview
    <3>7. RunInv(new, r \in reviews', r \in tickets')
      BY <1>0, <2>1, <3>5, <3>6 DEF RunInv, Differs, Fields
    <3> QED
      BY <2>2, <3>1, <3>7, OneRunMoves
  <2>3. CASE reviews' = reviews
    <3> DEFINE new == [rn EXCEPT !.at = "failed"]
    <3>1. run' = [run EXCEPT ![r] = new] /\ tickets' = tickets
      BY <1>0, <1>1, <2>1, <2>3 DEF RequestReview
    <3>2. Differs(new, rn, {"at"}) /\ new.at = "failed"
      BY <1>0 DEF Differs, Fields, Run, Places
    <3> HIDE DEF new
    <3>3. RunInv(new, FALSE, FALSE)
      BY <1>0, <1>1, <2>1, <3>2 DEF RequestReview, RunInv, Differs, Fields
    <3> QED
      BY <2>1, <2>3, <3>1, <3>3, FreeRunMoves
  <2> QED
    BY <1>1, <2>2, <2>3 DEF RequestReview
<1>2. CASE Lapse(r)
  <2> DEFINE new == [rn EXCEPT !.due = TRUE]
  <2>1. run' = [run EXCEPT ![r] = new] /\ UNCHANGED <<reviews, tickets>>
    BY <1>0, <1>2 DEF Lapse
  <2>2. Differs(new, rn, {})
    BY <1>0 DEF Differs, Fields, Run, Places
  <2> HIDE DEF new
  <2>3. RunInv(new, r \in reviews, r \in tickets)
    BY <1>0, <2>2 DEF RunInv, Differs, Fields
  <2> QED
    BY <2>1, <2>3, OneRunMoves
<1>3. CASE Expire(r)
  <2>1. RunInv(rn, TRUE, FALSE) /\ r \notin tickets
    BY <1>0, <1>3 DEF Expire, RunInv
  <2>2. PICK ok \in BOOLEAN : run' = [run EXCEPT ![r] = Finished(rn, "expired", ok)]
    BY <1>3 DEF Expire
  <2>3. RunInv(Finished(rn, "expired", ok), FALSE, FALSE)
    BY <2>1, ReviewEndsWell DEF Outcomes
  <2>4. reviews' = reviews \ {r} /\ tickets' = tickets
    BY <1>3 DEF Expire
  <2> HIDE DEF rn
  <2> QED
    BY <2>1, <2>2, <2>3, <2>4, FreeRunMoves
<1>4. CASE Resolve(r)
  <2> DEFINE new == [rn EXCEPT !.at = IF rn.told = "unaudited" THEN "failed" ELSE "resolved"]
  <2>1. run' = [run EXCEPT ![r] = new] /\ UNCHANGED <<reviews, tickets>>
    BY <1>0, <1>4 DEF Resolve
  <2>2. Differs(new, rn, {"at"})
        /\ new.at = IF rn.told = "unaudited" THEN "failed" ELSE "resolved"
    BY <1>0 DEF Differs, Fields, Run, Places
  <2> HIDE DEF new
  <2>3. RunInv(new, r \in reviews, r \in tickets)
    BY <1>0, <1>4, <2>2 DEF Resolve, RunInv, Differs, Fields
  <2> QED
    BY <2>1, <2>3, OneRunMoves
<1>5. ASSUME NEW outcome \in {"approved", "denied", "cancelled"}, Decide(r, outcome)
      PROVE  Inv'
  <2>1. RunInv(rn, TRUE, FALSE) /\ r \notin tickets
    BY <1>0, <1>5 DEF Decide, RunInv
  <2>2. PICK ok \in BOOLEAN :
           run' = [run EXCEPT ![r] =
                     [Finished(rn, Decided(r, outcome), ok) EXCEPT
                         !.receipt = IF ok /\ Decided(r, outcome) = outcome
                                     THEN outcome ELSE "none"]]
    BY <1>5 DEF Decide
  <2> DEFINE done == Finished(rn, Decided(r, outcome), ok)
             receipt == IF ok /\ Decided(r, outcome) = outcome THEN outcome ELSE "none"
  <2>3. Decided(r, outcome) \in Outcomes
    BY DEF Decided, Outcomes
  <2>4. RunInv(done, FALSE, FALSE) /\ (ok => done.told = Decided(r, outcome))
    BY <2>1, <2>3, ReviewEndsWell
  <2>5. reviews' = reviews \ {r} /\ tickets' = tickets
    BY <1>5 DEF Decide
  <2>6. run' = [run EXCEPT ![r] = [done EXCEPT !.receipt = receipt]]
    BY <2>2
  <2>7. receipt \in Outcomes \cup {"none"} /\ (receipt # "none" => done.told = receipt)
    BY <2>3, <2>4
  <2> HIDE DEF done, receipt
  <2>8. RunInv([done EXCEPT !.receipt = receipt], FALSE, FALSE)
    BY <2>4, <2>7 DEF RunInv, Run
  <2> HIDE DEF rn
  <2> QED
    BY <2>1, <2>5, <2>6, <2>8, FreeRunMoves
<1>6. CASE Execute(r)
  <2> DEFINE new == [rn EXCEPT !.at = "executing", !.pending = TRUE, !.delivered = TRUE]
  <2>1. run' = [run EXCEPT ![r] = new] /\ UNCHANGED reviews
        /\ tickets' = IF rn.application THEN tickets \cup {r} ELSE tickets
    BY <1>0, <1>6 DEF Execute, Requested
  <2>2. Differs(new, rn, {"at", "pending", "delivered"}) /\ new.at = "executing"
        /\ new.pending /\ new.delivered
    BY <1>0 DEF Differs, Fields, Run, Places
  <2> HIDE DEF new
  <2>3. RunInv(new, r \in reviews, r \in tickets')
    <3>1. /\ rn.at = "resolved" /\ rn.told = "approved" /\ ~rn.aborted /\ rn.result = "none"
          /\ r \notin reviews /\ r \notin tickets
      BY <1>0, <1>6 DEF Execute, Requested, Cleared, RunInv
    <3>2. r \in tickets' => rn.application
      BY <2>1, <3>1
    <3> QED
      BY <1>0, <3>1, <3>2, <2>2 DEF RunInv, Differs, Fields
  <2> QED
    BY <2>1, <2>3, OneRunMoves
<1>7. CASE Refuse(r)
  <2> DEFINE aborted == rn.aborted \/ rn.finished = "cancelled"
             clock == rn.clock /\ rn.finished # "cancelled"
             one == [rn EXCEPT !.at = "failed"]
             two == [one EXCEPT !.aborted = aborted]
             new == [two EXCEPT !.clock = clock]
  <2>1. run' = [run EXCEPT ![r] = new] /\ UNCHANGED <<reviews, tickets>>
    BY <1>0, <1>7 DEF Refuse
  <2>2. Differs(one, rn, {"at"}) /\ one.at = "failed"
    BY <1>0, PlaceSet DEF Places
  <2>3. aborted \in BOOLEAN /\ clock \in BOOLEAN
    OBVIOUS
  <2> HIDE DEF one, aborted, clock
  <2>4. Differs(two, one, {"aborted"})
    BY <2>2, <2>3, FlagSet DEF Differs, Flags
  <2> HIDE DEF two
  <2>5. Differs(new, two, {"clock"})
    BY <2>3, <2>4, FlagSet DEF Differs, Flags
  <2> HIDE DEF new
  <2>6. Differs(new, rn, {"at", "aborted", "clock"}) /\ new.at = "failed"
    BY <2>2, <2>4, <2>5 DEF Differs, Fields
  <2>7. RunInv(new, r \in reviews, r \in tickets)
    BY <1>0, <1>7, <2>6 DEF Refuse, RunInv, Differs, Fields
  <2> QED
    BY <2>1, <2>7, OneRunMoves
<1>8. CASE Act(r)
  <2> DEFINE new == [rn EXCEPT !.acted = TRUE]
  <2>1. run' = [run EXCEPT ![r] = new] /\ UNCHANGED <<reviews, tickets>>
    BY <1>0, <1>8 DEF Act
  <2>2. Differs(new, rn, {})
    BY <1>0 DEF Differs, Fields, Run, Places
  <2> HIDE DEF new
  <2>3. RunInv(new, r \in reviews, r \in tickets)
    BY <1>0, <2>2 DEF RunInv, Differs, Fields
  <2> QED
    BY <2>1, <2>3, OneRunMoves
<1>9. CASE Return(r) \/ Complete(r)
  <2>1. PICK result \in {"output", "error"}, accepted \in {"none", "output", "error"} :
           run' = [run EXCEPT ![r] = [Settled(rn, result) EXCEPT !.accepted = accepted]]
    <3>1. CASE Return(r)
      <4>1. PICK result \in {"output", "error"} : run' = [run EXCEPT ![r] = Settled(rn, result)]
        BY <3>1 DEF Return
      <4>2. /\ rn.accepted \in {"none", "output", "error"}
            /\ [Settled(rn, result) EXCEPT !.accepted = rn.accepted] = Settled(rn, result)
        BY <1>0 DEF Settled, Active, Run
      <4> QED
        BY <4>1, <4>2
    <3>2. CASE Complete(r)
      BY <1>0, <3>2 DEF Complete
    <3> QED
      BY <1>9, <3>1, <3>2
  <2> DEFINE new == [Settled(rn, result) EXCEPT !.accepted = accepted]
  <2>2. rn.at = "executing" /\ ~rn.aborted /\ r \notin tickets' /\ r \notin reviews
        /\ UNCHANGED reviews /\ tickets' \in {tickets, tickets \ {r}}
    BY <1>0, <1>9 DEF Return, Complete, RunInv
  <2>3. /\ Differs(new, rn, {"result", "clock"})
        /\ rn.limited /\ ~rn.aborted => (new.clock <=> rn.clock) \/ new.clock
    <3> DEFINE one == [rn EXCEPT !.result = result]
               two == Settled(rn, result)
    <3>1. Differs(one, rn, {"result"})
      BY <1>0 DEF Differs, Fields, Run, Results
    <3>2. two = one \/ two = [one EXCEPT !.clock = one.limited /\ ~one.aborted]
      BY DEF Settled, Active
    <3> HIDE DEF one
    <3>3. one.limited \in BOOLEAN /\ one.aborted \in BOOLEAN
      BY <3>1 DEF Differs, Run
    <3> DEFINE clock == one.limited /\ ~one.aborted
    <3>4. clock \in BOOLEAN /\ (clock <=> one.limited /\ ~one.aborted)
      OBVIOUS
    <3>5. two = one \/ two = [one EXCEPT !.clock = clock]
      BY <3>2
    <3> HIDE DEF two, clock
    <3>6. /\ Differs(two, one, {"clock"})
          /\ two.clock = one.clock \/ two.clock = clock
      <4>1. one \in Run /\ "clock" \in Flags
        BY <3>1 DEF Differs, Flags
      <4>2. CASE two = one
        BY <3>1, <4>2 DEF Differs
      <4>3. CASE two = [one EXCEPT !.clock = clock]
        BY <3>4, <4>1, <4>3, FlagSet
      <4> QED
        BY <3>5, <4>2, <4>3
    <3>7. new = [two EXCEPT !.accepted = accepted]
      BY DEF two
    <3> HIDE DEF new
    <3>8. Differs(new, two, {})
      BY <3>6, <3>7 DEF Differs, Fields, Run
    <3> QED
      BY <3>1, <3>4, <3>6, <3>8 DEF Differs, Fields
  <2>4. RunInv(new, FALSE, FALSE)
    <3> HIDE DEF new
    <3> QED
      BY <1>0, <2>2, <2>3 DEF RunInv, Differs, Fields
  <2>5. run' = [run EXCEPT ![r] = new]
    BY <2>1
  <2> HIDE DEF new
  <2> QED
    BY <2>2, <2>4, <2>5, FreeRunMoves
<1>10. CASE Complied(r)
  <2> DEFINE zero == [rn EXCEPT !.at = "done"]
             one == [zero EXCEPT !.pending = FALSE]
             new == [one EXCEPT !.answer = "completed"]
  <2>1. run' = [run EXCEPT ![r] = new] /\ UNCHANGED <<reviews, tickets>>
    BY <1>0, <1>10 DEF Complied
  <2>2. Differs(one, rn, {"at", "pending"}) /\ one.at = "done"
    <3>1. Differs(zero, rn, {"at"}) /\ zero.at = "done"
      BY <1>0, PlaceSet DEF Places
    <3> HIDE DEF zero
    <3>2. Differs(one, zero, {"pending"})
      BY <3>1, FlagSet DEF Differs, Flags
    <3> HIDE DEF one
    <3> QED
      BY <3>1, <3>2 DEF Differs, Fields
  <2> HIDE DEF one
  <2>3. Differs(new, one, {"answer"}) /\ new.answer = "completed"
    BY <2>2 DEF Differs, Fields, Run
  <2> HIDE DEF new
  <2>4. RunInv(new, r \in reviews, r \in tickets)
    BY <1>0, <1>10, <2>2, <2>3 DEF Complied, RunInv, Differs, Fields
  <2> QED
    BY <2>1, <2>4, OneRunMoves
<1>11. CASE Fail(r)
  <2> DEFINE new == [rn EXCEPT !.at = "failed"]
  <2>1. run' = [run EXCEPT ![r] = new] /\ UNCHANGED <<reviews, tickets>>
    BY <1>0, <1>11 DEF Fail
  <2>2. Differs(new, rn, {"at"}) /\ new.at = "failed"
    BY <1>0 DEF Differs, Fields, Run, Places
  <2> HIDE DEF new
  <2>3. RunInv(new, r \in reviews, r \in tickets)
    BY <1>0, <1>11, <2>2 DEF Fail, RunInv, Differs, Fields
  <2> QED
    BY <2>1, <2>3, OneRunMoves
<1>12. CASE Finish(r)
  <2> DEFINE zero == [rn EXCEPT !.at = "ended"]
             one == [zero EXCEPT !.answer = Answered(rn)]
             new == [one EXCEPT !.clock = FALSE, !.aborted = TRUE]
  <2>1. run' = [run EXCEPT ![r] = new] /\ UNCHANGED <<reviews, tickets>>
    BY <1>0, <1>12 DEF Finish
  <2>2. Answered(rn) \in {"completed", "uncertain", "certain"}
    BY DEF Answered
  <2>3. Differs(one, rn, {"at", "answer"}) /\ one.at = "ended" /\ one.answer = Answered(rn)
    <3>1. Differs(zero, rn, {"at"}) /\ zero.at = "ended"
      BY <1>0, PlaceSet DEF Places
    <3> HIDE DEF zero
    <3>2. Differs(one, zero, {"answer"}) /\ one.answer = Answered(rn)
      BY <2>2, <3>1 DEF Differs, Fields, Run
    <3> HIDE DEF one
    <3> QED
      BY <3>1, <3>2 DEF Differs, Fields
  <2> HIDE DEF one
  <2>4. Differs(new, one, {"clock", "aborted"})
    BY <2>3 DEF Differs, Fields, Run
  <2> HIDE DEF new
  <2>5. rn.at \in {"failed", "done"}
    BY <1>12 DEF Finish
  <2>6. rn.delivered => Answered(rn) \in {"completed", "uncertain"}
    <3>1. rn.delivered => rn.pending \/ rn.answer = "completed"
      BY <1>0, <2>5 DEF RunInv
    <3>2. CASE rn.answer = "completed"
      BY <3>2 DEF Answered
    <3>3. CASE rn.answer # "completed" /\ rn.pending
      BY <3>3 DEF Answered
    <3> QED
      BY <3>1, <3>2, <3>3
  <2>7. RunInv(new, r \in reviews, r \in tickets)
    BY <1>0, <2>3, <2>4, <2>5, <2>6 DEF RunInv, Differs, Fields
  <2> QED
    BY <2>1, <2>7, OneRunMoves
<1>13. CASE Stop(r)
  <2>1. PICK ok \in BOOLEAN : run' = [run EXCEPT ![r] = Aborted(r, rn, ok)]
    BY <1>13 DEF Stop
  <2>2. RunInv(Aborted(r, rn, ok), FALSE, FALSE)
    BY <1>13, AbortedWell DEF Stop
  <2>3. reviews' = reviews \ {r} /\ tickets' = tickets \ {r}
    BY <1>13 DEF Stop
  <2>4. r \notin reviews' /\ r \notin tickets'
    BY <2>3
  <2> HIDE DEF rn
  <2> QED
    BY <2>1, <2>2, <2>3, <2>4, FreeRunMoves
<1> QED
  BY <1>1, <1>2, <1>3, <1>4, <1>5, <1>6, <1>7, <1>8, <1>9, <1>10, <1>11, <1>12, <1>13

-----------------------------------------------------------------------------
(* The properties *)

\* The invariant holds from the call on.
LEMMA Invariant == Spec => []Inv
<1>1. Init => Inv
  <2> SUFFICES ASSUME Init PROVE Inv
    OBVIOUS
  <2> DEFINE Fresh == {Called(application, pauses, expires, limited) :
                         application, pauses, expires, limited \in BOOLEAN}
  <2>1. ASSUME NEW rn \in Fresh PROVE RunInv(rn, FALSE, FALSE)
    <3>1. /\ rn \in Run /\ rn.at = "called" /\ rn.finished = "none" /\ rn.told = "none"
          /\ rn.result = "none" /\ rn.receipt = "none" /\ ~rn.delivered
          /\ rn.limited => rn.clock
      <4>1. PICK application, pauses, expires, limited \in BOOLEAN :
               rn = Called(application, pauses, expires, limited)
        OBVIOUS
      <4> HIDE DEF Fresh
      <4>2. rn \in Run
        BY <4>1 DEF Called, Run, Places, Outcomes, Results
      <4> QED
        BY <4>1, <4>2 DEF Called
    <3> QED
      BY <3>1 DEF RunInv, ReviewInv, TicketInv, OutcomeInv, EffectInv, ClockInv
  <2>2. ASSUME NEW r \in Runs PROVE RunInv(run[r], FALSE, FALSE)
    <3>1. run \in [Runs -> Fresh]
      BY DEF Init
    <3> HIDE DEF Fresh
    <3> QED
      BY <2>1, <3>1
  <2>3. run \in [Runs -> Run]
    <3>1. \A r \in Runs : run[r] \in Run
      BY <2>2 DEF RunInv
    <3> QED
      BY <3>1 DEF Init
  <2>4. \A r \in Runs : (r \in reviews) = FALSE /\ (r \in tickets) = FALSE
    BY DEF Init
  <2> QED
    BY <2>2, <2>3, <2>4 DEF Inv, Init, RunInv, ReviewInv, TicketInv, ClockInv
<1>2. Inv /\ [Next]_vars => Inv'
  <2> SUFFICES ASSUME Inv, [Next]_vars PROVE Inv'
    OBVIOUS
  <2>1. CASE UNCHANGED vars
    BY <2>1 DEF vars, Inv, RunInv, ReviewInv, TicketInv, OutcomeInv, EffectInv, ClockInv
  <2>2. CASE Next
    BY <2>2, RunStep DEF Next
  <2> QED
    BY <2>1, <2>2
<1> QED
  BY <1>1, <1>2, PTL DEF Spec

\* Runs always have their types, and a waiter is settled with the outcome or with
\* the audit failure (approvals.ts, finish).
THEOREM TypeCorrect == Spec => []TypeOK
<1>1. Inv => TypeOK
  BY DEF Inv, RunInv, TypeOK
<1> QED
  BY <1>1, Invariant, PTL

\* "No tool was authorized by this decision": a tool may act only for a run whose
\* approval the audit sink recorded and its waiter received, whatever the order of
\* decisions, timers and aborts of any number of runs.
THEOREM ReviewedFirst == Spec => []ReviewedBeforeEffect
<1>1. Inv => ReviewedBeforeEffect
  BY DEF Inv, RunInv, EffectInv, ReviewedBeforeEffect
<1> QED
  BY <1>1, Invariant, PTL

\* "A lost acknowledgement is uncertain": a run never reports a certain failure of a
\* call that its tool may have acted on or may still act on.
THEOREM EffectNeverDenied == Spec => []EffectIsNotDenied
<1>1. Inv => EffectIsNotDenied
  BY DEF Inv, RunInv, EffectInv, EffectIsNotDenied
<1> QED
  BY <1>1, Invariant, PTL

\* The bounded maps hold entries of waiting runs only, so their limits count waiting
\* runs; and the activity clock pauses for a review and runs when it is over.
THEOREM WaitsBounded == Spec => []WaitsAreBounded
<1>1. Inv => NoLeftovers /\ IdleClock
  BY DEF Inv, RunInv, ReviewInv, TicketInv, ClockInv, NoLeftovers, IdleClock
<1> QED
  BY <1>1, TypeCorrect, Invariant, PTL DEF WaitsAreBounded

\* "Expired decisions are rejected even if the timer callback has not yet run": a call
\* is approved only while its review is open, in time and not aborted, and the
\* reviewer's receipt is what the run is told.
THEOREM ApprovedOnlyInTime == Spec => ApprovedInTime
<1> DEFINE InTime(r) ==
              /\ run'[r].finished = "approved" /\ run[r].finished # "approved" =>
                    r \in reviews /\ ~run[r].due /\ ~run[r].aborted
              /\ run'[r].receipt # "none" => run'[r].told = run'[r].receipt
<1>1. ASSUME Inv, Inv', [Next]_vars, NEW r \in Runs PROVE InTime(r)
  <2>1. run'[r].receipt # "none" => run'[r].told = run'[r].receipt
    BY <1>1 DEF Inv, RunInv, OutcomeInv
  <2>2. ASSUME run'[r].finished = "approved", run[r].finished # "approved"
        PROVE  r \in reviews /\ ~run[r].due /\ ~run[r].aborted
    <3>1. run \in [Runs -> Run] /\ run[r] \in Run
      BY <1>1 DEF Inv
    \* finished changes only in the end of a review.
    <3>2. PICK q \in Runs :
             \/ RequestReview(q) \/ Lapse(q) \/ Expire(q) \/ Resolve(q)
             \/ \E outcome \in {"approved", "denied", "cancelled"} : Decide(q, outcome)
             \/ Execute(q) \/ Refuse(q) \/ Act(q) \/ Return(q) \/ Complete(q)
             \/ Complied(q) \/ Fail(q) \/ Finish(q) \/ Stop(q)
      <4>1. ~UNCHANGED vars
        BY <2>2 DEF vars
      <4> QED
        BY <1>1, <4>1 DEF Next
    <3>3. CASE \/ RequestReview(q) \/ Lapse(q) \/ Resolve(q) \/ Execute(q) \/ Refuse(q)
               \/ Act(q) \/ Complied(q) \/ Fail(q) \/ Finish(q)
      <4>1. run'[r].finished = run[r].finished
        BY <3>1, <3>3 DEF RequestReview, Lapse, Resolve, Execute, Refuse, Act, Complied,
                          Fail, Finish, Run
      <4> QED
        BY <2>2, <4>1
    <3>4. CASE Return(q) \/ Complete(q)
      <4>1. /\ run'[r] # run[r] => r = q
            /\ \E result \in Results, accepted \in {"none", "output", "error"} :
                  run'[q] \in {Settled(run[q], result),
                              [Settled(run[q], result) EXCEPT !.accepted = accepted]}
        BY <3>1, <3>4 DEF Return, Complete, Results, Inv
      <4>2. PICK result \in Results, accepted \in {"none", "output", "error"} :
               run'[q] \in {Settled(run[q], result),
                           [Settled(run[q], result) EXCEPT !.accepted = accepted]}
        BY <4>1
      <4> DEFINE settled == Settled(run[q], result)
      <4>3. settled \in Run /\ settled.finished = run[q].finished
        <5>1. run[q] \in Run
          BY <1>1 DEF Inv
        <5> DEFINE one == [run[q] EXCEPT !.result = result]
        <5>2. one \in Run /\ one.finished = run[q].finished
          BY <5>1 DEF Run
        <5>3. settled = one \/ settled = [one EXCEPT !.clock = one.limited /\ ~one.aborted]
          BY DEF Settled, Active
        <5> HIDE DEF one, settled
        <5>4. [one EXCEPT !.clock = one.limited /\ ~one.aborted] \in Run
          BY <5>2 DEF Run
        <5> QED
          BY <5>2, <5>3, <5>4 DEF Run
      <4>4. [settled EXCEPT !.accepted = accepted].finished = settled.finished
        BY <4>3 DEF Run
      <4> QED
        BY <2>2, <4>1, <4>2, <4>3, <4>4
    <3>5. CASE Expire(q)
      <4>1. PICK ok \in BOOLEAN : run' = [run EXCEPT ![q] = Finished(@, "expired", ok)]
        BY <3>5 DEF Expire
      <4>2. Finished(run[q], "expired", ok).finished = "expired"
        BY <3>1, FinishedRun DEF Outcomes
      <4> QED
        BY <2>2, <3>1, <4>1, <4>2
    <3>6. CASE Stop(q)
      <4>1. PICK ok \in BOOLEAN : run' = [run EXCEPT ![q] = Aborted(q, @, ok)]
        BY <3>6 DEF Stop
      <4> DEFINE stopped == [run[q] EXCEPT !.aborted = TRUE, !.clock = FALSE]
      <4>2. stopped \in Run /\ stopped.finished = run[q].finished
        BY <3>1 DEF Run
      <4>3. Aborted(q, run[q], ok) \in {Finished(stopped, "cancelled", ok),
                                        [stopped EXCEPT !.result = "lost"], stopped}
        BY DEF Aborted, Settled
      <4> HIDE DEF stopped
      <4>4. Finished(stopped, "cancelled", ok).finished = "cancelled"
        BY <4>2, FinishedRun DEF Outcomes
      <4>5. [stopped EXCEPT !.result = "lost"].finished = stopped.finished
        BY <4>2 DEF Run
      <4> QED
        BY <2>2, <3>1, <4>1, <4>2, <4>3, <4>4, <4>5
    <3>7. ASSUME NEW outcome \in {"approved", "denied", "cancelled"}, Decide(q, outcome)
          PROVE  r \in reviews /\ ~run[r].due /\ ~run[r].aborted
      <4> DEFINE told == Decided(q, outcome)
      <4>1. PICK ok \in BOOLEAN :
               run' = [run EXCEPT ![q] =
                         [Finished(@, told, ok) EXCEPT
                             !.receipt = IF ok /\ told = outcome THEN outcome ELSE "none"]]
        BY <3>7 DEF Decide
      <4> DEFINE receipt == IF ok /\ told = outcome THEN outcome ELSE "none"
      <4>2. told \in Outcomes /\ (told = "approved" => ~run[q].aborted /\ ~run[q].due)
        BY DEF Decided, Outcomes
      <4> HIDE DEF told, receipt
      <4>3. Finished(run[q], told, ok) \in Run /\ Finished(run[q], told, ok).finished = told
        BY <3>1, <4>2, FinishedRun
      <4>4. [Finished(run[q], told, ok) EXCEPT !.receipt = receipt].finished = told
        BY <4>3 DEF Run
      <4>5. r = q /\ told = "approved"
        BY <2>2, <3>1, <4>1, <4>4 DEF receipt
      <4> QED
        BY <3>7, <4>2, <4>5 DEF Decide
    <3> QED
      BY <3>2, <3>3, <3>4, <3>5, <3>6, <3>7
  <2> QED
    BY <2>1, <2>2
<1>2. Inv /\ Inv' /\ [Next]_vars => [\A r \in Runs : InTime(r)]_vars
  BY <1>1
<1> QED
  BY <1>2, Invariant, PTL DEF Spec, ApprovedInTime

=============================================================================
