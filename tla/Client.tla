-------------------------------- MODULE Client --------------------------------
(***************************************************************************)
(* The client library (DriverClient): a run as a live stream of events, a  *)
(* job followed page by page, and the operations whose receipts must fit   *)
(* their requests.  Between the client and the host are proxies that may   *)
(* lose, repeat, reorder and misroute what they carry.                     *)
(***************************************************************************)
EXTENDS Integers, SequencesExt, FiniteSetsExt

CONSTANTS
    Targets,      \* what an operation can name: a source, a session, a decision
    Limits,       \* page sizes
    MaxLog,       \* bound: the events of a run
    MaxWire,      \* bound: the events on their way
    MaxFaults     \* bound: what the proxies spoil

VARIABLES
    use,          \* what the client does: "stream", "follow" or "operate"
    log,          \* the host's log of the run
    wire,         \* the events on their way
    faults,       \* how much was spoiled
    stream,       \* the generator that reads the stream, and its connection
    seen,         \* what the application was given
    page,         \* the call of jobEvents in progress
    calls         \* the operations in progress

clientVars == <<use, log, wire, faults, stream, seen, page, calls>>

\* uncertain: run.failed with outcome "uncertain"; note and novel are unknown
\* types, the first of them optional; call asks for an execution by the application.
Terminal == {"completed", "failed", "uncertain", "cancelled"}
Types == {"started", "text", "note", "novel", "call"} \cup Terminal
Logged == {"started", "text"} \cup Terminal

\* The payloads that name their run.  A failure and a cancellation carry an error
\* alone, and run.started its provider and model: they are the run's by their
\* envelope, and nothing tells the payload of one run from that of another.
Named == {"call", "completed"}

\* of: the run the payload of an event is for.
Event(run, n, type) == [run |-> run, sequence |-> n, type |-> type, of |-> run]
Events(run, types) == [n \in DOMAIN types |-> Event(run, n, types[n])]

\* Another run of this host, and of the same provider and model.
OtherLog == <<"started", "text", "completed">>
LogOf(run) == Events(run, IF run = "mine" THEN log ELSE OtherLog)

NoStream == [at |-> "idle", run |-> "none", sequence |-> 0, called |-> FALSE,
             connection |-> "none"]
NoPage == [at |-> "idle", after |-> 0, limit |-> 1]
Kinds == {"progress", "result"}
NoCall == [at |-> "idle", kind |-> "none", target |-> "none", did |-> FALSE]

Init ==
    /\ use \in {"stream", "follow", "operate"}
    /\ log = <<>> /\ wire = <<>> /\ faults = 0
    /\ stream = NoStream /\ seen = <<>> /\ page = NoPage
    /\ calls = [c \in {1, 2} |-> NoCall]

Ended == log # <<>> /\ Last(log) \in Terminal
Open == stream.connection = "open"

\* The run goes on; a stream that nobody reads is cancelled.
Produce(type) ==
    /\ Len(log) < MaxLog /\ ~Ended
    /\ (type = "started") <=> (log = <<>>)
    /\ Len(log) = MaxLog - 1 => type \in Terminal
    /\ CASE use = "follow" -> type \in Logged
         [] use = "stream" -> Open /\ Len(wire) < MaxWire
         [] OTHER -> FALSE
    /\ log' = Append(log, type)
    /\ wire' = IF use = "stream" THEN Append(wire, Event("mine", Len(log) + 1, type)) ELSE wire
    /\ UNCHANGED <<use, faults, stream, seen, page, calls>>

\* A proxy spoils an event on its way.
Spoil ==
    /\ faults < MaxFaults /\ wire # <<>>
    /\ faults' = faults + 1
    /\ \/ wire' = Tail(wire)
       \/ wire' = <<Head(wire)>> \o wire
       \/ wire' = Tail(wire) \o <<Head(wire)>>
       \/ \E e \in Range(LogOf("other")) : wire' = <<e>> \o wire
       \/ wire' = [wire EXCEPT ![1].of = "other"]
    /\ UNCHANGED <<use, log, stream, seen, page, calls>>

-----------------------------------------------------------------------------
(* stream *)

\* The generator is over; what it does last is to abort its request.
Over(how) == stream' = [stream EXCEPT !.at = how, !.connection = "closed"]

Ask ==
    /\ use = "stream" /\ stream.at = "idle"
    /\ stream' = [stream EXCEPT !.at = "asking"]
    /\ UNCHANGED <<use, log, wire, faults, seen, page, calls>>
\* The host answers with a stream of events, or with an error.
Answer ==
    /\ stream.at = "asking"
    /\ \/ stream' = [stream EXCEPT !.at = "reading", !.connection = "open"]
       \/ Over("failed")
    /\ UNCHANGED <<use, log, wire, faults, seen, page, calls>>

\* The envelope follows the one before.
Fits(e) ==
    /\ e.sequence = stream.sequence + 1
    /\ (stream.sequence = 0) <=> (e.type = "started")
    /\ stream.run \in {"none", e.run}

\* A payload that names a run names this one, and asks for no execution twice.
Belongs(e) ==
    /\ e.type \in Named => e.of = e.run
    /\ e.type = "call" => ~stream.called

\* An event arrives: it is skipped, given to the application, or refused.
Receive ==
    /\ stream.at = "reading" /\ wire # <<>>
    /\ wire' = Tail(wire)
    /\ LET e == Head(wire)
           read == [stream EXCEPT !.run = e.run, !.sequence = e.sequence]
       IN  \/ /\ Fits(e) /\ e.type = "note"
              /\ stream' = read /\ UNCHANGED seen
           \/ /\ Fits(e) /\ e.type \notin {"note", "novel"} /\ Belongs(e)
              /\ stream' = [read EXCEPT !.at = "given", !.called = @ \/ e.type = "call"]
              /\ seen' = Append(seen, e)
           \/ /\ Fits(e) => e.type # "note" /\ (e.type = "novel" \/ ~Belongs(e))
              /\ Over("failed") /\ UNCHANGED seen
    /\ UNCHANGED <<use, log, faults, page, calls>>

\* The application takes the next event; after the last there is none.
Resume ==
    /\ stream.at = "given"
    /\ IF Last(seen).type \in Terminal THEN Over("done")
       ELSE stream' = [stream EXCEPT !.at = "reading"]
    /\ UNCHANGED <<use, log, wire, faults, seen, page, calls>>

\* The connection breaks, and with it what was on its way; a reader learns of it.
Break ==
    /\ Open /\ faults < MaxFaults
    /\ faults' = faults + 1 /\ wire' = <<>>
    /\ stream' = [stream EXCEPT !.connection = "broken"]
    /\ UNCHANGED <<use, log, seen, page, calls>>
Incomplete ==
    /\ stream.at = "reading" /\ wire = <<>>
    /\ stream.connection = "broken" \/ Ended
    /\ Over("failed")
    /\ UNCHANGED <<use, log, wire, faults, seen, page, calls>>

\* cancelOnClose: closing the generator aborts the request at once, so that an
\* unanswered read cannot hold the close back.
Close_Queued ==
    /\ stream.at \in {"asking", "reading", "given"}
    /\ IF stream.at = "given" THEN Over("closed")
       ELSE stream' = [stream EXCEPT !.at = "closing"]
    /\ UNCHANGED <<use, log, wire, faults, seen, page, calls>>
Close ==
    /\ stream.at \in {"asking", "reading", "given"}
    /\ IF stream.at = "given" THEN Over("closed")
       ELSE stream' = [stream EXCEPT !.at = "closing", !.connection = "broken"]
    /\ UNCHANGED <<use, log, wire, faults, seen, page, calls>>
Closed ==
    /\ stream.at = "closing" /\ (stream.connection = "broken" \/ wire # <<>>)
    /\ Over("closed")
    /\ UNCHANGED <<use, log, wire, faults, seen, page, calls>>

-----------------------------------------------------------------------------
(* jobEvents *)

\* What a job tells of itself when its log is as long as n.
JobAt(run, n) ==
    LET types == [i \in 1 .. n |-> LogOf(run)[i].type]
    IN  [run |-> run, cursor |-> n,
         state |-> IF n = 0 THEN "queued"
                   ELSE IF types[n] = "uncertain" THEN "interrupted"
                   ELSE IF types[n] \in Terminal THEN types[n] ELSE "running"]

\* JobService.events.
PageOf(run, n, after, limit) ==
    LET events == SubSeq(LogOf(run), after + 1, Min({after + limit, n}))
    IN  [job |-> JobAt(run, n), events |-> events, next |-> after + Len(events),
         more |-> after + Len(events) < n]

\* The end of a run and the state of its job say the same.
Agree(type, state) ==
    CASE type \in {"completed", "cancelled"} -> state = type
      [] type = "failed" -> state = "failed"
      [] type = "uncertain" -> state \in {"failed", "interrupted"}
      [] OTHER -> state \in {"queued", "running"}

Accepts_Gaps(p, after, limit) ==
    /\ p.job.run = "mine" /\ Len(p.events) <= limit
    /\ \A n \in DOMAIN p.events : p.events[n].run = p.job.run
    /\ p.next <= p.job.cursor /\ (p.more <=> p.next < p.job.cursor)
    /\ p.more => p.events # <<>>
\* The page continues where the caller is, one event after the other, and tells of
\* the end exactly when the job is at its end.
Accepts(p, after, limit) ==
    /\ p.job.run = "mine" /\ Len(p.events) <= limit
    /\ \A n \in DOMAIN p.events :
          LET e == p.events[n]
          IN  /\ e.run = p.job.run /\ e.sequence = after + n /\ e.sequence <= p.job.cursor
              /\ (e.type = "started") <=> (e.sequence = 1)
              /\ e.type \in Terminal => e.sequence = p.job.cursor /\ Agree(e.type, p.job.state)
              /\ e.sequence = p.job.cursor =>
                    (p.job.state \in {"queued", "running"} <=> e.type \notin Terminal)
    /\ p.next = after + Len(p.events)
    /\ p.next <= p.job.cursor /\ (p.more <=> p.next < p.job.cursor)
    /\ p.more => p.events # <<>>

AskPage(limit) ==
    /\ use = "follow" /\ page.at = "idle"
    /\ page' = [page EXCEPT !.at = "asked", !.limit = limit]
    /\ UNCHANGED <<use, log, wire, faults, stream, seen, calls>>

\* The page is the caller's if it is accepted; else, or without an answer, the
\* caller asks again from where it is.
Take(p) ==
    IF Accepts(p, page.after, page.limit)
    THEN /\ page' = [page EXCEPT !.after = p.next,
                                 !.at = IF ~p.more /\ p.job.state \notin {"queued", "running"}
                                        THEN "finished" ELSE "idle"]
         /\ seen' = seen \o p.events
    ELSE page' = [page EXCEPT !.at = "idle"] /\ UNCHANGED seen

AnswerPage ==
    /\ page.at = "asked"
    /\ Take(PageOf("mine", Len(log), page.after, page.limit))
    /\ UNCHANGED <<use, log, wire, faults, stream, calls>>

\* An answer is lost, or a page comes that is not the answer: an old one of this
\* job, one of another job, or one with a piece missing.
SpoilPage ==
    /\ page.at = "asked" /\ faults < MaxFaults
    /\ faults' = faults + 1
    /\ \/ page' = [page EXCEPT !.at = "idle"] /\ UNCHANGED seen
       \/ \E n \in 0 .. Len(log), after \in 0 .. Len(log), limit \in Limits :
             after <= n /\ Take(PageOf("mine", n, after, limit))
       \/ Take(PageOf("other", 3, page.after, page.limit))
       \/ LET p == PageOf("mine", Len(log), page.after, page.limit)
          IN  \/ \E n \in DOMAIN p.events : Take([p EXCEPT !.events = RemoveAt(@, n)])
              \/ \E n \in 0 .. Len(log) : Take([p EXCEPT !.job = JobAt("mine", n)])
    /\ UNCHANGED <<use, log, wire, stream, calls>>

-----------------------------------------------------------------------------
(* Operations with receipts *)

Call(c, kind, target) ==
    /\ use = "operate" /\ calls[c].at = "idle"
    /\ calls' = [calls EXCEPT ![c] = [at |-> "sent", kind |-> kind, target |-> target,
                                         did |-> FALSE]]
    /\ UNCHANGED <<use, log, wire, faults, stream, seen, page>>

\* The host does it, or answers with an error; the receipt names what was done.
Do(c) ==
    /\ calls[c].at = "sent"
    /\ \E how \in {"done", "refused"} :
          calls' = [calls EXCEPT ![c].at = how, ![c].did = how = "done"]
    /\ UNCHANGED <<use, log, wire, faults, stream, seen, page>>

\* The receipt is for this request.
Matches(receipt, request) ==
    receipt.kind = request.kind /\ receipt.target = request.target

\* The answer of a call that was done arrives, perhaps at the other call.
Receipt(c, from) ==
    /\ calls[c].at \in {"sent", "done"} /\ calls[from].did
    /\ from # c => faults < MaxFaults
    /\ faults' = IF from # c THEN faults + 1 ELSE faults
    /\ calls' = [calls EXCEPT ![c].at = IF Matches(calls[from], calls[c]) THEN "accepted" ELSE "failed"]
    /\ UNCHANGED <<use, log, wire, stream, seen, page>>
Failed(c) ==
    /\ calls[c].at \in {"done", "refused"}
    /\ calls' = [calls EXCEPT ![c].at = "failed"]
    /\ UNCHANGED <<use, log, wire, faults, stream, seen, page>>

Next ==
    \/ \E type \in Types : Produce(type)
    \/ Spoil \/ Ask \/ Answer \/ Receive \/ Resume \/ Break \/ Incomplete \/ Close \/ Closed
    \/ \E limit \in Limits : AskPage(limit)
    \/ AnswerPage \/ SpoilPage
    \/ \E c \in {1, 2} :
          \/ \E kind \in Kinds, target \in Targets : Call(c, kind, target)
          \/ Do(c) \/ Failed(c)
          \/ \E from \in {1, 2} : Receipt(c, from)

\* A close is carried out, whatever the host does; a caller that follows a job
\* keeps asking, and the host answers.
Fairness ==
    /\ WF_clientVars(Closed)
    /\ WF_clientVars(\E limit \in Limits : AskPage(limit))
    /\ WF_clientVars(AnswerPage)

Spec == Init /\ [][Next]_clientVars /\ Fairness

-----------------------------------------------------------------------------
(* Properties *)

\* Every variable has its type.
TypeOK ==
    /\ log \in Seq(Types) /\ Len(log) <= MaxLog
    /\ stream.at \in {"idle", "asking", "reading", "given", "closing", "done", "failed", "closed"}
    /\ stream.connection \in {"none", "open", "broken", "closed"}
    /\ page.at \in {"idle", "asked", "finished"}
    /\ faults \in 0 .. MaxFaults

\* However the events of a stream are lost, repeated, reordered or misrouted, the
\* application sees, without a gap, the beginning of one run, in which no execution
\* is asked for twice and no call and no result is another run's; it is told of the
\* end of the stream without an error only after the last event of the run.
StreamIsWhole ==
    use = "stream" =>
        /\ stream.run # "none" =>
              LET sent == LogOf(stream.run)
              IN  /\ {seen[n].sequence : n \in DOMAIN seen}
                        = {n \in 1 .. stream.sequence : sent[n].type # "note"}
                  /\ \A n \in DOMAIN seen : /\ seen[n].run = stream.run
                                            /\ seen[n].type = sent[seen[n].sequence].type
                  /\ \A m, n \in DOMAIN seen : m < n => seen[m].sequence < seen[n].sequence
        /\ \A m, n \in DOMAIN seen : seen[m].type = "call" /\ seen[n].type = "call" => m = n
        /\ \A n \in DOMAIN seen : seen[n].type \in Named => seen[n].of = stream.run
        /\ stream.at = "done" => Last(seen).type \in Terminal
        /\ \A n \in DOMAIN seen : seen[n].type \in Terminal => n = Len(seen)
        /\ stream.at \in {"done", "failed", "closed"} => ~Open

\* The pages a caller accepts are the log of its job, from the beginning and
\* without a gap; it stops only when it has all of it, to the terminal event.
PagesAreTheLog ==
    use = "follow" =>
        /\ seen = SubSeq(LogOf("mine"), 1, page.after)
        /\ page.at = "finished" => Ended /\ Len(seen) = Len(log)

\* An operation that a client reports as done was done by the host.
ReceiptsAreOwn ==
    \A c \in {1, 2} : calls[c].at = "accepted" =>
        \E d \in {1, 2} : /\ calls[d].did
                          /\ calls[d].kind = calls[c].kind /\ calls[d].target = calls[c].target

\* A generator that is closed while it waits for a silent host comes to an end.
CloseEnds == stream.at = "closing" ~> stream.at = "closed"

\* A caller that keeps asking gets to the end of a job that ends.
FollowerFinishes == use = "follow" /\ Ended ~> page.at = "finished"

=============================================================================
