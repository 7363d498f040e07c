----------------------------- MODULE Retrieval -----------------------------
(***************************************************************************)
(* RetrievalService over a SqliteVectorStore with retirement.              *)
(*                                                                         *)
(* Several host processes have one corpus in one database.  The            *)
(* application owns the sources: at any time it grants one revision of     *)
(* each, or none, and revisions only advance.  A request asks for its      *)
(* grant, waits for its turn in the store's queue (one per process), waits *)
(* for embeddings, and asks again, so that grants, documents and retire-   *)
(* ments change between any two of its steps.  One database transaction is *)
(* atomic; a search is a read snapshot that spans several turns of its     *)
(* process.  One corpus and namespace; a document's digest is its revision and its    *)
(* passages; ranking, which only leaves passages out, is a choice.         *)
(***************************************************************************)
EXTENDS Integers, Sequences, FiniteSetsExt

CONSTANTS
    Hosts,          \* processes with the database open
    Requests,       \* calls of the service
    Sources,
    Passages,       \* chunk IDs
    Models,         \* embedding identities
    None,
    MaxRevision,    \* bound: revisions the application makes
    MaxChunks,      \* limits.maxChunks
    MaxRetired      \* retirement.maxSources

VARIABLES
    granted,        \* the application's current revision per source; 0: no access
    model,          \* the embedding identity each host is configured with
    descriptor,     \* ad_vector_indexes
    documents,      \* ad_vector_documents with their chunks
    retired,        \* ad_vector_retirements: the revision, 0 without a marker
    waiting,        \* the StoreQueue of each host: the requests with work in it
    request         \* every request

retrievalVars == <<granted, model, descriptor, documents, retired, waiting, request>>
database == <<descriptor, documents, retired>>

-----------------------------------------------------------------------------
(* The database.  Names with an underscore are faulty variants of the
   definition that follows them. *)

Revisions == 1 .. MaxRevision
Document == [revision : Revisions, passages : (SUBSET Passages) \ {{}}, model : Models]
NoDocument == [revision |-> 0, passages |-> {}, model |-> None]

Indexed(s) == documents[s] # NoDocument

\* The digest that replace compares: everything but the vectors.
Digest(d) == <<d.revision, d.passages>>

Others(s) == Sources \ {s}
TotalChunks(but) == MapThenSumSet(LAMBDA t : Cardinality(documents[t].passages), Others(but))

\* replace commits: no marker, the digest the caller read, room, no passage of
\* another source; otherwise it throws and nothing changes.
Replaced(s, d, expected) ==
    /\ retired[s] = 0
    /\ Digest(documents[s]) = expected
    /\ TotalChunks(s) + Cardinality(d.passages) <= MaxChunks
    /\ \A t \in Others(s) : documents[t].passages \cap d.passages = {}

\* retireSource commits.
Retirable(s, revision) ==
    /\ Indexed(s) => documents[s].revision = revision
    /\ retired[s] \in {0, revision}
    /\ retired[s] = 0 => Cardinality({t \in Sources : retired[t] # 0}) < MaxRetired

-----------------------------------------------------------------------------
(* Requests.  scope: the granted revisions the request was given; work: the
   store operation it has in the queue; snapshot, unread, hits: its search;
   old: the document it read; answer: how it ended.  The evidence of a request
   is what it found, or was given to revalidate. *)

Operations == {"index", "search", "retire", "delete", "revalidate"}
Places == {"new", "queued", "granted", "embedding", "read", "checked", "ended"}
Works == {"none", "ensure", "documents", "replace", "search", "retire", "delete"}
\* Every error is "refused"; no property tells them apart.
Answers == {"none", "done", "refused"}

Fresh == [at |-> "new", host |-> None, op |-> "none", source |-> None, scope |-> <<>>,
          passages |-> {}, work |-> "none", snapshot |-> <<>>, unread |-> {},
          hits |-> {}, old |-> NoDocument, aborted |-> FALSE, answer |-> "none"]

Goes(r, place) == request' = [request EXCEPT ![r].at = place]

\* What is left of a request that was answered.
Answered(r, answer) ==
    [Fresh EXCEPT !.at = "ended", !.answer = answer]
Ends(r, answer) == request' = [request EXCEPT ![r] = Answered(r, answer)]

Init ==
    /\ granted \in [Sources -> {0, 1}]
    /\ model \in [Hosts -> Models]
    /\ descriptor = None
    /\ documents = [s \in Sources |-> NoDocument]
    /\ retired = [s \in Sources |-> 0]
    /\ waiting = [h \in Hosts |-> <<>>]
    /\ request = [r \in Requests |-> Fresh]

\* The application makes a new revision, or takes the source away.
Grant(s) ==
    /\ \/ /\ granted[s] \in 0 .. MaxRevision - 1
          /\ granted' = [granted EXCEPT ![s] = @ + 1]
       \/ /\ granted[s] = MaxRevision
          /\ granted' = [granted EXCEPT ![s] = -1]
    /\ UNCHANGED <<model, database, waiting, request>>

\* Work enters the store's queue; it runs after all that entered before.
Queued(r, work, fields) ==
    LET h == fields.host IN
    /\ request' = [request EXCEPT ![r] = [fields EXCEPT !.at = "queued", !.work = work]]
    /\ waiting' = [waiting EXCEPT ![h] = Append(@, r)]

\* A request arrives: the caller's grant is read, and it goes on to ensureIndex
\* unless a source it names is not granted at the revision it names.
Arrive(r, h, op) ==
    /\ request[r].at = "new"
    /\ \/ \E s \in Sources, passages \in SUBSET Passages :
             /\ op \in {"index", "retire", "delete"} /\ (op = "index") = (passages # {})
             /\ granted[s] > 0
             /\ Queued(r, "ensure",
                   [Fresh EXCEPT !.host = h, !.op = op, !.source = s,
                                 !.scope = [t \in {s} |-> granted[s]],
                                 !.passages = passages])
       \/ /\ op = "search"
          /\ Queued(r, "ensure",
                [Fresh EXCEPT !.host = h, !.op = op,
                              !.scope = [s \in {t \in Sources : granted[t] > 0} |-> granted[s]]])
       \/ \E s \in Sources, d \in Document :
             /\ op = "revalidate" /\ granted[s] = d.revision
             /\ Queued(r, "ensure",
                   [Fresh EXCEPT !.host = h, !.op = op, !.scope = [t \in {s} |-> granted[s]],
                                 !.hits = {[source |-> s, document |-> d]}])
    /\ UNCHANGED <<granted, model, database>>

-----------------------------------------------------------------------------
(* The queue: the head runs; an aborted request's work is skipped. *)

Heads(r) == request[r].host # None /\ waiting[request[r].host] # <<>>
            /\ Head(waiting[request[r].host]) = r

Leaves(r) == waiting' = [waiting EXCEPT ![request[r].host] = Tail(@)]

\* The head's signal was aborted while it waited, or between two pages of its
\* search, which rolls back: the caller is gone already.
Skip(r) ==
    /\ Heads(r) /\ request[r].aborted
    /\ Leaves(r) /\ Ends(r, request[r].answer)
    /\ UNCHANGED <<granted, model, database>>

Runs(r, work) == Heads(r) /\ ~request[r].aborted /\ request[r].work = work /\ Leaves(r)

\* A transaction that throws: the storage fails, or the database is busy.
Throws(r) ==
    /\ \E work \in Works \ {"none"} : Runs(r, work)
    /\ Ends(r, "refused")
    /\ UNCHANGED <<granted, model, database>>

\* ensureIndex: the first request creates the corpus with its host's model.
Ensure(r) ==
    LET own == model[request[r].host] IN
    /\ Runs(r, "ensure")
    /\ descriptor' = IF descriptor = None THEN own ELSE descriptor
    /\ IF descriptor \in {None, own}
       THEN request' = [request EXCEPT ![r].work = "none", ![r].at = "granted"]
       ELSE Ends(r, "refused")
    /\ UNCHANGED <<granted, model, documents, retired>>

\* documents: index reads the old document; search and revalidate compare their
\* evidence, and leave when the document of a hit is not the indexed one any more.
Read(r) ==
    LET s == request[r].source
        stale == \E hit \in request[r].hits :
                    Digest(documents[hit.source]) # Digest(hit.document)
    IN
    /\ Runs(r, "documents")
    /\ IF stale THEN Ends(r, "refused")
       ELSE request' = [request EXCEPT
               ![r].work = "none", ![r].at = "read",
               ![r].old = IF request[r].op = "index" THEN documents[s] ELSE @]
    /\ UNCHANGED <<granted, model, database>>

\* replace.
Replace(r) ==
    LET s == request[r].source
        own == [revision |-> request[r].scope[s], passages |-> request[r].passages,
                model |-> model[request[r].host]]
        committed == Replaced(s, own, Digest(request[r].old))
    IN
    /\ Runs(r, "replace")
    /\ documents' = IF committed THEN [documents EXCEPT ![s] = own] ELSE documents
    /\ Ends(r, IF committed THEN "done" ELSE "refused")
    /\ UNCHANGED <<granted, model, descriptor, retired>>

Retire_Keep(r) ==
    LET s == request[r].source
        revision == request[r].scope[s]
        committed == Retirable(s, revision)
    IN
    /\ Runs(r, "retire")
    /\ retired' = IF committed THEN [retired EXCEPT ![s] = revision] ELSE retired
    /\ Ends(r, IF committed THEN "done" ELSE "refused")
    /\ UNCHANGED <<granted, model, descriptor, documents>>

\* retireSource: the marker and the deletion are one transaction.
Retire(r) ==
    LET s == request[r].source
        revision == request[r].scope[s]
        committed == Retirable(s, revision)
    IN
    /\ Runs(r, "retire")
    /\ retired' = IF committed THEN [retired EXCEPT ![s] = revision] ELSE retired
    /\ documents' = IF committed THEN [documents EXCEPT ![s] = NoDocument] ELSE documents
    /\ Ends(r, IF committed THEN "done" ELSE "refused")
    /\ UNCHANGED <<granted, model, descriptor>>

\* delete: the revision must be the indexed one; without a document it is done.
Delete(r) ==
    LET s == request[r].source
        allowed == Indexed(s) => documents[s].revision = request[r].scope[s]
    IN
    /\ Runs(r, "delete")
    /\ documents' = IF allowed THEN [documents EXCEPT ![s] = NoDocument] ELSE documents
    /\ Ends(r, IF allowed THEN "done" ELSE "refused")
    /\ UNCHANGED <<granted, model, descriptor, retired>>

\* search begins its read snapshot.
Scan(r) ==
    /\ Heads(r) /\ ~request[r].aborted /\ request[r].work = "search"
    /\ request[r].snapshot = <<>>
    /\ request' = [request EXCEPT ![r].snapshot = documents,
                                  ![r].unread = DOMAIN request[r].scope]
    /\ UNCHANGED <<granted, model, database, waiting>>

\* The passages of one source, at the revision of the scope; then the event loop
\* turns. Any of them may rank below the limit.
Page(r) ==
    /\ Heads(r) /\ ~request[r].aborted /\ request[r].snapshot # <<>>
    /\ \E s \in request[r].unread :
          LET found == {d \in {request[r].snapshot[s]} : d.revision = request[r].scope[s]}
          IN \E kept \in SUBSET found :
                request' = [request EXCEPT
                   ![r].unread = @ \ {s},
                   ![r].hits = @ \cup {[source |-> s, document |-> d] : d \in kept}]
    /\ UNCHANGED <<granted, model, database, waiting>>

\* The snapshot ends; the service reads the documents of the hits.
Scanned(r) ==
    LET h == request[r].host IN
    /\ Heads(r) /\ ~request[r].aborted /\ request[r].snapshot # <<>>
    /\ request[r].unread = {}
    /\ request' = [request EXCEPT ![r].work = "documents", ![r].snapshot = <<>>]
    /\ waiting' = [waiting EXCEPT ![h] = Append(Tail(@), r)]
    /\ UNCHANGED <<granted, model, database>>

-----------------------------------------------------------------------------
(* The service *)

\* checkedScope: every source is still granted at the revision of the scope.
StillGranted(r) == \A s \in DOMAIN request[r].scope : granted[s] = request[r].scope[s]

\* After ensureIndex.
Proceed(r) ==
    LET q == request[r] IN
    /\ q.at = "granted" /\ ~q.aborted
    /\ \/ /\ q.op \in {"index", "revalidate"} /\ Queued(r, "documents", q)
       \/ /\ q.op = "search"
          /\ \/ q.scope = <<>> /\ Ends(r, "done") /\ UNCHANGED waiting
             \/ q.scope # <<>> /\ Goes(r, "embedding") /\ UNCHANGED waiting
       \/ /\ q.op \in {"retire", "delete"}
          /\ IF StillGranted(r) THEN Queued(r, q.op, q)
             ELSE Ends(r, "refused") /\ UNCHANGED waiting
    /\ UNCHANGED <<granted, model, database>>

\* index has the old document: the revision is there already, or it embeds; the
\* grant is asked again before each batch.
Compare(r) ==
    LET q == request[r]
        same == q.old.revision = q.scope[q.source]
    IN
    /\ q.op = "index" /\ q.at = "read" /\ ~q.aborted
    /\ IF same /\ q.old.passages # q.passages THEN Ends(r, "refused")
       ELSE IF ~StillGranted(r) THEN Ends(r, "refused")
       ELSE IF same THEN Ends(r, "done") ELSE Goes(r, "embedding")
    /\ UNCHANGED <<granted, model, database, waiting>>

\* The embeddings arrive, for the query or for the last batch of passages (asked
\* again before it is written), or the adapter fails.
Embed(r) ==
    LET q == request[r] IN
    /\ q.at = "embedding" /\ ~q.aborted
    /\ \/ q.op = "search" /\ Queued(r, "search", q)
       \/ q.op = "index" /\ StillGranted(r) /\ Queued(r, "replace", q)
       \/ q.op = "index" /\ ~StillGranted(r) /\ Ends(r, "refused") /\ UNCHANGED waiting
       \/ Ends(r, "refused") /\ UNCHANGED waiting
    /\ UNCHANGED <<granted, model, database>>

\* search or revalidate has compared its hits: the grant is asked a last time.
Deliver(r) ==
    /\ request[r].op \in {"search", "revalidate"} /\ request[r].at = "read"
    /\ ~request[r].aborted
    /\ Ends(r, IF StillGranted(r) THEN "done" ELSE "refused")
    /\ UNCHANGED <<granted, model, database, waiting>>

\* The caller aborts: it leaves at once, its work stays in the queue.
Abort(r) ==
    /\ request[r].at \notin {"new", "ended"}
    /\ request' = [request EXCEPT ![r] =
          [Answered(r, "refused") EXCEPT !.aborted = request[r].work # "none",
                                         !.host = IF request[r].work = "none" THEN None
                                                  ELSE request[r].host,
                                         !.work = request[r].work]]
    /\ UNCHANGED <<granted, model, database, waiting>>

Turn(r) ==
    \/ Skip(r) \/ Throws(r) \/ Ensure(r) \/ Read(r) \/ Replace(r) \/ Retire(r) \/ Delete(r)
    \/ Scan(r) \/ Page(r) \/ Scanned(r)

Serve(r) == Proceed(r) \/ Compare(r) \/ Embed(r) \/ Deliver(r)

Next ==
    \/ \E s \in Sources : Grant(s)
    \/ \E r \in Requests :
          \/ \E h \in Hosts, op \in Operations : Arrive(r, h, op)
          \/ Turn(r) \/ Serve(r) \/ Abort(r)

Spec == Init /\ [][Next]_retrievalVars

-----------------------------------------------------------------------------
(* Properties *)

\* Every variable has its type.
TypeOK ==
    /\ granted \in [Sources -> -1 .. MaxRevision]
    /\ model \in [Hosts -> Models] /\ descriptor \in Models \cup {None}
    /\ documents \in [Sources -> Document \cup {NoDocument}]
    /\ retired \in [Sources -> 0 .. MaxRevision]
    /\ \A h \in Hosts : waiting[h] \in Seq(Requests)
    /\ \A r \in Requests : /\ request[r].at \in Places /\ request[r].work \in Works
                           /\ request[r].answer \in Answers

\* "Permanently retired": no ingestion, however late and from whichever process,
\* puts a document of a retired source back.
RetiredIsGone == \A s \in Sources : retired[s] # 0 => ~Indexed(s)

\* What is indexed is one index: within its limit, no passage in two sources,
\* every vector of the model the corpus was created with.
IndexIsSound ==
    /\ MapThenSumSet(LAMBDA s : Cardinality(documents[s].passages), Sources) <= MaxChunks
    /\ \A s, t \in Sources : s # t => documents[s].passages \cap documents[t].passages = {}
    /\ \A s \in Sources : Indexed(s) => documents[s].model = descriptor

\* A document is only ever replaced by a later revision: an ingestion that was
\* overtaken while it embedded does not win, and a revision's content is fixed.
RevisionsAdvance ==
    [][\A s \in Sources : Indexed(s) /\ Indexed(s)' /\ documents'[s] # documents[s] =>
          documents'[s].revision > documents[s].revision]_retrievalVars

\* Evidence that a search returns, or revalidate confirms, is of the revisions the
\* application grants at that moment, whatever was granted, indexed or deleted
\* while the query was embedded and the index read page by page.
EvidenceIsCurrent ==
    [][\A r \in Requests :
          request[r].at # "ended" /\ request'[r].answer = "done" =>
             \A hit \in request[r].hits :
                granted[hit.source] = hit.document.revision]_retrievalVars

=============================================================================
