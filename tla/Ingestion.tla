----------------------------- MODULE Ingestion -----------------------------
(***************************************************************************)
(* Ingestion of a document: prepareDocument, the Poppler extractor, the    *)
(* chunker, and the embedding adapters.                                    *)
(*                                                                         *)
(* An ingestion extracts the pages of its document, has the empty ones     *)
(* recognized, cuts passages, and waits for its turn of the one embedding  *)
(* worker before it hands them to the index.  Its caller may abort it      *)
(* anywhere; an extraction that was left behind ends on its own.  Of the   *)
(* index this module has what was written (module Retrieval has the rest), *)
(* and of the resolver that a document may come from one failure           *)
(* (HostContext).  A page is a sequence of lines; a section of Markdown and *)
(* a message of a thread are pages too.  A line is what a passage takes of  *)
(* it: characters of one to four bytes, some of them white space.          *)
(***************************************************************************)
EXTENDS Integers, SequencesExt, FiniteSetsExt

CONSTANTS
    Ingestions,
    Documents,      \* [type : {"text", "markdown", "pdf"}, pages : Seq(Seq(Line))]
    Recognized,     \* the page an OCR adapter finds behind an empty one
    MaxBytes,       \* of a passage: no character is longer
    MaxChunks,      \* policy.maxChunks
    MaxPending      \* calls of one embedding adapter

VARIABLES
    policy,         \* [ocr, allowEmptyPdfPages, local : the embedding adapter]
    ingestion,      \* every call of ingestDocument
    directory,      \* ingestions whose extractor has its temporary directory
    pending,        \* LocalEmbeddingAdapter.pending
    tail,           \* its queue: the calls whose gate is closed, oldest first
    workers,        \* embedding workers that have not terminated
    written         \* the last ingestion that was written to the index

ingestionVars == <<policy, ingestion, directory, pending, tail, workers, written>>
adapter == <<pending, tail, workers>>

-----------------------------------------------------------------------------
(* Lines.  ink : the bytes of a character that are not white space. *)

Char == [bytes : 1 .. 4, ink : 0 .. 4]
Line == [chars : Seq(Char), kind : {"text", "heading", "underline", "fence"}]

Total(numbers) ==
    LET sum[i \in 0 .. Len(numbers)] == IF i = 0 THEN 0 ELSE sum[i - 1] + numbers[i]
    IN sum[Len(numbers)]
Bytes(line) == Total([j \in DOMAIN line.chars |-> line.chars[j].bytes])
Ink(line) == Total([j \in DOMAIN line.chars |-> line.chars[j].ink])

-----------------------------------------------------------------------------
(* markdownSegments *)

\* A section starts at line i, unless it is the first line: one starts there anyhow.
From(starts, i) == IF i > 1 THEN Append(starts, i) ELSE starts

\* One line of Markdown: where a section starts, whether a fence is open, whether
\* an underline would make the line a heading.
Scan(seen, i, line) ==
    CASE line.kind = "fence" ->
            [seen EXCEPT !.fence = ~@, !.content = FALSE]
      [] line.kind # "fence" /\ seen.fence ->
            [seen EXCEPT !.content = FALSE]
      [] line.kind = "heading" /\ ~seen.fence ->
            [seen EXCEPT !.starts = From(@, i), !.content = FALSE]
      [] line.kind = "underline" /\ ~seen.fence /\ seen.content ->
            [seen EXCEPT !.starts = From(@, i - 1), !.content = FALSE]
      [] OTHER ->
            [seen EXCEPT !.content = Ink(line) > 0]

Scanned(lines) ==
    LET seen[i \in 0 .. Len(lines)] ==
            IF i = 0 THEN [fence |-> FALSE, content |-> FALSE, starts |-> <<1>>]
            ELSE Scan(seen[i - 1], i, lines[i])
    IN seen[Len(lines)]

\* The sections: one from the first line, and one from each heading to the next.
Sections(lines) ==
    LET starts == Scanned(lines).starts
    IN [n \in DOMAIN starts |->
           SubSeq(lines, starts[n], IF n = Len(starts) THEN Len(lines) ELSE starts[n + 1] - 1)]

-----------------------------------------------------------------------------
(* chunkSegments.  A passage is a sequence of parts: [line, bytes, ink]. *)

\* A character more of a line that is longer than a passage: a part ends where the
\* next character would not fit.
Put(parts, char, number) ==
    LET n == Len(parts)
    IN IF n > 0 /\ parts[n].bytes + char.bytes <= MaxBytes
       THEN [parts EXCEPT ![n] = [line |-> number, bytes |-> @.bytes + char.bytes, ink |-> @.ink + char.ink]]
       ELSE Append(parts, [line |-> number, bytes |-> char.bytes, ink |-> char.ink])

Cut(line, number) ==
    LET cut[i \in 0 .. Len(line.chars)] ==
            IF i = 0 THEN <<>> ELSE Put(cut[i - 1], line.chars[i], number)
    IN cut[Len(line.chars)]

Size(parts) == Total([j \in DOMAIN parts |-> parts[j].bytes])

\* flush: a passage that is white space is dropped, be it lines or a part of one.
Flushed(parts) == IF \A j \in DOMAIN parts : parts[j].ink = 0 THEN <<>> ELSE <<parts>>

\* One line: what does not fit goes first; each part of a line longer than a passage
\* leaves as a passage of its own.
Add(cut, line, number) ==
    LET full == Size(cut.parts) + Bytes(line) > MaxBytes
        done == IF full THEN cut.done \o Flushed(cut.parts) ELSE cut.done
        parts == IF full THEN <<>> ELSE cut.parts
        more == Cut(line, number)
    IN IF Bytes(line) <= MaxBytes
       THEN [done |-> done,
             parts |-> Append(parts, [line |-> number, bytes |-> Bytes(line), ink |-> Ink(line)])]
       ELSE [done |-> done \o FlattenSeq([j \in DOMAIN more |-> Flushed(<<more[j]>>)]),
             parts |-> <<>>]

\* The passages of one page: none crosses into the next.
PageChunks(page) ==
    LET cut[i \in 0 .. Len(page)] ==
            IF i = 0 THEN [done |-> <<>>, parts |-> <<>>]
            ELSE Add(cut[i - 1], page[i], i)
    IN cut[Len(page)].done \o Flushed(cut[Len(page)].parts)

Chunks(pages) ==
    FlattenSeq([p \in DOMAIN pages |->
        LET passages == PageChunks(pages[p])
        IN [i \in DOMAIN passages |-> [page |-> p, parts |-> passages[i]]]])

-----------------------------------------------------------------------------
(* Ingestions *)

HasText(page) == \E i \in DOMAIN page : Ink(page[i]) > 0
Empty(pages) == {p \in DOMAIN pages : ~HasText(pages[p])}

Fresh == [at |-> "new", document |-> <<>>, pages |-> <<>>, passages |-> <<>>]
Ended == [Fresh EXCEPT !.at = "ended"]

Goes(c, place) == ingestion' = [ingestion EXCEPT ![c].at = place]
Ends(c) == ingestion' = [ingestion EXCEPT ![c] = Ended]

Init ==
    /\ policy \in [ocr : BOOLEAN, allowEmptyPdfPages : BOOLEAN, local : BOOLEAN]
    /\ ingestion = [c \in Ingestions |-> Fresh]
    /\ directory = {}
    /\ pending = 0 /\ tail = <<>> /\ workers = {}
    /\ written = Fresh

\* ingestDocument: the authorization, the resolver and the format may each refuse.
Begin(c, document) ==
    /\ ingestion[c].at = "new"
    /\ \/ Ends(c)
       \/ ingestion' = [ingestion EXCEPT ![c] =
                [Fresh EXCEPT !.at = IF document.type = "pdf" THEN "extracting" ELSE "prepared",
                              !.document = document,
                              !.pages = CASE document.type = "pdf" -> <<>>
                                          [] document.type = "text" -> document.pages
                                          [] OTHER -> Sections(document.pages[1])]]
    /\ UNCHANGED <<policy, directory, adapter, written>>

\* PopplerPdfExtractor.extract: the directory, then its three commands.
MakeDirectory(c) ==
    /\ ingestion[c].at = "extracting" /\ c \notin directory
    /\ directory' = directory \cup {c}
    /\ UNCHANGED <<policy, ingestion, adapter, written>>

\* The extractor ends and removes its directory: the last command answered, or one
\* failed, or the signal killed it.  Only an ingestion that still waits hears of it.
Extracted(c, answered) ==
    /\ c \in directory
    /\ directory' = directory \ {c}
    /\ IF ingestion[c].at # "extracting" THEN answered = FALSE /\ UNCHANGED ingestion
       ELSE IF ~answered THEN Ends(c)
       ELSE LET pages == ingestion[c].document.pages
                none == Empty(pages) = {}
            IN ingestion' = [ingestion EXCEPT
                  ![c] = IF none \/ policy.ocr \/ policy.allowEmptyPdfPages
                         THEN [@ EXCEPT !.pages = pages,
                                        !.at = IF none \/ ~policy.ocr THEN "prepared"
                                               ELSE "recognizing"]
                         ELSE Ended]
    /\ UNCHANGED <<policy, adapter, written>>

\* The OCR adapter answers with text for some of the empty pages; every one of them
\* must have text then, or be allowed to be empty.
Recognize(c, found) ==
    LET pages == ingestion[c].pages
        filled == [p \in DOMAIN pages |-> IF p \in found THEN Recognized ELSE pages[p]]
    IN
    /\ ingestion[c].at = "recognizing"
    /\ found \subseteq Empty(pages)
    /\ IF Empty(filled) = {} \/ policy.allowEmptyPdfPages
       THEN ingestion' = [ingestion EXCEPT ![c].at = "prepared", ![c].pages = filled]
       ELSE Ends(c)
    /\ UNCHANGED <<policy, directory, adapter, written>>

\* The passages: too many or none refuse the document. Then index is called, and its
\* batch is embedded.
Prepare(c) ==
    LET passages == Chunks(ingestion[c].pages) IN
    /\ ingestion[c].at = "prepared"
    /\ IF Len(passages) \in 1 .. MaxChunks
       THEN ingestion' = [ingestion EXCEPT ![c].at = "indexing", ![c].passages = passages]
       ELSE Ends(c)
    /\ UNCHANGED <<policy, directory, adapter, written>>

-----------------------------------------------------------------------------
(* LocalEmbeddingAdapter.embed *)

\* A call takes its place, unless there are too many.
Enter(c) ==
    /\ ingestion[c].at = "indexing" /\ policy.local
    /\ IF pending >= MaxPending THEN Ends(c) /\ UNCHANGED <<pending, tail>>
       ELSE /\ pending' = pending + 1
            /\ tail' = Append(tail, c)
            /\ Goes(c, "waiting")
    /\ UNCHANGED <<policy, directory, workers, written>>

\* Every call before it has released its gate: it starts its worker, or finds the
\* cache directory or the runtime unusable.
Launch(c) ==
    /\ ingestion[c].at = "waiting" /\ Head(tail) = c
    /\ \/ workers' = workers \cup {c} /\ Goes(c, "embedding")
       \/ workers' = workers /\ Goes(c, "failed")
    /\ UNCHANGED <<policy, directory, pending, tail, written>>

\* The worker answers with vectors, or with an error, or exits.
Embedded(c) ==
    /\ ingestion[c].at = "embedding"
    /\ \/ Goes(c, "embedded") \/ Goes(c, "failed")
    /\ UNCHANGED <<policy, directory, adapter, written>>

Terminated_Forgotten(c) ==
    /\ ingestion[c].at \in {"embedded", "failed"}
    /\ workers' = workers \ {c}
    /\ pending' = pending - 1
    /\ tail' = IF c \in workers THEN RemoveFirst(tail, c) ELSE tail
    /\ \/ /\ ingestion[c].at = "embedded"
          /\ written' = ingestion[c]
       \/ written' = written
    /\ Ends(c)
    /\ UNCHANGED <<policy, directory>>

\* The worker has terminated: only then the gate opens.  With vectors the document
\* is written, unless the caller is gone.
Terminated(c) ==
    /\ ingestion[c].at \in {"embedded", "failed"}
    /\ workers' = workers \ {c}
    /\ pending' = pending - 1
    /\ tail' = RemoveFirst(tail, c)
    /\ \/ /\ ingestion[c].at = "embedded"
          /\ written' = ingestion[c]
       \/ written' = written
    /\ Ends(c)
    /\ UNCHANGED <<policy, directory>>

\* OpenAIEmbeddingAdapter.embed has no queue: its key is found, and its one request
\* is answered with every vector, or it fails.
Request(c) ==
    /\ ingestion[c].at = "indexing" /\ ~policy.local
    /\ \/ Goes(c, "requested") \/ Ends(c)
    /\ UNCHANGED <<policy, directory, adapter, written>>

Respond(c) ==
    /\ ingestion[c].at = "requested"
    /\ \/ written' = ingestion[c] \/ written' = written
    /\ Ends(c)
    /\ UNCHANGED <<policy, directory, adapter>>

\* The caller aborts.  An ingestion whose extractor is busy leaves it behind; one
\* in the adapter fails there, and one that waits in its queue opens its own gate.
Abort(c) ==
    /\ \/ ingestion[c].at \in {"extracting", "recognizing", "prepared", "indexing", "requested"}
          /\ Ends(c)
       \/ ingestion[c].at \in {"waiting", "embedding", "embedded"} /\ Goes(c, "failed")
    /\ UNCHANGED <<policy, directory, adapter, written>>

Step(c) ==
    \/ \E document \in Documents : Begin(c, document)
    \/ MakeDirectory(c)
    \/ \E answered \in BOOLEAN : Extracted(c, answered)
    \/ \E found \in SUBSET DOMAIN ingestion[c].pages : Recognize(c, found)
    \/ Prepare(c) \/ Enter(c) \/ Launch(c) \/ Embedded(c) \/ Terminated(c)
    \/ Request(c) \/ Respond(c)

Next == \E c \in Ingestions : Step(c) \/ Abort(c)

Spec == Init /\ [][Next]_ingestionVars

-----------------------------------------------------------------------------
(* Properties *)

\* Every variable has its type.
TypeOK ==
    /\ \A document \in Documents : document.pages \in Seq(Seq(Line))
    /\ pending \in 0 .. MaxPending
    /\ directory \subseteq Ingestions /\ workers \subseteq Ingestions
    /\ tail \in Seq(Ingestions)

\* One embedding worker at a time, also while one that was aborted is being
\* terminated, and the counter and the queue agree: no call that failed or left
\* blocks the calls behind it.
OneWorker ==
    /\ Cardinality(workers) <= 1
    /\ pending = Len(tail)
    /\ Range(tail) = {c \in Ingestions : ingestion[c].at \in {"waiting", "embedding", "embedded", "failed"}}
    /\ workers \subseteq Range(tail)

InkOf(passages, page, line) ==
    Total([i \in DOMAIN passages |->
              IF passages[i].page # page THEN 0
              ELSE LET parts == passages[i].parts
                   IN Total([j \in DOMAIN parts |->
                                IF parts[j].line = line THEN parts[j].ink ELSE 0])])

\* What is indexed is the whole document, cited exactly: each passage fits, its
\* lines are consecutive lines of one page, the passages that cite a line have all
\* of its text, wherever it was cut and whatever white space was dropped, and no
\* page was left out silently.
NothingPartial ==
    written # Fresh =>
       LET pages == written.pages
           passages == written.passages
       IN
       /\ Empty(pages) # {} /\ written.document.type = "pdf" => policy.allowEmptyPdfPages
       /\ Len(pages) >= Len(written.document.pages)
       /\ written.document.type # "pdf" =>
             FlattenSeq(pages) = FlattenSeq(written.document.pages)
       /\ \A i \in DOMAIN passages :
             LET parts == passages[i].parts IN
             /\ Size(parts) <= MaxBytes
             /\ \A j \in 1 .. Len(parts) - 1 : parts[j + 1].line = parts[j].line + 1
       /\ \A p \in DOMAIN pages : \A l \in DOMAIN pages[p] :
             InkOf(passages, p, l) = Ink(pages[p][l])

=============================================================================
