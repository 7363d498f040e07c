-------------------------- MODULE MCConversations --------------------------
(***************************************************************************)
(* Small instances, side by side, of what a conversation is made of: its   *)
(* session, the context of its runs, the index and the ingestion of        *)
(* documents, the catalog of models, a streamed answer and a native turn.  *)
(* They share no state, so in a behaviour only one of them moves.          *)
(***************************************************************************)
EXTENDS Sessions, TLC

CONSTANTS ContextRuns, Sources, Subjects, Contents, ContextTime, ContextRevision, ContextEntries,
          ContextBytes, Budget, a, b,
          Hosts, Requests, Passages, Models, MaxRevision, MaxRetired, MaxPassages,
          Ingestions, MaxBytes, MaxChunks, MaxPending,
          Readers, Cursors, Adapters, Ttl, Minimum, MaxPages, MaxModels, MaxTime,
          Formats, MaxAttempts,
          Values, Vendors, MaxCalls, MaxLines

VARIABLES part,
          clock, entries, timer, run, lease,
          granted, model, descriptor, documents, retired, waiting, request,
          policy, ingestion, directory, pending, tail, workers, written,
          now, adapter, cache, probe, reader,
          format, message, reply, executed, sent, collected, emitted, outcome,
          vendor, call, child, lines, bridge, aborted

ASSUME ConversationsAssumption ==
    /\ IsFiniteSet(Sources) /\ IsFiniteSet(Passages) /\ IsFiniteSet(Models)
    /\ Models # {} /\ None \notin Models \cup Hosts
    /\ {MaxRevision, ContextTime, MaxTime} \subseteq Nat \ {0}
    /\ {MaxPassages, MaxModels, ContextEntries, ContextBytes, Ttl, Minimum} \subseteq Nat
    /\ ContextRevision \in Nat /\ ContextRevision >= 2
    /\ Contents \subseteq Nat \ {0} /\ 1 \in Contents
    /\ Adapters \subseteq Nat /\ 1 \in Adapters /\ MaxLines \in Nat

\* The wire formats are those of the collectors; a call has an attempt.
ASSUME StreamsAssumption ==
    /\ Formats \subseteq {"openai", "anthropic", "gemini", "chat"}
    /\ MaxAttempts \in Nat \ {0}

\* A passage has room for any character.
ASSUME FeedAssumption == MaxBytes \in Nat /\ MaxBytes >= 4 /\ MaxPending \in Nat

\* What a run selects: the application's sources, a stored one, one given inline.
App == [type |-> "application"]
Stored(id, n) == [type |-> "store", id |-> id, revision |-> n]
Inline(c) == [type |-> "inline", content |-> c]
Selections == {<<App, Stored(a, 2)>>, <<Inline(1), Stored(a, 2)>>}

\* A page is a sequence of lines, a line a sequence of characters.  A long line has
\* more white space between its words than a passage holds.
Letter(n) == [bytes |-> n, ink |-> n]
Space == [bytes |-> 1, ink |-> 0]
Text(chars) == [kind |-> "text", chars |-> chars]
Short == Text(<<Letter(1), Space>>)
Long == Text(<<Letter(3), Letter(2), Space, Space, Space, Space, Space, Space, Letter(1)>>)
Blank == Text(<<Space>>)
Mark(k) == [kind |-> k, chars |-> <<Letter(1)>>]
Documents ==
    { [type |-> "text", pages |-> <<<<Short, Long>>>>],
      [type |-> "text", pages |-> <<<<Short, Long, Short>>>>],
      [type |-> "text", pages |-> <<<<Blank>>>>],
      [type |-> "markdown", pages |-> <<<<Short, Mark("underline"), Mark("fence"),
                                          Mark("heading"), Mark("fence"), Mark("heading")>>>>],
      [type |-> "pdf", pages |-> <<<<Short>>, <<>>>>],
      [type |-> "pdf", pages |-> <<<<Blank, Short>>, <<Short, Blank, Short>>>>] }
Recognized == <<Short>>

\* A block is sent in pieces.
Block(kind, pieces) == [kind |-> kind, pieces |-> pieces]
Answer(blocks, stop, whole) == [blocks |-> blocks, stop |-> stop, whole |-> whole]
Messages ==
    { Answer(<<Block("thinking", <<9>>), Block("text", <<1, 2>>), Block("tool", <<3, 4>>)>>,
             "stop", TRUE),
      Answer(<<Block("text", <<1, 2>>)>>, "length", FALSE),
      Answer(<<Block("text", <<1>>), Block("tool", <<2>>), Block("tool", <<3>>)>>, "length", TRUE),
      Answer(<<Block("tool", <<1, 2>>)>>, "length", FALSE),
      Answer(<<Block("text", <<1>>)>>, "refusal", TRUE) }

Contexts == INSTANCE HostContext
    WITH now <- clock, Ids <- {a, b}, MaxTime <- ContextTime, MaxRevision <- ContextRevision,
         MaxEntries <- ContextEntries, MaxBytes <- ContextBytes,
         Runs <- ContextRuns
Index == INSTANCE Retrieval WITH MaxChunks <- MaxPassages
Feed == INSTANCE Ingestion
Catalogs == INSTANCE Discovery
Streams == INSTANCE ProviderStream WITH vendor <- format, request <- reply, Vendors <- Formats
Natives == INSTANCE NativeTurn

contextVars == <<clock, entries, timer, run, lease>>
indexVars == <<granted, model, descriptor, documents, retired, waiting, request>>
feedVars == <<policy, ingestion, directory, pending, tail, workers, written>>
catalogVars == <<now, adapter, cache, probe, reader>>
streamVars == <<format, message, reply, executed, sent, collected, emitted, outcome>>
nativeVars == <<vendor, call, child, lines, bridge, aborted>>

\* A part that does not move rests in one initial state.
ConversationsInit ==
    /\ part \in {"sessions", "context", "retrieval", "ingestion", "discovery", "stream", "native"}
    /\ Init /\ Contexts!Init /\ Index!Init /\ Feed!Init /\ Catalogs!Init /\ Streams!Init
    /\ Natives!Init
    /\ part # "retrieval" => /\ granted = [s \in Sources |-> 0]
                             /\ model = [h \in Hosts |-> CHOOSE m \in Models : TRUE]
    /\ part # "ingestion" => policy = [ocr |-> FALSE, allowEmptyPdfPages |-> FALSE, local |-> FALSE]
    /\ part # "stream" => /\ format = CHOOSE v \in Formats : TRUE
                          /\ message = CHOOSE m \in Messages : m.stop = "refusal"
    /\ part # "native" => vendor = CHOOSE v \in Vendors : TRUE

ConversationsNext ==
    /\ UNCHANGED part
    /\ \/ part = "sessions" /\ Next
       \/ part # "sessions" /\ UNCHANGED vars
    /\ \/ part = "context" /\ Contexts!Next
       \/ part # "context" /\ UNCHANGED contextVars
    /\ \/ part = "retrieval" /\ Index!Next
       \/ part # "retrieval" /\ UNCHANGED indexVars
    /\ \/ part = "ingestion" /\ Feed!Next
       \/ part # "ingestion" /\ UNCHANGED feedVars
    /\ \/ part = "discovery" /\ Catalogs!Next
       \/ part # "discovery" /\ UNCHANGED catalogVars
    /\ \/ part = "stream" /\ Streams!Next
       \/ part # "stream" /\ UNCHANGED streamVars
    /\ \/ part = "native" /\ Natives!Next
       \/ part # "native" /\ UNCHANGED nativeVars

ConversationsSpec ==
    /\ ConversationsInit
    /\ [][ConversationsNext]_<<part, vars, contextVars, indexVars, feedVars, catalogVars,
                               streamVars, nativeVars>>

\* Sessions and hosts, and the calls in progress, are told apart only by their state.
Interchangeable == Permutations(Ids) \cup Permutations(Requests)

\* A lease on the application's context is returned when its run has ended and not
\* before, and the store forgets what has expired.
LeasesReturned == Contexts!TypeOK /\ Contexts!LeasesReturned /\ Contexts!StoreForgets

\* A retired source does not come back, and an index holds vectors of one model.
IndexIsSound == Index!TypeOK /\ Index!RetiredIsGone /\ Index!IndexIsSound

\* What an answer rests on was granted, current and of the index when it was given,
\* and a turn writes to no other history than it read.
NothingIsStale == Index!RevisionsAdvance /\ Index!EvidenceIsCurrent /\ CommitExtends

\* Only whole documents reach the index, and embedding workers run one at a time.
NothingPartial == Feed!TypeOK /\ Feed!OneWorker /\ Feed!NothingPartial

\* A catalog that is called complete is, and is as fresh as its reader asked.
CatalogsAreHonest == Catalogs!TypeOK /\ Catalogs!CatalogsAreHonest /\ Catalogs!FreshEnough

\* However a stream is cut, the tools that run are those of a finished message, its
\* text is the answer's, and no request is executed twice.
StreamsAreWhole ==
    /\ Streams!TypeOK /\ Streams!CallsAreWhole /\ Streams!TextIsTheAnswer
    /\ Streams!ExecutedOnce

\* A native turn hands over the calls its process proposed, prompts it once, and
\* leaves nothing behind.
CallsAreProposed ==
    Natives!TypeOK /\ Natives!CallsAreProposed /\ Natives!PromptedOnce /\ Natives!NothingIsLeft

=============================================================================
