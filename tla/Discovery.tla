----------------------------- MODULE Discovery ------------------------------
(***************************************************************************)
(* Discovery of a provider: ProviderDiscovery and the inspection of an API *)
(* endpoint.                                                               *)
(*                                                                         *)
(* Readers of one adapter share a cached snapshot and the probe that is    *)
(* under way.  A probe reads the endpoint's catalog page by page, within   *)
(* limits, and a timer ends it.  Configuring the provider again makes a    *)
(* new adapter, with a cache of its own.                                   *)
(***************************************************************************)
EXTENDS Integers, FiniteSetsExt

CONSTANTS
    Readers,
    Models,         \* what the endpoint lists
    Cursors,        \* the endpoint's page tokens
    Adapters,       \* 1 .. bound: how often the provider is configured
    Ttl, Minimum,   \* cacheTtlMs and minRefreshMs
    MaxPages,       \* pages of a catalog (20)
    MaxModels,      \* models of a catalog (1000)
    MaxTime         \* bound on the clock

VARIABLES
    now,
    adapter,        \* the one the driver holds
    cache,          \* per adapter: its snapshot
    probe,          \* per adapter: the pending one
    reader          \* per reader: its call of get

discoveryVars == <<now, adapter, cache, probe, reader>>

\* What a probe found: a catalog, complete or not, or the configured one; whole: it
\* is all that the endpoint listed.
NoSnapshot == [at |-> 0, found |-> "nothing", models |-> {}, whole |-> TRUE]
NoProbe == [on |-> FALSE, models |-> {}, listed |-> {}, seen |-> {}, pages |-> 0]
NoReader == [at |-> "idle", adapter |-> 1, since |-> 0, refresh |-> FALSE, got |-> NoSnapshot]

Init ==
    /\ now = 1
    /\ adapter = 1
    /\ cache = [a \in Adapters |-> NoSnapshot]
    /\ probe = [a \in Adapters |-> NoProbe]
    /\ reader = [r \in Readers |-> NoReader]

\* A snapshot is good for its time to live, or, when a refresh is asked for, for
\* the shortest interval between two probes.
Usable(a, refresh) ==
    cache[a].at # 0 /\ now - cache[a].at < Max({IF refresh THEN 0 ELSE Ttl, Minimum})

\* get: from the cache, from the pending probe, or from a new one.
Get(r, refresh) ==
    /\ reader[r].at = "idle"
    /\ LET call == [NoReader EXCEPT !.adapter = adapter, !.since = now, !.refresh = refresh] IN
       IF Usable(adapter, refresh)
       THEN /\ reader' = [reader EXCEPT ![r] = [call EXCEPT !.at = "answered", !.got = cache[adapter]]]
            /\ UNCHANGED probe
       ELSE /\ reader' = [reader EXCEPT ![r] = [call EXCEPT !.at = "waiting"]]
            /\ probe' = IF probe[adapter].on THEN probe
                        ELSE [probe EXCEPT ![adapter] = [NoProbe EXCEPT !.on = TRUE]]
    /\ UNCHANGED <<now, adapter, cache>>

\* The probe is over: the snapshot is cached (for an adapter nobody holds any more
\* that is nothing) and every reader that waits has it.
Settle(a, snapshot) ==
    /\ cache' = [cache EXCEPT ![a] = IF a = adapter THEN snapshot ELSE NoSnapshot]
    /\ probe' = [probe EXCEPT ![a] = NoProbe]
    /\ reader' = [r \in Readers |->
                     IF reader[r].at = "waiting" /\ reader[r].adapter = a
                     THEN [reader[r] EXCEPT !.at = "answered", !.got = snapshot]
                     ELSE reader[r]]

Snapshot(a, found, models) ==
    [at |-> now, found |-> found, models |-> models,
     whole |-> models = probe[a].listed]

\* A page: its models are added one by one until there are too many; the next
\* cursor must be a new one, and there are only so many pages.
Read_Whole(a, models, next) ==
    LET all == probe[a].models \cup models IN
    /\ probe[a].on
    /\ IF next = "none" \/ probe[a].pages + 1 = MaxPages
       THEN Settle(a, [Snapshot(a, "complete", all) EXCEPT !.whole = next = "none"])
       ELSE /\ probe' = [probe EXCEPT ![a].models = all, ![a].listed = @ \cup models,
                           ![a].seen = @ \cup {next}, ![a].pages = @ + 1]
            /\ UNCHANGED <<cache, reader>>
    /\ UNCHANGED <<now, adapter>>
Read(a, models, next) ==
    LET all == probe[a].models \cup models
        listed == probe[a].listed \cup models
        \* The first models of the page that fit.
        kept == CHOOSE s \in SUBSET all : probe[a].models \subseteq s /\ Cardinality(s) = MaxModels
        Ends(found, of) == Settle(a, [Snapshot(a, found, of) EXCEPT !.whole = of = listed])
    IN
    /\ probe[a].on
    /\ CASE Cardinality(all) > MaxModels -> Ends("partial", kept)
         [] Cardinality(all) <= MaxModels /\ next = "none" -> Ends("complete", all)
         [] Cardinality(all) <= MaxModels /\ next \in probe[a].seen -> Ends("failed", {})
         [] Cardinality(all) <= MaxModels /\ next \notin probe[a].seen \cup {"none"}
               /\ probe[a].pages + 1 = MaxPages -> Ends("partial", all)
         [] OTHER ->
               /\ probe' = [probe EXCEPT ![a].models = all, ![a].listed = listed,
                              ![a].seen = @ \cup {next}, ![a].pages = @ + 1]
               /\ UNCHANGED <<cache, reader>>
    /\ UNCHANGED <<now, adapter>>

\* No key, no answer, a refusal, a page that cannot be read; or the timer, which
\* does not wait for the endpoint.
Fail(a) ==
    /\ probe[a].on
    /\ Settle(a, Snapshot(a, "failed", {}))
    /\ UNCHANGED <<now, adapter>>

\* A reader leaves: the probe it shares goes on.
Leave(r) ==
    /\ reader[r].at = "waiting"
    /\ reader' = [reader EXCEPT ![r].at = "gone"]
    /\ UNCHANGED <<now, adapter, cache, probe>>

Done(r) ==
    /\ reader[r].at \in {"answered", "gone"}
    /\ reader' = [reader EXCEPT ![r] = NoReader]
    /\ UNCHANGED <<now, adapter, cache, probe>>

\* configureProviders: another adapter object; calls in flight keep the old one.
Configure ==
    /\ adapter + 1 \in Adapters
    /\ adapter' = adapter + 1
    /\ cache' = [cache EXCEPT ![adapter] = NoSnapshot]
    /\ UNCHANGED <<now, probe, reader>>

Tick ==
    /\ now < MaxTime
    /\ now' = now + 1
    /\ UNCHANGED <<adapter, cache, probe, reader>>

Next ==
    \/ Tick \/ Configure
    \/ \E r \in Readers : Leave(r) \/ Done(r) \/ \E refresh \in BOOLEAN : Get(r, refresh)
    \/ \E a \in Adapters :
          \/ Fail(a)
          \/ \E models \in SUBSET Models : \E next \in Cursors \cup {"none"} : Read(a, models, next)

Spec == Init /\ [][Next]_discoveryVars

-----------------------------------------------------------------------------
(* Properties *)

\* Every variable has its type.
TypeOK ==
    /\ now \in 1 .. MaxTime /\ adapter \in Adapters
    /\ \A r \in Readers : reader[r].at \in {"idle", "waiting", "answered", "gone"}

\* A catalog that says it is complete has every model the endpoint listed, within
\* the limits of pages and of models, in the cache and for every reader.
CatalogsAreHonest ==
    \A s \in {cache[a] : a \in Adapters} \cup {reader[r].got : r \in Readers} :
       /\ s.found = "complete" => s.whole
       /\ Cardinality(s.models) <= MaxModels

\* A reader is given what was found since it asked, or nothing older than it allows:
\* a refresh, nothing older than the least time between two probes.
FreshEnough ==
    \A r \in Readers : reader[r].at = "answered" =>
       LET age == reader[r].since - reader[r].got.at IN
       age <= 0 \/ age < Max({IF reader[r].refresh THEN 0 ELSE Ttl, Minimum})

=============================================================================
