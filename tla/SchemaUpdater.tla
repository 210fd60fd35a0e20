---------------------------- MODULE SchemaUpdater ----------------------------
(***************************************************************************)
(* tc-schema-sdk: the copy of the schema that an application holds, the    *)
(* values computed from it, and the requests for a newer one.              *)
(*                                                                         *)
(* A schema is known by its version, a number that grows with every        *)
(* publication; schema.json at the url holds the newest (published). A     *)
(* request for it is split where fetch awaits: asked, answered with what   *)
(* was published at that time, settled. Answers may overtake each other.   *)
(* The rest of fetch, with the cache and every listener of the "change"    *)
(* event, is synchronous: Settle takes what the listeners do as given by   *)
(* the module that registers them.                                         *)
(***************************************************************************)
EXTENDS Integers, FiniteSets

CONSTANTS
    LastVersion,  \* a bound on the versions that are published
    Fetches,      \* a bound on the requests for the schema at one time
    Modes,        \* the update modes the application may be configured with
    Accessors,    \* cached accessors of the sdk, each with one set of options
    Defaults,     \* those that have a value without data, the primitive types
    Users,        \* the promises of ready() and refresh() that somebody awaits
    Faults,       \* "fetch": a request may fail; "stop": polling may be stopped
    NoData, Nothing,
    Unused, Unanswered   \* of a request

Versions == 1..LastVersion

ASSUME SchemaAssumption ==
    /\ LastVersion \in Nat \ {0}
    /\ Modes \subseteq {"poll", "stale", "static"}
    /\ Defaults \subseteq Accessors
    /\ {NoData, Nothing, Unused, Unanswered} \intersect Versions = {}
    /\ Nothing \notin Fetches \union {"settled"}
    /\ "settled" \notin Fetches

VARIABLES
    published,   \* version of schema.json
    mode,        \* updateMode, or "static"
    version,     \* SchemaUpdater.version
    rawData,     \* the data of RawDataWrapper
    cache,       \* per accessor the version its value was computed from, or Nothing
    fetches,     \* per request the version it was answered with, if it has been
    fresh,       \* lastRefreshDate is less than ttl ago
    polling,     \* the timer of startPolling is running
    firstFetch,  \* the promise of the first fetch: Nothing, a request, or "settled"
    user         \* per user Nothing, the request it awaits, or "settled"

updaterVars == <<published, mode, version, rawData, cache, fetches, fresh, polling,
                 firstFetch, user>>

UpdaterTypeOK ==
    /\ published \in Versions
    /\ mode \in Modes
    /\ version \in Versions \union {NoData}
    /\ rawData \in Versions \union {NoData}
    /\ cache \in [Accessors -> Versions \union {NoData, Nothing}]
    /\ fetches \in [Fetches -> Versions \union {Unused, Unanswered}]
    /\ fresh \in BOOLEAN
    /\ polling \in BOOLEAN
    /\ firstFetch \in Fetches \union {Nothing, "settled"}
    /\ user \in [Users -> Fetches \union {Nothing, "settled"}]

NoCache == [a \in Accessors |-> Nothing]

\* configure: static data are there at once.
UpdaterInit ==
    /\ published = 1
    /\ mode \in Modes
    /\ rawData = IF mode = "static" THEN 1 ELSE NoData
    /\ version = rawData
    /\ fetches = [f \in Fetches |-> Unused]
    /\ fresh = FALSE
    /\ polling = FALSE
    /\ firstFetch = Nothing

-----------------------------------------------------------------------------
(* The parts of handlers. *)

\* What an accessor returns, and the cache after it: addCacheToFunction.
Cached(a, c, data) == IF c[a] = Nothing THEN data ELSE c[a]
WithCached(as, c, data) == [a \in Accessors |-> IF a \in as THEN Cached(a, c, data) ELSE c[a]]

\* A slip: the cache keeps what it has.
NotCleared(c) == c
Cleared(c) == NoCache

\* fetch. Which of the idle requests is used makes no difference.
IdleFetches == {f \in Fetches : fetches[f] = Unused}
NextFetch == CHOOSE f \in IdleFetches : TRUE
Ask ==
    /\ IdleFetches # {}
    /\ fetches' = [fetches EXCEPT ![NextFetch] = Unanswered]
    /\ fresh' = TRUE

\* ready() and refresh(): whether they have to ask, and the request they
\* await otherwise, "settled" when there is none.
NeedsFetch ==
    \/ mode = "poll" /\ firstFetch = Nothing
    \/ mode = "stale" /\ ~ fresh
Awaited == IF mode = "poll" THEN firstFetch ELSE "settled"

\* ready() by itself: startPolling, refresh, or nothing.
Ready(u) ==
    /\ user[u] \in {Nothing, "settled"}
    /\ IF NeedsFetch
       THEN /\ Ask
            /\ user' = [user EXCEPT ![u] = NextFetch]
            /\ polling' = (mode = "poll")
            /\ firstFetch' = IF mode = "poll" THEN NextFetch ELSE firstFetch
       ELSE /\ user' = [user EXCEPT ![u] = Awaited]
            /\ UNCHANGED <<fetches, fresh, polling, firstFetch>>
    /\ UNCHANGED <<published, mode, version, rawData, cache>>

\* Those who awaited request f go on.  A slip: they go on awaiting nothing.
ReleasedToNothing(wait, f) == IF wait = f THEN Unused ELSE wait
Released(wait, f) == IF wait = f THEN "settled" ELSE wait

SettlePromise(f) ==
    /\ fetches' = [fetches EXCEPT ![f] = Unused]
    /\ firstFetch' = Released(firstFetch, f)
    /\ user' = [u \in Users |-> Released(user[u], f)]

-----------------------------------------------------------------------------
(* Actions. *)

Publish ==
    /\ published < LastVersion
    /\ mode # "static"
    /\ published' = published + 1
    /\ UNCHANGED <<mode, version, rawData, cache, fetches, fresh, polling, firstFetch, user>>

TtlPasses ==
    /\ mode = "stale"
    /\ fresh
    /\ fresh' = FALSE
    /\ UNCHANGED <<published, mode, version, rawData, cache, fetches, polling, firstFetch, user>>

\* A slip: polling ends with the first schema.
PollUntilLoaded ==
    /\ polling
    /\ rawData = NoData
    /\ Ask
    /\ UNCHANGED <<published, mode, version, rawData, cache, polling, firstFetch, user>>

PollTick ==
    /\ polling
    /\ Ask
    /\ UNCHANGED <<published, mode, version, rawData, cache, polling, firstFetch, user>>

\* stopPolling; a request that is under way goes on.
StopPolling ==
    /\ "stop" \in Faults
    /\ polling
    /\ polling' = FALSE
    /\ firstFetch' = Nothing
    /\ UNCHANGED <<published, mode, version, rawData, cache, fetches, fresh, user>>

Answer(f) ==
    /\ fetches[f] = Unanswered
    /\ fetches' = [fetches EXCEPT ![f] = published]
    /\ UNCHANGED <<published, mode, version, rawData, cache, fresh, polling, firstFetch, user>>

\* The error is logged, and whoever awaits the request goes on.
FetchFails(f) ==
    /\ "fetch" \in Faults
    /\ fetches[f] = Unanswered
    /\ SettlePromise(f)
    /\ UNCHANGED <<published, mode, version, rawData, cache, fresh, polling>>

\* SCHEMA_NOT_CHANGED.
NotChanged(f) ==
    /\ fetches[f] \in Versions
    /\ fetches[f] = version
    /\ SettlePromise(f)
    /\ UNCHANGED <<published, mode, version, rawData, cache, fresh, polling>>

\* The synchronous code after an answer with another version, up to the event.
Store(f) ==
    /\ fetches[f] \in Versions
    /\ fetches[f] # version
    /\ version' = fetches[f]
    /\ rawData' = fetches[f]

\* Somebody uses an accessor. Without data most throw, and nothing is cached.
ReadSchema(a) ==
    /\ rawData = NoData => a \in Defaults
    /\ cache[a] = Nothing
    /\ cache' = WithCached({a}, cache, rawData)
    /\ UNCHANGED <<published, mode, version, rawData, fetches, fresh, polling, firstFetch, user>>

=============================================================================
