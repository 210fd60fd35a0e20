---------------------------- MODULE SchemaConsumers ----------------------------
(***************************************************************************)
(* What follows from a schema: getApp of tc-api-express registers the      *)
(* GraphQL API and the database constraints as listeners of the "change"   *)
(* event, and then awaits ready().                                         *)
(*                                                                         *)
(* The event builds the new GraphQL handler at once, from values of the    *)
(* accessors.  It makes calls that go on after it: sendSchemaToS3, if the  *)
(* schema is to be republished, and initConstraints.  Each awaits ready()  *)
(* first, then reads the schema that is there by then.                     *)
(***************************************************************************)
EXTENDS SchemaUpdater

CONSTANTS
    App,          \* the user that starts the application
    Listening,    \* how often getApp registers each of the two listeners
    Republishing, \* the modes of applications that send a new schema to S3
    Types,        \* the accessor that the handler and the constraints are made from
    Buildable,    \* versions that make a valid GraphQL API
    Constraints,  \* uniqueness constraints and indexes
    Indexes,      \* those that are indexes
    Wanted,       \* per version those that its types ask for
    Refused,      \* those that Neo4j does not create
    MaxUploads,   \* a bound on the requests to S3 at one time
    MaxRuns       \* a bound on the runs of initConstraints past their first await

ASSUME ConsumersAssumption ==
    /\ App \in Users
    /\ {Listening, MaxUploads, MaxRuns} \subseteq Nat \ {0}
    /\ Types \in Accessors \ Defaults
    /\ Buildable \subseteq Versions
    /\ Indexes \subseteq Constraints
    /\ Wanted \in [Versions -> SUBSET Constraints]

VARIABLES
    served,       \* the version the GraphQL handler was built from
    updated,      \* schemaDidUpdate
    republished,  \* the version of the schema.json that the application writes
    uploads,      \* the calls of sendSchemaToS3
    runs,         \* the calls of initConstraints
    constraints   \* what there is in Neo4j

consumerVars == <<served, updated, republished, uploads, runs, constraints>>
vars == <<updaterVars, consumerVars>>

Registrations == 1..Listening

\* by     the registration whose listener made the call
\* on     what it awaits at first
\* data   the version that is being uploaded
\* have   the constraints and indexes read so far
\* todo   those still to be created
\* Calls of one registration that await the same do the same, and are one.
Upload ==
    [by: Registrations, pc: {"ready", "upload"}, on: Fetches \union {"settled"},
     data: Versions \union {NoData}]
Run ==
    [by: Registrations, pc: {"ready", "constraints", "indexes", "create", "failed"},
     on: Fetches \union {"settled"}, have: SUBSET Constraints, todo: SUBSET Constraints]

TypeOK ==
    /\ UpdaterTypeOK
    /\ served \in Versions \union {Nothing}
    /\ updated \in BOOLEAN \union {Nothing}
    /\ republished \in Versions \union {Nothing}
    /\ uploads \subseteq Upload
    /\ runs \subseteq Run
    /\ constraints \subseteq Constraints

-----------------------------------------------------------------------------
(* The "change" event.                                                     *)

\* getAugmentedSchema throws unless the definitions can be parsed and resolved.
IsBuildable(data) == data \in Buildable

\* A slip: the handler is lost when the next one cannot be built.
UpdateApiOrNone(data, old) == IF IsBuildable(data) THEN data ELSE Nothing

\* updateAPI keeps the handler it has when the new one cannot be built.
UpdateApi(data, old) == IF IsBuildable(data) THEN data ELSE old

Uploading(by, on) == [by |-> by, pc |-> "ready", on |-> on, data |-> NoData]
Running(by, on) == [by |-> by, pc |-> "ready", on |-> on, have |-> {}, todo |-> {}]

UploadsFor(data, on) ==
    IF mode \in Republishing /\ IsBuildable(data) THEN {Uploading(by, on[by]) : by \in Registrations} ELSE {}
RunsFor(on) == {Running(by, on[by]) : by \in Registrations}

\* What the calls of ready() return that the event for data makes, while request
\* f is being settled. If one of them has to ask, the new request takes the place
\* of f; in stale mode only the first one has to.
Everybody(on) == [by \in Registrations |-> on]
FirstOnly(f) == [by \in Registrations |-> IF by = 1 THEN f ELSE "settled"]
Waits(data, f) ==
    IF ~ NeedsFetch THEN [upload |-> Everybody(Released(Awaited, f)), run |-> Everybody(Released(Awaited, f))]
    ELSE IF mode = "poll" THEN [upload |-> Everybody(f), run |-> Everybody(f)]
    ELSE IF UploadsFor(data, FirstOnly(f)) # {} THEN [upload |-> FirstOnly(f), run |-> Everybody("settled")]
    ELSE [upload |-> Everybody("settled"), run |-> FirstOnly(f)]

\* The promises after that, and what the event has changed of the updater.
Promises(f) ==
    /\ fetches' = [fetches EXCEPT ![f] = IF NeedsFetch THEN Unanswered ELSE Unused]
    /\ firstFetch' = IF NeedsFetch /\ mode = "poll" THEN f ELSE Released(firstFetch, f)
    /\ user' = [u \in Users |-> Released(user[u], f)]
    /\ polling' = (polling \/ (NeedsFetch /\ mode = "poll"))
    /\ fresh' = (fresh \/ NeedsFetch)

ReleasedCalls(calls, f) == {[k EXCEPT !.on = Released(@, f)] : k \in calls}

\* The whole of what follows an answer with another version: the data, the cache,
\* and the event with updateAPI and initConstraints.  A run that has failed is
\* remembered up to here.
Change(f) ==
    LET data == Cached(Types, Cleared(cache), fetches[f])
        wait == Waits(data, f)
    IN  /\ Store(f)
        /\ served' = UpdateApi(data, served)
        /\ updated' = IsBuildable(data)
        /\ cache' = WithCached({Types}, Cleared(cache), fetches[f])
        /\ uploads' = ReleasedCalls(uploads, f) \union UploadsFor(data, wait.upload)
        /\ runs' = ReleasedCalls({k \in runs : k.pc # "failed"}, f) \union RunsFor(wait.run)
        /\ Promises(f)
        /\ UNCHANGED <<published, mode, republished, constraints>>

\* An answer that changes nothing, or an error.
Settle(f) ==
    /\ NotChanged(f) \/ FetchFails(f)
    /\ uploads' = ReleasedCalls(uploads, f)
    /\ runs' = ReleasedCalls(runs, f)
    /\ UNCHANGED <<served, updated, republished, constraints>>

-----------------------------------------------------------------------------
(* sendSchemaToS3.                                                         *)

Replace(calls, k, l) == (calls \ {k}) \union {l}

ReadForUpload(k) ==
    /\ k.pc = "ready"
    /\ k.on = "settled"
    /\ Cardinality({l \in uploads : l.pc = "upload"}) < MaxUploads
    /\ uploads' = Replace(uploads, k, [k EXCEPT !.pc = "upload", !.data = rawData])
    /\ UNCHANGED <<updaterVars, served, updated, republished, runs, constraints>>

\* Uploads of the same key may overtake each other.
UploadEnds(k) ==
    /\ k.pc = "upload"
    /\ uploads' = uploads \ {k}
    /\ republished' = k.data \/ ("upload" \in Faults /\ UNCHANGED republished)
    /\ UNCHANGED <<updaterVars, served, updated, runs, constraints>>

-----------------------------------------------------------------------------
(* initConstraints.                                                        *)

StartRun(k) ==
    /\ k.pc = "ready"
    /\ k.on = "settled"
    /\ Cardinality({l \in runs : l.pc \notin {"ready", "failed"}}) < MaxRuns
    /\ runs' = Replace(runs, k, [k EXCEPT !.pc = "constraints"])
    /\ UNCHANGED <<updaterVars, served, updated, republished, uploads, constraints>>

RetrieveConstraints(k) ==
    /\ k.pc = "constraints"
    /\ runs' = Replace(runs, k, [k EXCEPT !.pc = "indexes", !.have = constraints \ Indexes])
    /\ UNCHANGED <<updaterVars, served, updated, republished, uploads, constraints>>

\* A slip: once there are constraints no more are made.
MissingOnce(have) == IF have # {} THEN {} ELSE Wanted[Cached(Types, cache, rawData)]

\* With what there is it works out what is missing, from the schema of now.
Missing(have) == Wanted[Cached(Types, cache, rawData)] \ (have \union (constraints \intersect Indexes))

RetrieveIndexes(k) ==
    /\ k.pc = "indexes"
    /\ runs' = Replace(runs, k, [k EXCEPT !.pc = "create", !.have = {}, !.todo = Missing(k.have)])
    /\ cache' = WithCached({Types}, cache, rawData)
    /\ UNCHANGED <<published, mode, version, rawData, fetches, fresh, polling, firstFetch, user,
                   served, updated, republished, uploads, constraints>>

\* Nobody handles the rejection.
RetrieveFails(k) ==
    /\ "query" \in Faults
    /\ k.pc \in {"constraints", "indexes"}
    /\ runs' = Replace(runs, k, [k EXCEPT !.pc = "failed", !.have = {}])
    /\ UNCHANGED <<updaterVars, served, updated, republished, uploads, constraints>>

\* One that is there already, or that the data do not allow, is refused, and the
\* run goes on.
CreateConstraint(k) ==
    /\ k.pc = "create"
    /\ \E c \in k.todo :
          /\ constraints' = IF c \in Refused THEN constraints ELSE constraints \union {c}
          /\ runs' = Replace(runs, k, [k EXCEPT !.todo = @ \ {c}])
    /\ UNCHANGED <<updaterVars, served, updated, republished, uploads>>

\* What is read once more at the end is logged only.
FinishRun(k) ==
    /\ k.pc = "create"
    /\ k.todo = {}
    /\ runs' = runs \ {k}
    /\ UNCHANGED <<updaterVars, served, updated, republished, uploads, constraints>>

-----------------------------------------------------------------------------

\* With static data the listeners run as they are registered.
Init ==
    /\ UpdaterInit
    /\ user = [u \in Users |-> Nothing]
    /\ republished = Nothing
    /\ constraints = {}
    /\ IF rawData = NoData
       THEN /\ cache = NoCache
            /\ served = Nothing /\ updated = Nothing
            /\ uploads = {} /\ runs = {}
       ELSE /\ cache = WithCached({Types}, NoCache, rawData)
            /\ served = UpdateApi(rawData, Nothing)
            /\ updated = IsBuildable(rawData)
            /\ uploads = UploadsFor(rawData, Everybody("settled"))
            /\ runs = RunsFor(Everybody("settled"))

FetchStep(f) == (Answer(f) /\ UNCHANGED consumerVars) \/ Settle(f) \/ Change(f)

UploadStep == \E k \in uploads : ReadForUpload(k) \/ UploadEnds(k)

RunStep ==
    \E k \in runs :
        \/ StartRun(k) \/ RetrieveConstraints(k) \/ RetrieveIndexes(k) \/ RetrieveFails(k)
        \/ CreateConstraint(k) \/ FinishRun(k)

Next ==
    \/ Publish /\ UNCHANGED consumerVars
    \/ TtlPasses /\ UNCHANGED consumerVars
    \/ PollTick /\ UNCHANGED consumerVars
    \/ StopPolling /\ UNCHANGED consumerVars
    \/ \E u \in Users : Ready(u) /\ UNCHANGED consumerVars
    \/ \E f \in Fetches : FetchStep(f)
    \/ \E a \in Accessors : ReadSchema(a) /\ UNCHANGED consumerVars
    \/ UploadStep
    \/ RunStep

Spec == Init /\ [][Next]_vars

\* The timer ticks, the event loop runs what is ready, and requests to S3 and
\* Neo4j end.  Requests for the schema do not fail for ever.
FairSpec ==
    /\ Spec
    /\ WF_vars(PollTick /\ UNCHANGED consumerVars)
    /\ \A f \in Fetches :
          /\ SF_vars(Answer(f) /\ UNCHANGED consumerVars)
          /\ WF_vars(FetchStep(f))
    /\ WF_vars(UploadStep) /\ WF_vars(RunStep)

-----------------------------------------------------------------------------
(* Properties.                                                             *)

\* No accessor returns a value of another schema than the one that is there,
\* although values are cached before the first fetch, between two of them and
\* by the listeners: fetch clears the cache after it has set the data and
\* before it emits the event.
CacheIsCurrent == \A a \in Accessors : cache[a] \in {Nothing, rawData}

\* isSchemaUpdating tells the truth: TRUE when the GraphQL handler was made from
\* the schema that the rest of the application uses, FALSE when it was not.
ServesCurrent ==
    rawData # NoData => /\ updated \in BOOLEAN
                        /\ updated <=> served = rawData

\* Once all runs of initConstraints have ended well, everything that the schema
\* wants is there except what Neo4j refuses, also when an older schema came in
\* between or the runs of two schemas overlapped.
ConstraintsInPlace ==
    rawData # NoData /\ runs = {} =>
        Wanted[rawData] \ Refused \subseteq constraints

\* The application moves from one published schema to another in one step: no
\* state shows the data of one and the API of a former one that could have been
\* made from both.
Replica == INSTANCE SchemaReplica WITH schema <- rawData
ImplementsReplica == Replica!Spec

\* While the application polls, it ends up with the newest schema, although
\* answers overtake each other and some requests fail.
CatchesUp == <>[]polling => <>[](rawData = published)

=============================================================================
