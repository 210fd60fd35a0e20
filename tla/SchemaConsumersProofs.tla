------------------------- MODULE SchemaConsumersProofs -------------------------
(***************************************************************************)
(* Theorems about SchemaConsumers and the updater below it.                *)
(***************************************************************************)
EXTENDS SchemaConsumers, TLAPS

-----------------------------------------------------------------------------
(* Values of the constants, and operators.                                 *)

LEMMA VersionsType ==
    /\ 1 \in Versions
    /\ Versions \subseteq Nat \ {0}
    /\ \A v \in Versions : v \notin {NoData, Nothing, Unused, Unanswered}
BY SchemaAssumption DEF Versions

LEMMA NextFetchType == IdleFetches # {} => NextFetch \in Fetches
BY DEF NextFetch, IdleFetches

\* A cache that is current stays so when an accessor is used.
LEMMA WithCachedIsCurrent ==
    ASSUME NEW as, NEW c, NEW data, \A a \in Accessors : c[a] \in {Nothing, data}
    PROVE  \A a \in Accessors : WithCached(as, c, data)[a] \in {Nothing, data}
BY DEF WithCached, Cached

LEMMA WithCachedType ==
    ASSUME NEW as, NEW data \in Versions \union {NoData},
           NEW c \in [Accessors -> Versions \union {NoData, Nothing}]
    PROVE  WithCached(as, c, data) \in [Accessors -> Versions \union {NoData, Nothing}]
BY DEF WithCached, Cached

LEMMA NoCacheType == NoCache \in [Accessors -> Versions \union {NoData, Nothing}]
BY DEF NoCache

\* The listeners see the data that have just been set.
LEMMA ClearedIsRead ==
    ASSUME NEW data PROVE Cached(Types, Cleared(cache), data) = data
BY ConsumersAssumption DEF Cached, Cleared, NoCache

LEMMA ReleasedType ==
    ASSUME NEW f \in Fetches, NEW wait \in Fetches \union {"settled"}
    PROVE  Released(wait, f) \in Fetches \union {"settled"}
BY DEF Released

LEMMA ReleasedCallsType ==
    ASSUME NEW f \in Fetches
    PROVE  /\ \A calls \in SUBSET Upload : ReleasedCalls(calls, f) \subseteq Upload
           /\ \A calls \in SUBSET Run : ReleasedCalls(calls, f) \subseteq Run
BY ReleasedType DEF ReleasedCalls, Upload, Run

LEMMA CallsType ==
    ASSUME NEW on \in [Registrations -> Fetches \union {"settled"}], NEW data
    PROVE  UploadsFor(data, on) \subseteq Upload /\ RunsFor(on) \subseteq Run
BY DEF UploadsFor, RunsFor, Uploading, Running, Upload, Run

LEMMA SettledType == Everybody("settled") \in [Registrations -> Fetches \union {"settled"}]
BY DEF Everybody

LEMMA UpdateApiType ==
    ASSUME NEW data \in Versions, NEW old \in Buildable \union {Nothing}
    PROVE  /\ UpdateApi(data, old) \in Buildable \union {Nothing}
           /\ IsBuildable(data) \in BOOLEAN
           /\ IsBuildable(data) <=> UpdateApi(data, old) = data
BY VersionsType DEF UpdateApi, IsBuildable

\* What ready() awaits without a request of its own is there.
LEMMA AwaitedType ==
    ASSUME UpdaterTypeOK, ~ NeedsFetch
    PROVE  Awaited \in Fetches \union {"settled"}
BY DEF UpdaterTypeOK, NeedsFetch, Awaited

LEMMA WaitsType ==
    ASSUME UpdaterTypeOK, NEW f \in Fetches, NEW data
    PROVE  /\ Waits(data, f).upload \in [Registrations -> Fetches \union {"settled"}]
           /\ Waits(data, f).run \in [Registrations -> Fetches \union {"settled"}]
<1>1. CASE ~ NeedsFetch
  <2>1. Released(Awaited, f) \in Fetches \union {"settled"}
    BY <1>1, AwaitedType, ReleasedType
  <2> QED
    BY <1>1, <2>1 DEF Waits, Everybody
<1>2. CASE NeedsFetch /\ mode = "poll"
  BY <1>2 DEF Waits, Everybody
<1>3. CASE NeedsFetch /\ mode # "poll" /\ UploadsFor(data, FirstOnly(f)) # {}
  BY <1>3 DEF Waits, Everybody, FirstOnly
<1>4. CASE NeedsFetch /\ mode # "poll" /\ ~ UploadsFor(data, FirstOnly(f)) # {}
  BY <1>4 DEF Waits, Everybody, FirstOnly
<1> QED
  BY <1>1, <1>2, <1>3, <1>4

-----------------------------------------------------------------------------
(* Type correctness.                                                       *)

LEMMA AskType ==
    ASSUME UpdaterTypeOK, Ask
    PROVE  fetches' \in [Fetches -> Versions \union {Unused, Unanswered}] /\ fresh' \in BOOLEAN
BY NextFetchType DEF UpdaterTypeOK, Ask

LEMMA SettlePromiseType ==
    ASSUME UpdaterTypeOK, NEW f \in Fetches, SettlePromise(f)
    PROVE  /\ fetches' \in [Fetches -> Versions \union {Unused, Unanswered}]
           /\ firstFetch' \in Fetches \union {Nothing, "settled"}
           /\ user' \in [Users -> Fetches \union {Nothing, "settled"}]
BY DEF UpdaterTypeOK, SettlePromise, Released

LEMMA PromisesType ==
    ASSUME UpdaterTypeOK, NEW f \in Fetches, Promises(f)
    PROVE  /\ fetches' \in [Fetches -> Versions \union {Unused, Unanswered}]
           /\ firstFetch' \in Fetches \union {Nothing, "settled"}
           /\ user' \in [Users -> Fetches \union {Nothing, "settled"}]
           /\ polling' \in BOOLEAN /\ fresh' \in BOOLEAN
BY DEF UpdaterTypeOK, Promises, Released, NeedsFetch

LEMMA ReadyType ==
    ASSUME UpdaterTypeOK, NEW u \in Users, Ready(u)
    PROVE  UpdaterTypeOK'
<1>1. CASE NeedsFetch
  <2>1. Ask /\ NextFetch \in Fetches
    BY <1>1, NextFetchType DEF Ready, Ask
  <2>2. fetches' \in [Fetches -> Versions \union {Unused, Unanswered}] /\ fresh' \in BOOLEAN
    BY <2>1, AskType
  <2> QED
    BY <1>1, <2>1, <2>2 DEF Ready, UpdaterTypeOK
<1>2. CASE ~ NeedsFetch
  BY <1>2, AwaitedType DEF Ready, UpdaterTypeOK
<1> QED
  BY <1>1, <1>2

\* The actions that no consumer has a part in.
LEMMA UpdaterStepsType ==
    ASSUME UpdaterTypeOK
    PROVE  /\ Publish => UpdaterTypeOK'
           /\ TtlPasses => UpdaterTypeOK'
           /\ PollTick => UpdaterTypeOK'
           /\ StopPolling => UpdaterTypeOK'
           /\ \A f \in Fetches : Answer(f) => UpdaterTypeOK'
           /\ \A a \in Accessors : ReadSchema(a) => UpdaterTypeOK'
           /\ UNCHANGED updaterVars => UpdaterTypeOK'
<1>1. Publish => UpdaterTypeOK'
  BY SchemaAssumption DEF UpdaterTypeOK, Publish, Versions
<1>2. TtlPasses => UpdaterTypeOK'
  BY DEF UpdaterTypeOK, TtlPasses
<1>3. PollTick => UpdaterTypeOK'
  <2>1. PollTick => Ask
    BY DEF PollTick
  <2> QED
    BY <2>1, AskType DEF UpdaterTypeOK, PollTick
<1>4. StopPolling => UpdaterTypeOK'
  BY DEF UpdaterTypeOK, StopPolling
<1>5. \A f \in Fetches : Answer(f) => UpdaterTypeOK'
  BY DEF UpdaterTypeOK, Answer
<1>6. \A a \in Accessors : ReadSchema(a) => UpdaterTypeOK'
  BY WithCachedType DEF UpdaterTypeOK, ReadSchema
<1>7. UNCHANGED updaterVars => UpdaterTypeOK'
  BY DEF UpdaterTypeOK, updaterVars
<1> QED
  BY <1>1, <1>2, <1>3, <1>4, <1>5, <1>6, <1>7

LEMMA SettleType ==
    ASSUME TypeOK, NEW f \in Fetches, Settle(f)
    PROVE  TypeOK'
<1>1. UpdaterTypeOK /\ SettlePromise(f)
  BY DEF TypeOK, Settle, NotChanged, FetchFails
<1>2. UpdaterTypeOK'
  BY <1>1, SettlePromiseType DEF UpdaterTypeOK, Settle, NotChanged, FetchFails
<1>3. uploads' \subseteq Upload /\ runs' \subseteq Run
  BY ReleasedCallsType DEF TypeOK, Settle
<1> QED
  BY <1>2, <1>3 DEF TypeOK, Settle

LEMMA ChangeType ==
    ASSUME TypeOK, NEW f \in Fetches, Change(f)
    PROVE  TypeOK'
<1> DEFINE wait == Waits(fetches[f], f)
<1>1. UpdaterTypeOK /\ Store(f) /\ Promises(f) /\ fetches[f] \in Versions
  BY DEF TypeOK, Change, Store
<1>2. Cached(Types, Cleared(cache), fetches[f]) = fetches[f]
  BY ClearedIsRead
<1>3. cache' \in [Accessors -> Versions \union {NoData, Nothing}]
  BY <1>1, NoCacheType, WithCachedType DEF Change, Cleared
<1>4. UpdaterTypeOK'
  BY <1>1, <1>3, PromisesType DEF UpdaterTypeOK, Change, Store
<1>5. /\ wait.upload \in [Registrations -> Fetches \union {"settled"}]
      /\ wait.run \in [Registrations -> Fetches \union {"settled"}]
  BY <1>1, WaitsType
<1> HIDE DEF wait
<1>6. uploads' \subseteq Upload
  <2>1. uploads' = ReleasedCalls(uploads, f) \union UploadsFor(fetches[f], wait.upload)
    BY <1>2 DEF Change, wait
  <2> QED
    BY <1>5, <2>1, ReleasedCallsType, CallsType DEF TypeOK
<1>7. runs' \subseteq Run
  <2>1. runs' = ReleasedCalls({k \in runs : k.pc # "failed"}, f) \union RunsFor(wait.run)
    BY <1>2 DEF Change, wait
  <2>2. {k \in runs : k.pc # "failed"} \in SUBSET Run
    BY DEF TypeOK
  <2> QED
    BY <1>5, <2>1, <2>2, ReleasedCallsType, CallsType
<1>8. served' \in Versions \union {Nothing} /\ updated' \in BOOLEAN
  BY <1>1, <1>2 DEF Change, UpdateApi, IsBuildable, TypeOK
<1> QED
  BY <1>4, <1>6, <1>7, <1>8 DEF Change, TypeOK

\* sendSchemaToS3 and initConstraints are only called by an event, so there is a
\* schema that they can read.
SchemaBeforeCalls ==
    /\ uploads # {} \/ runs # {} => rawData \in Versions
    /\ \A k \in uploads : k.pc = "upload" => k.data \in Versions

LEMMA UploadStepType ==
    ASSUME TypeOK, SchemaBeforeCalls, UploadStep
    PROVE  TypeOK'
<1>1. PICK k \in uploads : ReadForUpload(k) \/ UploadEnds(k)
  BY DEF UploadStep
<1>2. k \in Upload /\ rawData \in Versions \union {NoData} /\ UNCHANGED updaterVars
  BY <1>1 DEF TypeOK, UpdaterTypeOK, ReadForUpload, UploadEnds
<1>3. UpdaterTypeOK'
  BY <1>2, UpdaterStepsType DEF TypeOK
<1>4. CASE ReadForUpload(k)
  <2>1. [k EXCEPT !.pc = "upload", !.data = rawData] \in Upload
    BY <1>2 DEF Upload
  <2> QED
    BY <1>3, <1>4, <2>1 DEF ReadForUpload, Replace, TypeOK
<1>5. CASE UploadEnds(k)
  <2>1. k.data \in Versions
    BY <1>5 DEF UploadEnds, SchemaBeforeCalls
  <2> QED
    BY <1>3, <1>5, <2>1 DEF UploadEnds, TypeOK
<1> QED
  BY <1>1, <1>4, <1>5

LEMMA MissingType ==
    ASSUME TypeOK, CacheIsCurrent, rawData \in Versions
    PROVE  \A have : Missing(have) \subseteq Constraints
<1>1. Cached(Types, cache, rawData) \in Versions
  BY ConsumersAssumption DEF CacheIsCurrent, Cached
<1> QED
  BY <1>1, ConsumersAssumption DEF Missing

LEMMA RunStepType ==
    ASSUME TypeOK, CacheIsCurrent, SchemaBeforeCalls, RunStep
    PROVE  TypeOK'
<1>1. PICK k \in runs :
          \/ StartRun(k) \/ RetrieveConstraints(k) \/ RetrieveIndexes(k) \/ RetrieveFails(k)
          \/ CreateConstraint(k) \/ FinishRun(k)
  BY DEF RunStep
<1>2. k \in Run /\ UpdaterTypeOK /\ constraints \subseteq Constraints
  BY DEF TypeOK
<1>3. UNCHANGED updaterVars => UpdaterTypeOK'
  BY <1>2, UpdaterStepsType
<1>4. CASE StartRun(k)
  <2>1. [k EXCEPT !.pc = "constraints"] \in Run
    BY <1>2 DEF Run
  <2> QED
    BY <1>3, <1>4, <2>1 DEF StartRun, Replace, TypeOK
<1>5. CASE RetrieveConstraints(k)
  <2>1. [k EXCEPT !.pc = "indexes", !.have = constraints \ Indexes] \in Run
    BY <1>2 DEF Run
  <2> QED
    BY <1>3, <1>5, <2>1 DEF RetrieveConstraints, Replace, TypeOK
<1>6. CASE RetrieveIndexes(k)
  <2>1. Missing(k.have) \subseteq Constraints
    BY <1>1, MissingType DEF SchemaBeforeCalls
  <2>2. [k EXCEPT !.pc = "create", !.have = {}, !.todo = Missing(k.have)] \in Run
    BY <1>2, <2>1 DEF Run
  <2>3. cache' \in [Accessors -> Versions \union {NoData, Nothing}]
    BY <1>2, <1>6, WithCachedType DEF RetrieveIndexes, UpdaterTypeOK
  <2>4. UpdaterTypeOK'
    BY <1>2, <1>6, <2>3 DEF RetrieveIndexes, UpdaterTypeOK
  <2> QED
    BY <1>6, <2>2, <2>4 DEF RetrieveIndexes, Replace, TypeOK
<1>7. CASE RetrieveFails(k)
  <2>1. [k EXCEPT !.pc = "failed", !.have = {}] \in Run
    BY <1>2 DEF Run
  <2> QED
    BY <1>3, <1>7, <2>1 DEF RetrieveFails, Replace, TypeOK
<1>8. CASE CreateConstraint(k)
  <2>1. PICK c \in k.todo :
            /\ constraints' = IF c \in Refused THEN constraints ELSE constraints \union {c}
            /\ runs' = Replace(runs, k, [k EXCEPT !.todo = @ \ {c}])
    BY <1>8 DEF CreateConstraint
  <2>2. c \in Constraints /\ [k EXCEPT !.todo = @ \ {c}] \in Run
    BY <1>2 DEF Run
  <2> QED
    BY <1>2, <1>3, <1>8, <2>1, <2>2 DEF CreateConstraint, Replace, TypeOK
<1>9. CASE FinishRun(k)
  BY <1>3, <1>9 DEF FinishRun, TypeOK
<1> QED
  BY <1>1, <1>4, <1>5, <1>6, <1>7, <1>8, <1>9

-----------------------------------------------------------------------------
(* The steps of Next, by what they change of what the properties are about. *)

\* Every step but these three kinds leaves data, API and cache alone.
LEMMA StepKinds ==
    ASSUME [Next]_vars
    PROVE  \/ UNCHANGED <<rawData, version, served, updated, cache>>
           \/ \E f \in Fetches : Change(f)
           \/ /\ cache' \in {WithCached({a}, cache, rawData) : a \in Accessors}
              /\ UNCHANGED <<rawData, version, served, updated>>
<1>1. CASE UNCHANGED vars
  BY <1>1 DEF vars, updaterVars, consumerVars
<1>2. CASE (Publish \/ TtlPasses \/ PollTick \/ StopPolling) /\ UNCHANGED consumerVars
  BY <1>2 DEF Publish, TtlPasses, PollTick, StopPolling, consumerVars
<1>3. ASSUME NEW u \in Users, Ready(u), UNCHANGED consumerVars
      PROVE  UNCHANGED <<rawData, version, served, updated, cache>>
  BY <1>3 DEF Ready, consumerVars
<1>4. ASSUME NEW f \in Fetches, FetchStep(f)
      PROVE  Change(f) \/ UNCHANGED <<rawData, version, served, updated, cache>>
  BY <1>4 DEF FetchStep, Answer, Settle, NotChanged, FetchFails, consumerVars
<1>5. ASSUME NEW a \in Accessors, ReadSchema(a), UNCHANGED consumerVars
      PROVE  /\ cache' = WithCached({a}, cache, rawData)
             /\ UNCHANGED <<rawData, version, served, updated>>
  BY <1>5 DEF ReadSchema, consumerVars
<1>6. ASSUME UploadStep PROVE UNCHANGED <<rawData, version, served, updated, cache>>
  BY <1>6 DEF UploadStep, ReadForUpload, UploadEnds, updaterVars
<1>7. ASSUME RunStep
      PROVE  \/ UNCHANGED <<rawData, version, served, updated, cache>>
             \/ /\ cache' = WithCached({Types}, cache, rawData)
                /\ UNCHANGED <<rawData, version, served, updated>>
  BY <1>7 DEF RunStep, StartRun, RetrieveConstraints, RetrieveIndexes, RetrieveFails,
              CreateConstraint, FinishRun, updaterVars
<1> QED
  BY <1>1, <1>2, <1>3, <1>4, <1>5, <1>6, <1>7, ConsumersAssumption DEF Next

LEMMA InitCacheIsCurrent == Init => CacheIsCurrent
BY WithCachedIsCurrent DEF Init, CacheIsCurrent, NoCache

LEMMA NextCacheIsCurrent ==
    ASSUME CacheIsCurrent, [Next]_vars
    PROVE  CacheIsCurrent'
<1>1. ASSUME NEW f \in Fetches, Change(f)
      PROVE  CacheIsCurrent'
  <2>1. \A a \in Accessors : Cleared(cache)[a] \in {Nothing, fetches[f]}
    BY DEF Cleared, NoCache
  <2>2. \A a \in Accessors : WithCached({Types}, Cleared(cache), fetches[f])[a] \in {Nothing, fetches[f]}
    BY <2>1, WithCachedIsCurrent
  <2> QED
    BY <1>1, <2>2 DEF Change, Store, CacheIsCurrent
<1>2. ASSUME NEW a \in Accessors, cache' = WithCached({a}, cache, rawData), UNCHANGED rawData
      PROVE  CacheIsCurrent'
  BY <1>2, WithCachedIsCurrent DEF CacheIsCurrent
<1>3. CASE UNCHANGED <<rawData, version, served, updated, cache>>
  BY <1>3 DEF CacheIsCurrent
<1> QED
  BY <1>1, <1>2, <1>3, StepKinds

\* No accessor ever returns a value of a schema that has been replaced, whatever
\* is cached before, between and during the changes, and by whom.
THEOREM CacheStaysCurrent == Spec => []CacheIsCurrent
BY InitCacheIsCurrent, NextCacheIsCurrent, PTL DEF Spec

-----------------------------------------------------------------------------
(* Type correctness needs that a run of initConstraints finds a schema whose *)
(* wishes are known, and that accessors tell it those of that schema.        *)
TypeInv == TypeOK /\ CacheIsCurrent /\ SchemaBeforeCalls

LEMMA ReleasedCallsKeep ==
    ASSUME NEW f \in Fetches, NEW calls \in SUBSET Upload
    PROVE  \A k \in ReleasedCalls(calls, f) : \E l \in calls : k.pc = l.pc /\ k.data = l.data
BY DEF ReleasedCalls, Upload

LEMMA NextSchemaBeforeCalls ==
    ASSUME TypeInv, [Next]_vars
    PROVE  SchemaBeforeCalls'
<1> USE DEF TypeInv
<1>1. CASE UNCHANGED <<rawData, uploads, runs>>
  BY <1>1 DEF SchemaBeforeCalls
<1>2. ASSUME NEW f \in Fetches, Settle(f)
      PROVE  SchemaBeforeCalls'
  <2>1. /\ uploads' = ReleasedCalls(uploads, f)
        /\ runs' = ReleasedCalls(runs, f)
        /\ rawData' = rawData
    BY <1>2 DEF Settle, NotChanged, FetchFails
  <2>2. uploads' # {} => uploads # {}
    BY <2>1 DEF ReleasedCalls
  <2>3. runs' # {} => runs # {}
    BY <2>1 DEF ReleasedCalls
  <2>4. \A k \in uploads' : \E l \in uploads : k.pc = l.pc /\ k.data = l.data
    BY <2>1, ReleasedCallsKeep DEF TypeOK
  <2> QED
    BY <2>1, <2>2, <2>3, <2>4 DEF SchemaBeforeCalls
<1>3. ASSUME NEW f \in Fetches, Change(f)
      PROVE  SchemaBeforeCalls'
  <2>1. rawData' \in Versions
    BY <1>3 DEF Change, Store
  <2>2. PICK data, on : uploads' = ReleasedCalls(uploads, f) \union UploadsFor(data, on)
    BY <1>3 DEF Change
  <2>3. \A k \in UploadsFor(data, on) : k.pc = "ready"
    BY DEF UploadsFor, Uploading
  <2>4. \A k \in ReleasedCalls(uploads, f) : \E l \in uploads : k.pc = l.pc /\ k.data = l.data
    BY ReleasedCallsKeep DEF TypeOK
  <2> QED
    BY <2>1, <2>2, <2>3, <2>4 DEF SchemaBeforeCalls
<1>4. ASSUME UploadStep
      PROVE  SchemaBeforeCalls'
  <2>1. PICK k \in uploads : ReadForUpload(k) \/ UploadEnds(k)
    BY <1>4 DEF UploadStep
  <2>2. k \in Upload /\ rawData \in Versions /\ rawData' = rawData
    BY <2>1 DEF TypeOK, SchemaBeforeCalls, ReadForUpload, UploadEnds, updaterVars
  <2>3. CASE ReadForUpload(k)
    <3>1. [k EXCEPT !.pc = "upload", !.data = rawData].data = rawData
      BY <2>2 DEF Upload
    <3> QED
      BY <2>2, <2>3, <3>1 DEF ReadForUpload, Replace, SchemaBeforeCalls
  <2>4. CASE UploadEnds(k)
    BY <2>2, <2>4 DEF UploadEnds, SchemaBeforeCalls
  <2> QED
    BY <2>1, <2>3, <2>4
<1>5. ASSUME RunStep
      PROVE  SchemaBeforeCalls'
  <2>1. runs # {} /\ UNCHANGED <<rawData, uploads>>
    BY <1>5 DEF RunStep, StartRun, RetrieveConstraints, RetrieveIndexes, RetrieveFails,
                CreateConstraint, FinishRun, updaterVars
  <2> QED
    BY <2>1 DEF SchemaBeforeCalls
<1>6. CASE UNCHANGED vars
  BY <1>1, <1>6 DEF vars, updaterVars, consumerVars
<1>7. CASE (Publish \/ TtlPasses \/ PollTick \/ StopPolling) /\ UNCHANGED consumerVars
  BY <1>1, <1>7 DEF Publish, TtlPasses, PollTick, StopPolling, consumerVars
<1>8. CASE \/ \E u \in Users : Ready(u) /\ UNCHANGED consumerVars
           \/ \E a \in Accessors : ReadSchema(a) /\ UNCHANGED consumerVars
  BY <1>1, <1>8 DEF Ready, ReadSchema, consumerVars
<1>9. CASE \E f \in Fetches : Answer(f) /\ UNCHANGED consumerVars
  BY <1>1, <1>9 DEF Answer, consumerVars
<1> QED
  BY <1>2, <1>3, <1>4, <1>5, <1>6, <1>7, <1>8, <1>9 DEF Next, FetchStep

LEMMA NextType ==
    ASSUME TypeInv, [Next]_vars
    PROVE  TypeOK'
<1> USE DEF TypeInv
<1>1. ASSUME UpdaterTypeOK', UNCHANGED consumerVars PROVE TypeOK'
  BY <1>1 DEF TypeOK, consumerVars
<1>2. UpdaterTypeOK
  BY DEF TypeOK
<1>3. CASE UNCHANGED vars
  BY <1>1, <1>2, <1>3, UpdaterStepsType DEF vars
<1>4. CASE (Publish \/ TtlPasses \/ PollTick \/ StopPolling) /\ UNCHANGED consumerVars
  BY <1>1, <1>2, <1>4, UpdaterStepsType
<1>5. CASE \E u \in Users : Ready(u) /\ UNCHANGED consumerVars
  BY <1>1, <1>2, <1>5, ReadyType
<1>6. CASE \E a \in Accessors : ReadSchema(a) /\ UNCHANGED consumerVars
  BY <1>1, <1>2, <1>6, UpdaterStepsType
<1>7. CASE \E f \in Fetches : FetchStep(f)
  <2>1. PICK f \in Fetches : FetchStep(f)
    BY <1>7
  <2>2. CASE Answer(f) /\ UNCHANGED consumerVars
    BY <1>1, <1>2, <2>2, UpdaterStepsType
  <2> QED
    BY <2>1, <2>2, SettleType, ChangeType DEF FetchStep
<1>8. CASE UploadStep
  BY <1>8, UploadStepType
<1>9. CASE RunStep
  BY <1>9, RunStepType
<1> QED
  BY <1>3, <1>4, <1>5, <1>6, <1>7, <1>8, <1>9 DEF Next

LEMMA InitType == Init => TypeInv
<1> SUFFICES ASSUME Init PROVE TypeInv
  OBVIOUS
<1>1. 1 \in Versions
  BY VersionsType
<1>2. CASE rawData = NoData
  <2>1. cache \in [Accessors -> Versions \union {NoData, Nothing}]
    BY <1>2, NoCacheType DEF Init
  <2> QED
    BY <1>1, <1>2, <2>1, InitCacheIsCurrent DEF Init, UpdaterInit, TypeInv, TypeOK, UpdaterTypeOK, SchemaBeforeCalls
<1>3. CASE rawData # NoData
  <2>1. rawData = 1 /\ rawData \in Versions
    BY <1>1, <1>3 DEF Init, UpdaterInit
  <2>2. cache \in [Accessors -> Versions \union {NoData, Nothing}]
    BY <1>3, <2>1, NoCacheType, WithCachedType DEF Init
  <2>3. UpdaterTypeOK
    BY <1>1, <2>1, <2>2 DEF Init, UpdaterInit, UpdaterTypeOK
  <2>4. uploads \subseteq Upload /\ runs \subseteq Run
    BY <1>3, SettledType, CallsType DEF Init
  <2>5. \A k \in uploads : k.pc = "ready"
    BY <1>3 DEF Init, UploadsFor, Uploading
  <2>6. served \in Versions \union {Nothing} /\ updated \in BOOLEAN
    BY <1>3, <2>1 DEF Init, UpdateApi, IsBuildable
  <2> QED
    BY <2>1, <2>3, <2>4, <2>5, <2>6, InitCacheIsCurrent DEF Init, TypeInv, TypeOK, SchemaBeforeCalls
<1> QED
  BY <1>2, <1>3

LEMMA NextTypeInv == TypeInv /\ [Next]_vars => TypeInv'
BY NextType, NextCacheIsCurrent, NextSchemaBeforeCalls DEF TypeInv

\* Every promise, call and version is well formed, whatever is published, asked,
\* answered or refused, and in whatever order.
THEOREM TypeCorrect == Spec => []TypeOK
<1>1. TypeInv => TypeOK
  BY DEF TypeInv
<1> QED
  BY <1>1, InitType, NextTypeInv, PTL DEF Spec

-----------------------------------------------------------------------------
(* The GraphQL handler.                                                    *)
ApiInv == ServesCurrent /\ served \in Buildable \union {Nothing}

LEMMA InitApiInv == Init => ApiInv
<1> SUFFICES ASSUME Init PROVE ApiInv
  OBVIOUS
<1>1. CASE rawData = NoData
  BY <1>1 DEF Init, ApiInv, ServesCurrent
<1>2. CASE rawData # NoData
  <2>1. rawData \in Versions
    BY <1>2, VersionsType DEF Init, UpdaterInit
  <2> QED
    BY <1>2, <2>1, UpdateApiType DEF Init, ApiInv, ServesCurrent
<1> QED
  BY <1>1, <1>2

LEMMA NextApiInv ==
    ASSUME ApiInv, [Next]_vars
    PROVE  ApiInv'
<1>1. ASSUME NEW f \in Fetches, Change(f)
      PROVE  ApiInv'
  <2>1. /\ fetches[f] \in Versions /\ rawData' = fetches[f]
        /\ served' = UpdateApi(fetches[f], served)
        /\ updated' = IsBuildable(fetches[f])
    BY <1>1, ClearedIsRead DEF Change, Store
  <2> QED
    BY <2>1, UpdateApiType DEF ApiInv, ServesCurrent
<1>2. CASE UNCHANGED <<rawData, served, updated>>
  BY <1>2 DEF ApiInv, ServesCurrent
<1> QED
  BY <1>1, <1>2, StepKinds

\* isSchemaUpdating always tells whether the GraphQL API is that of the schema the
\* rest of the application has: a version that cannot be built never passes for
\* one that has been, however often the versions change back and forth.
THEOREM ApiIsCurrent == Spec => []ServesCurrent
<1>1. ApiInv => ServesCurrent
  BY DEF ApiInv
<1>2. ApiInv /\ [Next]_vars => ApiInv'
  BY NextApiInv
<1> QED
  BY <1>1, <1>2, InitApiInv, PTL DEF Spec

-----------------------------------------------------------------------------
(* The refinement.  An answer brings a version that had been published, and  *)
(* the updater knows the version of the data it has.                         *)
ReplicaInv ==
    /\ version = rawData
    /\ \A f \in Fetches : fetches[f] \in Versions => fetches[f] <= published

LEMMA NextReplicaInv ==
    ASSUME TypeInv, ReplicaInv, [Next]_vars
    PROVE  ReplicaInv'
<1>1. /\ fetches \in [Fetches -> Versions \union {Unused, Unanswered}]
      /\ published \in Versions /\ published \in Nat
      /\ Unused \notin Versions /\ Unanswered \notin Versions
  BY VersionsType DEF TypeInv, TypeOK, UpdaterTypeOK
<1>2. CASE UNCHANGED <<version, rawData, fetches, published>>
  BY <1>2 DEF ReplicaInv
<1>3. CASE Publish
  <2>1. \A v \in Versions : v <= published => v <= published + 1
    BY <1>1, VersionsType
  <2> QED
    BY <1>3, <2>1 DEF Publish, ReplicaInv
<1>4. ASSUME Ask, UNCHANGED <<version, rawData, published>> PROVE ReplicaInv'
  <2>1. NextFetch \in Fetches
    BY <1>4, NextFetchType DEF Ask
  <2> QED
    BY <1>1, <1>4, <2>1 DEF Ask, ReplicaInv
<1>5. ASSUME NEW u \in Users, Ready(u) PROVE ReplicaInv'
  BY <1>2, <1>4, <1>5 DEF Ready
<1>6. CASE TtlPasses \/ PollTick \/ StopPolling
  BY <1>2, <1>4, <1>6 DEF TtlPasses, PollTick, StopPolling
<1>7. ASSUME NEW f \in Fetches, FetchStep(f) PROVE ReplicaInv'
  <2>1. CASE Answer(f)
    BY <1>1, <2>1 DEF Answer, ReplicaInv
  <2>2. CASE Settle(f)
    BY <1>1, <2>2 DEF Settle, NotChanged, FetchFails, SettlePromise, ReplicaInv
  <2>3. CASE Change(f)
    BY <1>1, <2>3 DEF Change, Store, Promises, ReplicaInv
  <2> QED
    BY <1>7, <2>1, <2>2, <2>3 DEF FetchStep
<1>8. ASSUME NEW a \in Accessors, ReadSchema(a) PROVE ReplicaInv'
  BY <1>2, <1>8 DEF ReadSchema
<1>9. CASE UploadStep
  BY <1>2, <1>9 DEF UploadStep, ReadForUpload, UploadEnds, updaterVars
<1>10. CASE RunStep
  BY <1>2, <1>10 DEF RunStep, StartRun, RetrieveConstraints, RetrieveIndexes, RetrieveFails,
                     CreateConstraint, FinishRun, updaterVars
<1>11. CASE UNCHANGED vars
  BY <1>2, <1>11 DEF vars, updaterVars
<1> QED
  BY <1>3, <1>5, <1>6, <1>7, <1>8, <1>9, <1>10, <1>11 DEF Next

LEMMA InitReplica == Init => ReplicaInv /\ Replica!Init
<1> SUFFICES ASSUME Init PROVE ReplicaInv /\ Replica!Init
  OBVIOUS
<1>1. ReplicaInv
  BY VersionsType DEF Init, UpdaterInit, ReplicaInv
<1>2. Replica!Init
  BY VersionsType DEF Init, UpdaterInit, Replica!Init, Replica!Serve, UpdateApi, IsBuildable
<1> QED
  BY <1>1, <1>2

LEMMA ChangeFollows ==
    ASSUME TypeInv, ReplicaInv, NEW f \in Fetches, Change(f)
    PROVE  Replica!Follow
<1>1. /\ rawData' = fetches[f] /\ fetches[f] \in Versions /\ fetches[f] # rawData
      /\ served' = UpdateApi(fetches[f], served)
      /\ published' = published
  BY ClearedIsRead DEF Change, Store, ReplicaInv
<1>2. fetches[f] \in 1..published
  BY <1>1, VersionsType DEF ReplicaInv, TypeInv, TypeOK, UpdaterTypeOK
<1> QED
  BY <1>1, <1>2 DEF Replica!Follow, Replica!Serve, UpdateApi, IsBuildable

LEMMA NextReplica ==
    ASSUME TypeInv, ReplicaInv, [Next]_vars
    PROVE  [Replica!Next]_<<published, rawData, served>>
<1>1. CASE Publish /\ UNCHANGED consumerVars
  BY <1>1 DEF Publish, consumerVars, Replica!Next, Replica!Publish
<1>2. ASSUME NEW f \in Fetches, Change(f) PROVE [Replica!Next]_<<published, rawData, served>>
  BY <1>2, ChangeFollows DEF Replica!Next
<1>3. CASE (TtlPasses \/ PollTick \/ StopPolling) /\ UNCHANGED consumerVars
  BY <1>3 DEF TtlPasses, PollTick, StopPolling, consumerVars
<1>4. CASE \/ \E u \in Users : Ready(u) /\ UNCHANGED consumerVars
           \/ \E a \in Accessors : ReadSchema(a) /\ UNCHANGED consumerVars
  BY <1>4 DEF Ready, ReadSchema, consumerVars
<1>5. ASSUME NEW f \in Fetches, FetchStep(f), ~ Change(f)
      PROVE  UNCHANGED <<published, rawData, served>>
  BY <1>5 DEF FetchStep, Answer, Settle, NotChanged, FetchFails, consumerVars
<1>6. CASE UploadStep
  BY <1>6 DEF UploadStep, ReadForUpload, UploadEnds, updaterVars
<1>7. CASE RunStep
  BY <1>7 DEF RunStep, StartRun, RetrieveConstraints, RetrieveIndexes, RetrieveFails,
              CreateConstraint, FinishRun, updaterVars
<1>8. CASE UNCHANGED vars
  BY <1>8 DEF vars, updaterVars, consumerVars
<1> QED
  BY <1>1, <1>2, <1>3, <1>4, <1>5, <1>6, <1>7, <1>8 DEF Next

\* Seen from outside an application has one published schema after the other, with
\* the GraphQL API of it or a former one, although requests overlap and overtake
\* each other, polling is stopped and begun, and accessors fill the cache.
THEOREM SchemaIsReplica == Spec => ImplementsReplica
<1>1. TypeInv /\ ReplicaInv /\ [Next]_vars => ReplicaInv'
  BY NextReplicaInv
<1>2. TypeInv /\ ReplicaInv /\ [Next]_vars => [Replica!Next]_<<published, rawData, served>>
  BY NextReplica
<1> QED
  BY <1>1, <1>2, InitType, NextTypeInv, InitReplica, PTL DEF Spec, ImplementsReplica, Replica!Spec

-----------------------------------------------------------------------------
(* The constraints.  While something that the schema wants is missing there  *)
(* is a run that will see to it: one that has not yet worked out what is     *)
(* missing, one that has and has not got to it, or one that has failed.  A   *)
(* run takes for there only what is, which nothing removes.                  *)
Granted == Wanted[rawData] \ Refused
WillGrant(k) == k.pc = "create" => Granted \subseteq constraints \union k.todo

WorkAhead ==
    rawData \in Versions => Granted \subseteq constraints \/ \E k \in runs : WillGrant(k)
ReadIsThere == \A k \in runs : k.pc = "indexes" => k.have \subseteq constraints

ConstraintsInv == TypeInv /\ WorkAhead /\ ReadIsThere

LEMMA RunsForSome == \A on : \E k \in RunsFor(on) : k.pc = "ready"
<1> SUFFICES ASSUME NEW on PROVE \E k \in RunsFor(on) : k.pc = "ready"
  OBVIOUS
<1>1. 1 \in Registrations
  BY ConsumersAssumption DEF Registrations
<1>2. Running(1, on[1]) \in RunsFor(on) /\ Running(1, on[1]).pc = "ready"
  BY <1>1 DEF RunsFor, Running
<1> QED
  BY <1>2

LEMMA RunsForReady == \A on : \A k \in RunsFor(on) : k.pc = "ready"
BY DEF RunsFor, Running

\* Calls that are released are otherwise as they were.
LEMMA ReleasedRuns ==
    ASSUME NEW f \in Fetches, NEW calls \in SUBSET Run
    PROVE  /\ \A k \in ReleasedCalls(calls, f) :
                  \E l \in calls : k.pc = l.pc /\ k.have = l.have /\ k.todo = l.todo
           /\ \A l \in calls :
                  \E k \in ReleasedCalls(calls, f) : k.pc = l.pc /\ k.have = l.have /\ k.todo = l.todo
<1> DEFINE K(l) == [l EXCEPT !.on = Released(@, f)]
<1>1. \A l \in calls : K(l).pc = l.pc /\ K(l).have = l.have /\ K(l).todo = l.todo
  BY DEF Run
<1>2. ReleasedCalls(calls, f) = {K(l) : l \in calls}
  BY DEF ReleasedCalls
<1> HIDE DEF K
<1> QED
  BY <1>1, <1>2

LEMMA InitConstraints == Init => ConstraintsInv
<1> SUFFICES ASSUME Init PROVE WorkAhead /\ ReadIsThere
  BY InitType DEF ConstraintsInv
<1>1. CASE rawData = NoData
  BY <1>1, VersionsType DEF Init, WorkAhead, ReadIsThere
<1>2. CASE rawData # NoData
  <2>1. runs = RunsFor(Everybody("settled"))
    BY <1>2 DEF Init
  <2>2. WorkAhead
    BY <2>1, RunsForSome DEF WorkAhead, WillGrant
  <2>3. ReadIsThere
    BY <2>1, RunsForReady DEF ReadIsThere
  <2> QED
    BY <2>2, <2>3
<1> QED
  BY <1>1, <1>2

LEMMA ChangeConstraints ==
    ASSUME ConstraintsInv, NEW f \in Fetches, Change(f)
    PROVE  WorkAhead' /\ ReadIsThere'
<1> DEFINE kept == {k \in runs : k.pc # "failed"}
<1>1. PICK on : runs' = ReleasedCalls(kept, f) \union RunsFor(on)
  BY DEF Change
<1>2. constraints' = constraints /\ kept \in SUBSET Run
  BY DEF Change, ConstraintsInv, TypeInv, TypeOK
<1>3. WorkAhead'
  <2>1. PICK k \in RunsFor(on) : k.pc = "ready"
    BY RunsForSome
  <2> QED
    BY <1>1, <2>1 DEF WorkAhead, WillGrant
<1>4. ReadIsThere'
  <2> SUFFICES ASSUME NEW k \in runs', k.pc = "indexes" PROVE k.have \subseteq constraints'
    BY DEF ReadIsThere
  <2>1. k \in ReleasedCalls(kept, f)
    BY <1>1, RunsForReady
  <2>2. PICK l \in kept : k.pc = l.pc /\ k.have = l.have /\ k.todo = l.todo
    BY <1>2, <2>1, ReleasedRuns
  <2> QED
    BY <1>2, <2>2 DEF ConstraintsInv, ReadIsThere
<1> QED
  BY <1>3, <1>4

LEMMA SettleConstraints ==
    ASSUME ConstraintsInv, NEW f \in Fetches, Settle(f)
    PROVE  WorkAhead' /\ ReadIsThere'
<1>1. runs' = ReleasedCalls(runs, f) /\ constraints' = constraints /\ rawData' = rawData
  BY DEF Settle, NotChanged, FetchFails
<1>2. runs \in SUBSET Run
  BY DEF ConstraintsInv, TypeInv, TypeOK
<1>3. WorkAhead'
  <2> SUFFICES ASSUME rawData \in Versions, ~ Granted \subseteq constraints
               PROVE  \E k \in runs' : WillGrant(k)'
    BY <1>1 DEF WorkAhead, Granted
  <2>1. PICK l \in runs : WillGrant(l)
    BY DEF ConstraintsInv, WorkAhead
  <2>2. PICK k \in runs' : k.pc = l.pc /\ k.have = l.have /\ k.todo = l.todo
    BY <1>1, <1>2, ReleasedRuns
  <2> QED
    BY <1>1, <2>1, <2>2 DEF WillGrant, Granted
<1>4. ReadIsThere'
  BY <1>1, <1>2, ReleasedRuns DEF ConstraintsInv, ReadIsThere
<1> QED
  BY <1>3, <1>4

\* What a step of one run has to do for the invariant: it creates and does not
\* remove, and leaves a run in the place of its own that is no worse.
LEMMA RunReplaced ==
    ASSUME ConstraintsInv, NEW k \in runs, NEW l,
           runs' = Replace(runs, k, l), rawData' = rawData,
           constraints \subseteq constraints',
           WillGrant(k) => WillGrant(l)',
           l.pc = "indexes" => l.have \subseteq constraints'
    PROVE  WorkAhead' /\ ReadIsThere'
<1>1. WorkAhead'
  <2> SUFFICES ASSUME rawData \in Versions, ~ Granted' \subseteq constraints'
               PROVE  \E m \in runs' : WillGrant(m)'
    BY DEF WorkAhead
  <2>1. Granted' = Granted
    BY DEF Granted
  <2>2. PICK m \in runs : WillGrant(m)
    BY <2>1 DEF ConstraintsInv, WorkAhead
  <2>3. CASE m = k
    BY <2>2, <2>3 DEF Replace
  <2>4. CASE m # k
    BY <2>1, <2>2, <2>4 DEF Replace, WillGrant
  <2> QED
    BY <2>3, <2>4
<1>2. ReadIsThere'
  BY DEF ConstraintsInv, ReadIsThere, Replace
<1> QED
  BY <1>1, <1>2

LEMMA RunConstraints ==
    ASSUME ConstraintsInv, RunStep
    PROVE  WorkAhead' /\ ReadIsThere'
<1>1. PICK k \in runs :
          \/ StartRun(k) \/ RetrieveConstraints(k) \/ RetrieveIndexes(k) \/ RetrieveFails(k)
          \/ CreateConstraint(k) \/ FinishRun(k)
  BY DEF RunStep
<1>2. k \in Run /\ rawData \in Versions /\ rawData' = rawData
  BY <1>1 DEF ConstraintsInv, TypeInv, TypeOK, SchemaBeforeCalls, StartRun, RetrieveConstraints,
              RetrieveIndexes, RetrieveFails, CreateConstraint, FinishRun, updaterVars
<1>3. CASE StartRun(k)
  <2> DEFINE l == [k EXCEPT !.pc = "constraints"]
  <2>1. l.pc = "constraints"
    BY <1>2 DEF Run
  <2>2. runs' = Replace(runs, k, l) /\ constraints' = constraints
    BY <1>3 DEF StartRun
  <2> HIDE DEF l
  <2> QED
    BY <1>2, <2>1, <2>2, RunReplaced DEF WillGrant
<1>4. CASE RetrieveConstraints(k)
  <2> DEFINE l == [k EXCEPT !.pc = "indexes", !.have = constraints \ Indexes]
  <2>1. l.pc = "indexes" /\ l.have \subseteq constraints
    BY <1>2 DEF Run
  <2>2. runs' = Replace(runs, k, l) /\ constraints' = constraints
    BY <1>4 DEF RetrieveConstraints
  <2> HIDE DEF l
  <2> QED
    BY <1>2, <2>1, <2>2, RunReplaced DEF WillGrant
<1>5. CASE RetrieveIndexes(k)
  <2> DEFINE l == [k EXCEPT !.pc = "create", !.have = {}, !.todo = Missing(k.have)]
  <2>1. Cached(Types, cache, rawData) = rawData
    BY ConsumersAssumption DEF ConstraintsInv, TypeInv, CacheIsCurrent, Cached
  <2>2. k.have \subseteq constraints
    BY <1>5 DEF RetrieveIndexes, ConstraintsInv, ReadIsThere
  <2>3. l.pc = "create" /\ l.todo = Missing(k.have)
    BY <1>2 DEF Run
  <2>4. runs' = Replace(runs, k, l) /\ constraints' = constraints
    BY <1>5 DEF RetrieveIndexes
  <2> HIDE DEF l
  <2>5. Granted \subseteq constraints \union l.todo
    BY <2>1, <2>2, <2>3 DEF Missing, Granted
  <2> QED
    BY <1>2, <2>3, <2>4, <2>5, RunReplaced DEF WillGrant, Granted
<1>6. CASE RetrieveFails(k)
  <2> DEFINE l == [k EXCEPT !.pc = "failed", !.have = {}]
  <2>1. l.pc = "failed"
    BY <1>2 DEF Run
  <2>2. runs' = Replace(runs, k, l) /\ constraints' = constraints
    BY <1>6 DEF RetrieveFails
  <2> HIDE DEF l
  <2> QED
    BY <1>2, <2>1, <2>2, RunReplaced DEF WillGrant
<1>7. CASE CreateConstraint(k)
  <2>1. PICK c \in k.todo :
            /\ constraints' = IF c \in Refused THEN constraints ELSE constraints \union {c}
            /\ runs' = Replace(runs, k, [k EXCEPT !.todo = @ \ {c}])
    BY <1>7 DEF CreateConstraint
  <2> DEFINE l == [k EXCEPT !.todo = @ \ {c}]
  <2>2. l.pc = "create" /\ k.pc = "create" /\ l.todo = k.todo \ {c}
    BY <1>2, <1>7 DEF Run, CreateConstraint
  <2>3. runs' = Replace(runs, k, l) /\ constraints \subseteq constraints'
    BY <2>1
  <2> HIDE DEF l
  <2>4. WillGrant(k) => WillGrant(l)'
    BY <1>2, <2>1, <2>2 DEF WillGrant, Granted
  <2> QED
    BY <1>2, <2>2, <2>3, <2>4, RunReplaced
<1>8. CASE FinishRun(k)
  <2>1. runs' = runs \ {k} /\ constraints' = constraints /\ k.pc = "create" /\ k.todo = {}
    BY <1>8 DEF FinishRun
  <2>2. WillGrant(k) => Granted \subseteq constraints
    BY <2>1 DEF WillGrant
  <2>3. WorkAhead'
    BY <1>2, <2>1, <2>2 DEF ConstraintsInv, WorkAhead, WillGrant, Granted
  <2>4. ReadIsThere'
    BY <2>1 DEF ConstraintsInv, ReadIsThere
  <2> QED
    BY <2>3, <2>4
<1> QED
  BY <1>1, <1>3, <1>4, <1>5, <1>6, <1>7, <1>8

LEMMA NextConstraints ==
    ASSUME ConstraintsInv, [Next]_vars
    PROVE  WorkAhead' /\ ReadIsThere'
<1>1. ASSUME UNCHANGED <<rawData, runs, constraints>> PROVE WorkAhead' /\ ReadIsThere'
  BY <1>1 DEF ConstraintsInv, WorkAhead, ReadIsThere, WillGrant, Granted
<1>2. CASE UNCHANGED vars
  BY <1>1, <1>2 DEF vars, updaterVars, consumerVars
<1>3. CASE (Publish \/ TtlPasses \/ PollTick \/ StopPolling) /\ UNCHANGED consumerVars
  BY <1>1, <1>3 DEF Publish, TtlPasses, PollTick, StopPolling, consumerVars
<1>4. CASE \/ \E u \in Users : Ready(u) /\ UNCHANGED consumerVars
           \/ \E a \in Accessors : ReadSchema(a) /\ UNCHANGED consumerVars
  BY <1>1, <1>4 DEF Ready, ReadSchema, consumerVars
<1>5. ASSUME NEW f \in Fetches, FetchStep(f) PROVE WorkAhead' /\ ReadIsThere'
  <2>1. CASE Answer(f) /\ UNCHANGED consumerVars
    BY <1>1, <2>1 DEF Answer, consumerVars
  <2> QED
    BY <1>5, <2>1, SettleConstraints, ChangeConstraints DEF FetchStep
<1>6. CASE UploadStep
  BY <1>1, <1>6 DEF UploadStep, ReadForUpload, UploadEnds, updaterVars
<1>7. CASE RunStep
  BY <1>7, RunConstraints
<1> QED
  BY <1>2, <1>3, <1>4, <1>5, <1>6, <1>7 DEF Next

\* When every run of initConstraints has ended, and the last change has not left
\* one that failed, all that the schema wants is there, whichever runs overlapped
\* and whichever schemas they read: each works from the schema of its last read,
\* and the event of the schema that is there has begun one.
THEOREM ConstraintsFollow == Spec => []ConstraintsInPlace
<1>1. ConstraintsInv => ConstraintsInPlace
  BY DEF ConstraintsInv, TypeInv, TypeOK, UpdaterTypeOK, WorkAhead, Granted, ConstraintsInPlace
<1>2. ConstraintsInv /\ [Next]_vars => ConstraintsInv'
  BY NextConstraints, NextTypeInv DEF ConstraintsInv
<1> QED
  BY <1>1, <1>2, InitConstraints, PTL DEF Spec
=============================================================================
