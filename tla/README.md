# Treecreeper: TLA+ models, checks and proofs

Treecreeper serves the records of a graph database (Neo4j) whose types are given by a schema. Some properties of a record,
those the schema types as `Document`, are kept in an S3 bucket instead of the graph. This directory holds TLA+ modules of the
parts of the system in which order, failure and concurrency matter, TLC configurations that check them on small instances,
and proofs that TLAPS checks for every value of the constants.

Paths below are relative to `packages/` of the repository.

## The system

| component | state it keeps | operations | hard behaviour | what makes it correct |
| --- | --- | --- | --- | --- |
| S3 document store, `tc-api-s3-document-store` | the versions of one object per record | `get`, `post`, `patch`, `delete`, `absorb`, and the `undo` function each write returns | several S3 requests per call, some in parallel; failed and lost requests; undo after others have written | rollback and undo remove exactly what the call wrote; no text is lost |
| write handlers, `tc-api-rest-handlers/{post,patch,delete,absorb}.js` | none of their own: the graph and the bucket | POST, PATCH, DELETE, ABSORB | preflight read, document write, graph query, undo in a catch block; two stores without a common transaction | a record and its documents change together or not at all; an acknowledged write stays; every request is answered |
| field locks, `.../lib/locked-fields.js` | `_lockedFields` of each node | lock, unlock, check | merged into a value read earlier | a locked field is only written by its owner |
| relationships, `.../lib/relationships` | relationships of the graph | create, merge, replace, remove, upsert | Cypher pieces that depend on each other; conflicts with one-to-one properties | at most one partner where the schema says one; removed and changed sets are disjoint |
| events, `.../lib/events` | an event emitter | `broadcast` | events of one request combined; listeners may throw | one event per changed record, no change unreported |
| Neo4j connection, `tc-api-db-manager/db-connection.js` | sessions | `executeQuery`, `executeQueriesWithTransaction` | timeout racing the answer | a session is closed; a query never times out before its request |
| constraints, `tc-api-db-manager/index.js` | constraints in Neo4j | `initConstraints`, at each change of the schema | runs that overlap, queries that fail | the constraints of the current schema exist |
| schema updater and cache, `tc-schema-sdk` | raw schema data, version, cache | `configure`, `ready`, `refresh`, `fetch`, polling | overlapping fetches, errors that are swallowed | readers never see data of two versions; a new version is applied in the end |
| schema publisher, `tc-schema-publisher` | the published file | `deploy`, `sendSchemaToS3` | uploads that overlap | a schema is uploaded once its API has been built |
| GraphQL API, `tc-api-graphql` | the current handler | `updateAPI`, at each change of the schema | failed updates | the handler belongs to the newest schema that could be built |
| Express app, `tc-api-express` | timers | middlewares, REST controller, timeout, errors | a handler that outlives its request | one answer per request |
| context logger, `tc-api-express-logger` | contexts by resource and by request id | middleware, async hooks | resources destroyed in any order, repeated ids | no context outlives its request |
| Markdown parser, `tc-markdown-parser`, with the validators of the SDK | one tree per file | eight passes that rewrite it | a pass works on what others have left | no section is lost or mixed up with another |
| user interface, `tc-ui` | pages, forms, the relationship picker | open, edit, save, delete a record; search | a form that is older than its record; a save repeated after an error; late suggestions | what the user did not touch stays; what is said to be saved is stored |
| schema validator, demo, examples | none of interest | - | - | - |

A client's write goes through the Express controller to a handler; the handler reads the graph, calls the document store,
runs its query through the connection, and broadcasts events. The schema updater tells the GraphQL API and the constraints
of a change through one event emitter. The edit form of the UI is a client of the API.

## Modules

`VersionedBucket` - what the document store needs to know of S3, an external service: versions of a key in the order in which
S3 accepted them, a read that returns the newest, deletion of a named version. Bodies are functions from property names to
texts. A version is named after the request that made it, which is enough because a request writes each key at most once.

`DocumentStore` - the store's functions split at the S3 requests they await. `call[r]` is the promise chain of the call that
request `r` made. `Post`, `Patch`, `Delete`, `Absorb` and `Undo` are the code up to the first S3 request; `GetInto`,
`PutLands`, `MarkFails` and so on are the answers of S3 together with all the code that runs on them (`AfterGet`,
`AfterWrite`, `AfterDrop`). An upload is a "put", the delete that adds a delete marker a "mark", the delete of a version in
an undo a "drop". The constant `Faults` says which S3 requests may fail, and with "lost" whether an error may hide a request
that S3 carried out. `StoreSpec` is the store by itself: each request makes one call and may undo it.

`RecordHandlers` - extends `DocumentStore` with the four handlers. `req[r].pc` is where the handler of `r` awaits:
"preflight" (the reads), "docs" (the document store), "undo" (the undo in a catch block). The query that follows the document
store is one action, because Neo4j runs it as one transaction: `Commit`, `QueryRefused`, `QueryFails`, `QueryTimesOut`,
`ListenerThrows`. Of the graph the module keeps the records that exist (`nodes`) and those with relationships (`linked`).
The environment may link and unlink records (`Relate`), finish a query that has timed out (`LateQueryEnds`), and stop the
process (`Crash`). `MayCreate` are the clients that `createPermissions` admits. `Overlap` says which methods may run at the
same time on one record; it lets a run state for which overlaps a property holds.

`AtomicRecords` - the abstract specification of the two stores: a record with its documents changes in one step that the
client is told of. `RecordHandlers` implements it through the refinement mapping at the end of that module, in which the
documents of a record are what the bucket holds when versions of requests that were not acknowledged are left out.

`MCRecordHandlers` - small bodies, the sets for `Overlap`, and symmetry, for TLC. Requests are only told
apart by `MayCreate`, so symmetry is used where `MayCreate` is all or nothing and no liveness is checked.

`RecordHandlersProofs` - theorems about the state of both and about acknowledged writes. `RecordDocumentsProofs` extends it
with what is left in the bucket, and `RecordRefinementProofs` that with the implementation of `AtomicRecords`.

The second group of modules has the same handlers again, with the data of the graph and without the document store and its
failures: an undo does not depend on what the graph holds, and the graph does not depend on texts. Each module stands for
one file or directory of `tc-api-rest-handlers/lib` and extends the one before.

`Schema` - the relationship properties of types, their inverses, and their synonyms. A property belongs to one type; the code
of a record tells its type.

`RelationshipInput` - a request body and what it changes in the content of a record: `DiffProperties`,
`GetRemovedRelationships`, `GetChangedRelationships`. Lists of codes are sets, an entry with an empty list is no entry.

`LockedFields` - lock tables, `MergeLockedFields`, and the two reasons to refuse: `Anonymous` (400) and `Clashes` (409).

`GraphQueries` - each Cypher query as a function from the graph to the graph: `CreateQuery`, `MergeQuery`, `DeleteQuery`,
`AbsorbQuery`, with `WriteRelationships` for the pieces of `write.js`. `Content` is what a read shows of a record.
What `apoc.refactor.mergeNodes` does is external: relationships move, of two values the absorbed record's is discarded.

`RelatedEvents` - the events of a write, as `broadcast` emits them.

`GraphHandlers` - the handlers. `req[r].pc` is the query that `r` awaits; `seen` is the content it has read, on which the
later query is built. Reading and writing are separate actions, the query with everything the handler does after it is one
(`CreateCommits`, `MergeCommits`, `AbsorbCommits`, `DeleteCommits`), because Neo4j runs it as a transaction. `news` are the
events of the last step. `Inputs` are the requests clients send and `Overlap` the methods that may run side by side.

`AtomicGraph` - what the README of the handlers promises of a write: the record afterwards in terms of the record before.
A request that waits is carried out in one step or refused. Refinement: the requests that wait are the inputs of the
handlers that are busy.

`MCGraphHandlers` - the types `MainType` and `ChildType` of the example schema, reduced to the properties a run needs, and the
workloads. A workload says which requests clients send, which methods may run side by side and how many handlers there are;
a run goes through a set of them, each from its own initial state.

`GraphHandlersProofs` - theorems about `GraphHandlers`.

The third group has the schema and what depends on it.

`SchemaUpdater` - `updater.js`, `cache.js` and the accessors. A schema is its version. `fetch[f]` is a request for it, split
where `fetch` awaits: `Ask`, `Answer` (it brings what was published then), and the synchronous rest, of which
`NotChanged`, `Store` and `FetchFails` are the ways it ends. `PollTick` is the interval, `TtlPasses` the time after which a
refresh asks again. What accessors have computed is `cache`, "nothing" or the version it was computed from.

`SchemaConsumers` - extends it with the listeners that `getApp` registers. `Change` is the whole `change` event: the GraphQL
handler is built or not (`UpdateApi`), uploads and runs of `initConstraints` are begun (`uploads`, `runs`), which await `ready()`
and then go on query by query.

`SchemaReplica` - the abstract specification: an application has one published schema after the other, and the GraphQL handler
follows in the same step or stays.

The fourth group is a request on its way through the API.

`RequestContext` - the stores of the logger. `live[r]` counts the keys of `contextStore` that hold the context of `r`;
Node may destroy a resource at any time (`DestroyResource`), as long as one is left while the request is being handled.

`ApiRequests` - middlewares, controller and connection. `req[r].pc` is where the request is, `timers` the timers that run in
the order they expire: all have the same duration, so that is the order in which they were started. The queries of a handler
are a sequence of "plain" and "transaction"; the timer of a request does not stop its handler. A plain query ends with its
timer, a transaction does not: the timer only gives up its work, and `writeTransaction` of the driver then waits for the
answer to a ROLLBACK. "rollback", "commit" and "retry" (the driver tries again after a transient error) are waits without a
timer, and Neo4j need not answer. `MaxRuns` bounds how often the work of transactions starts over.

The fifth group has no concurrency but long ways for data.

`MultilineDefinition` - the lexer of relationship definitions, one token at a time, with its buffer. A text is a sequence of
tokens: words and the characters that the lexer tells apart.

`MarkdownParser` - the tree of a file as a sequence of blocks, and the passes of `markdown-parser.js` in their order, one action
each: title, property nodes, description, property names, nested definitions, coercion, validation, body. The SDK's validators
are part of it. For comparison the module has a `Reference`, which reads each section alone and each definition by its lines.

`PropertyValues` - the conversions a value goes through between record and form: into an input, out of the posted form, through
the parser of the primitive, validation, and the conversion for Neo4j. Values that no conversion tells apart are one value;
`"null"` and `"Don't know"`, which parts of the code take for no value, are texts like others. A time has a zone, which the
input does not show; `ApiZone`, the zone of the API's process, is the one the API adds. It is `"Z"` or twelve hours east, a
day has two times, and a `DateTime` is its time; west of Greenwich `fromStandardDate` moves dates by a day, which is left out.

`RelationshipPicker` - the React component: the text, the call that `debounce` holds back, the search that is running, the
suggestions, what has been picked, and `parentCode`, the code that the page has for its record.

`EditForm` - extends it with the pages: a user opens, fills in, sends and resends a form, while others write, lock or delete
the record. A layout has the kinds of the properties and their `lockedBy` in the schema (and the bounds `owners` and `others`), which the page, `formDataToRest` and
the API each read in their own way. A page may be for some properties only and then has no input for the code; `CodeEntries`
is what the user may enter where there is one. The write handlers are one step here.

`MCSchemaConsumers`, `MCApiRequests`, `MCMarkdownParser`, `MCEditForm` - the values of the constants for TLC.

`SchemaConsumersProofs`, `ApiRequestsProofs`, `EditFormProofs`, `MarkdownParserProofs` - theorems.

## Runs

Unless said otherwise two requests, two codes, one document property with one text. Two requests are enough to have any
write meet any other write, undo or late query; two codes are what an absorb needs; one text tells "there" from "lost".

| run | checks | what it shows |
| --- | --- | --- |
| `write_chaos` | `TypeOK`, `AcknowledgedWritesSurvive`, `OnlyOwnUndoErases` | any two requests at once with all faults but throwing listeners (the first property is false with them), lost answers of S3 and crashes included. |
| `write_clean_failures` | `FailedRequestsLeaveNothing`, `FailedCallLeavesNothing`, `AbsorbCarriesText` | any two requests at once, two properties and two bodies, one client without permission to create; failing gets, uploads, queries. The catch blocks clean up on every path, rollback and undo remove everything a call wrote, an absorb that was fulfilled carries every text that only the absorbed key had. |
| `write_refines_atomic` | `AcknowledgedDocumentsStored`, `NoOrphanDocuments`, `ImplementsAtomicRecords` | two properties, two bodies, overlapping POSTs, failing gets and queries. The handlers implement `AtomicRecords`, and no text is left under the code of a record that does not exist. |
| `write_answers` | `EveryRequestIsAnswered` | requests on the same record one after the other; failing uploads, undos and listeners. |
| `graph_atomic` | `TypeOK`, `ToOneHolds`, `LockedFieldsKept`, `OnlyChangesAreAnnounced`, `ImplementsAtomicGraph` | workloads with one record and every combination of body, `lockFields` and `unlockFields`; with records whose relationships are written, replaced and removed from both sides while POSTs and DELETEs overlap; and with siblings that absorb each other. Each request is one step of `AtomicGraph` or none. |
| `graph_events` | `EveryRecordStamped`, `ChangesAreAnnounced` | a record and its children, written from both sides by POSTs and PATCHes that overlap; `children` and `deprecatedChildren` show the same relationships and must both be named. |
| `schema_updates` | `TypeOK`, `CacheIsCurrent`, `ServesCurrent`, `ConstraintsInPlace`, `ImplementsReplica`, `CatchesUp` | two versions, of which the first makes no GraphQL API and the second does; each update mode; two requests for the schema at a time, which overtake each other and fail; polling that is stopped and begun again; three constraints, one of which Neo4j refuses; two overlapping runs. |
| `api_requests` | `TypeOK`, `ContextsAreFreed`, `OuterTimerFirst`, `PlainSessionsAreClosed`, `EveryRequestIsAnswered`, `EveryHandlerEnds` | two requests with one id; no, one or two queries; bodies that never arrive, queries that fail and queries that are never answered; three runs of queries, enough for a transaction behind a plain query to be tried again. Every handler ends or is kept by an untimed wait of a transaction. |
| `markdown_parse` | `CleanParseIsFaithful`, `EverySectionAccounted`, `NoValueBesideItsError`, `DefinitionsReadByLine`, `ProblemsAreKept` | every pair of sections out of 13 properties (one of each kind) with right and wrong bodies; every opening; every definition of up to four tokens, and of four behind `alpha:`. |
| `edit_form` | `TypeOK`, `PickedOnce`, `UntouchedFieldsKept`, `SavedIsStored`, `ErrorKeepsEntries` | layouts with pairs of plain kinds, two of which the schema reserves in part for the UI or for another client, with a time, a relationship of one value, and one of many values within one type; two records, of which one is edited; pages with and without the code, with another code entered, and after failed saves. Another client acts once: enough to write, lock or delete between any two steps of the user. |

A layout of `EditForm` has bounds of its own, because the picker of many values has many states: it is used where no other client
acts and no field is locked at first, which the picker of one value is checked with. One text to search for is enough to have
an answer arrive after it was deleted, typed again or picked; texts that are too short for a search are in the theorems only.

Two versions, requests and fetches are enough for one to overtake the other; in `schema_updates` a third version would only
repeat a change from a version to another. Pairs of sections are enough because a pass looks at one section and at the names
of those before it.

In the `graph_` runs handlers answer requests for ever and their states are finite without a bound. One handler is enough
where methods do not overlap. The number of records is what the property at hand needs: two ends of a relationship and a
third record that competes for one of them.

Two more runs state what a document or test of the repository says and find it violated:

| run | the code | what is said of it |
| --- | --- | --- |
| `write_upload_swallowed` | `upload` returns `false` when S3 fails; POST answers 200 without the documents | `document-store.spec.js`: "throws if s3 query fails" |
| `graph_locks_lost` | a PATCH checks the locks it has read before, and writes that lock table back | handlers' `README.md`: "prevent fields from being modified by other clients" |

In the `write_` runs each request makes one call and ends, so the number of steps, and `clock`, are bounded by `Requests`.
They, `api_requests`, `schema_updates` and `markdown_parse` do not check deadlock: the system rests when every request has been
answered, nobody polls, or the file is parsed. The other runs check it.

**Where properties stop.** `NoOrphanDocuments` is not true when PATCH and DELETE overlap (a PATCH of documents only runs no
query and does not notice that its record has gone), nor after a timeout or a crash. `ImplementsAtomicRecords` is not true
when PATCH, DELETE or ABSORB overlap on a record, or when an upload, a delete or an undo fails. `Overlap` and `Faults` in the
configurations are the widest for which all properties of a run hold together. `LockedFieldsKept`, `ToOneHolds` and
`ImplementsAtomicGraph` need PATCHes that do not overlap with a write of the same records: a PATCH decides from what it has
read. `ChangesAreAnnounced` holds when PATCHes overlap, because what a query changes beyond the differences is only what
another request has announced. `EveryRecordStamped` fails when a PATCH meets a DELETE and its MERGE creates the record again.

Cases the inputs and schemas of the passing runs leave out, because the code behaves differently there:

- `tc-api-s3-document-store/absorb.js:72`: a delete that is refused rejects before the rollback written for it, and the
  upload stays.
- `tc-api-s3-document-store/post.js:12`: a post does not look whether the object exists, and its body is what a get returns
  until it is undone.
- `tc-api-s3-document-store/patch.js:30`: of two patches that overlap the second restores old texts of the first's properties.
- `absorb.js:298`: the undo of an absorb is not awaited; a repeated absorb may read the bucket in between and drop the texts.
- `lib/locked-fields.js:79`: `"!children"` is not held against a lock on `children`.
- `lib/relationships/input.js:150`: with `replace`, `{children: [c1], "!children": [c2]}` keeps a third child, because the
  explicit removal takes the place of the implicit ones.
- `lib/relationships/write.js:47`: two properties of the same relationship share a query parameter, so a body with both
  writes the codes of one.
- `lib/relationships/write.js:85`: when both ends have one value, the partner keeps its old partner, too.
- `lib/relationships/write.js:98`: a record that loses a partner to a conflicting relationship gets no event.
- `absorb.js:252`: an absorb compares codes as if they were objects; when the record had a partner of a property with many
  values and has another afterwards, an event has no code.

Cases that the models have, and the properties except by name:

- `lib/neo4j-type-conversion.js:34`: a date that is removed becomes the first day of 1970 (`SavedIsStored`).
- `tc-ui/.../relationship/server.jsx:47`: an annotation that is false or 0 is sent as null (`HasFalseNote` in
  `UntouchedFieldsKept`, `ShowsFalseNote` in the two others).
- `tc-ui/src/primitives/server.js:12`: the text `"null"` is removed by any save, also of a form in which nobody has touched it
  (`ShowsNull` in the three properties), although the UI's `README.md:152` says that the parser "Defaults to a noop".
- `tc-ui/src/lib/get-data-transformers.js:67`: the text `"Don't know"` is lost by a form that is shown again (`ShowsDontKnow` in
  `ErrorKeepsEntries`), although `edit/handler.js:21` says "Persist any unsaved changes".
- `tc-ui/.../temporal/server.jsx:34`: the zone of a time is cut off and a date with time shown as in UTC, and the API reads what
  comes back in its own zone, so any save moves it if that is another one (`MisreadsZone` in `UntouchedFieldsKept` and
  `SavedIsStored`). `edit_form` has the API in UTC, where times with another zone are moved; the theorems have both.
- `tc-ui/.../multiple-choice/server.jsx:118`: choices that cannot be edited are sent as none, unless another client's lock keeps
  `formDataToRest` from sending them (`ErasesChoices` in `UntouchedFieldsKept`). The page says of them "Not editable"
  (`input-wrapper.jsx:43`); a multiple choice that the schema reserves for the UI's own client id loses its choices in every save.
- `tc-ui/.../relationship-picker.jsx:177`: only `parentCode` is not suggested, and after a failed save that is the code that was
  posted, or none, so the record may be suggested to itself (`PickedOnce` speaks of that only for pages that have not failed),
  although the comment at line 169 says "don't suggest self".
- `lib/neo4j-type-conversion.js:32`: a `Time` that is removed makes the driver throw, and the save fails (`IsConvertible`).
- `tc-ui/.../temporal/server.jsx:25`: the form shown after an error has lost its dates (`ErrorKeepsEntries`).
- `tc-ui/.../edit/template.jsx:83`: after an error the form of a subset of the fields shows all of them, those that were left
  out as blanks, and the next save erases them (`UntouchedFieldsKept` speaks of forms that have not failed).
- `tc-ui/.../edit/template.jsx:16`: whether a locked field can be edited is decided for the client `biz-ops-admin`, whatever
  client id the UI has; the configuration of `edit_form` gives it that one, and `SavedFieldsAreStored` assumes it (`KnownClient`).
- `tc-markdown-parser/.../create-treecreeper-title-node.js:36`: a title behind the first section is taken for part of that section;
  the error about a missing title is reported at no line (`TitleComesFirst`).
- `tc-markdown-parser/.../property-coercers/index.js:180`: `Time` has no coercer, and a file with such a property is rejected as a
  whole; a rejected parse has no result for the invariants to speak of.
- `tc-markdown-parser/.../stringify-boast.js`: a relationship that failed sets the dates among its properties to undefined in the
  body (`EverySectionAccounted`).
- `tc-schema-sdk/lib/validators.js:112`: annotations of relationships are validated with the pattern of the relationship type, which
  has none.
- `tc-schema-sdk/lib/updater.js:83`: in stale mode `ready()` may resolve before there is any data, while the first fetch runs or
  after it has failed, so an application begins to serve without a GraphQL API.
- `tc-schema-sdk/lib/updater.js:141`: polling that is stopped while a fetch runs is begun again by the listeners of its change.
- `tc-api-db-manager/index.js`: a run that could not read the constraints creates none and is not repeated
  (`ConstraintsInPlace` speaks of runs that ended well).
- `tc-api-db-manager/db-connection.js:95`: a transaction that fails leaves its session open (`PlainSessionsAreClosed`),
  although the comment at line 25 says that the timeout "will cause the finally block to run, which closes the session".
- `tc-api-db-manager/db-connection.js:88`: a transaction whose COMMIT, ROLLBACK or retry Neo4j never answers keeps its handler for
  ever, after its client has been told 503 (`EveryHandlerEnds` excepts `Waits`).
- `tc-api-express-logger/index.js:38`: the entry of a request id goes with the first resource that is destroyed, so a request loses
  it while it runs, and one of two requests with the same id loses it when the other ends.

**Fairness.** In the `write_` modules `FairSpec` has weak fairness of each handler's next step and of the answers S3 owes it.
Node's event loop runs every continuation that is ready; the SDK of S3 and the Neo4j driver settle every promise, with an
error if need be. Nothing is assumed of arrivals, of `Relate` or of a query that has timed out. In `SchemaConsumers` the
interval ticks, what is ready runs and requests to S3 and Neo4j end (weak fairness); that a request for the schema does not
fail for ever is strong fairness of `Answer`, without which no poller can catch up. In `ApiRequests` timers expire, handlers
that can go on do, and Node collects what has ended; clients and Neo4j may be silent for ever, which is what timeouts are for.
Nothing is assumed of `QueryAnswers`, `Commits`, `RollsBack` or `Retries`, which wait for Neo4j.

## Proofs

`RecordHandlersProofs` proves, for every set of requests, codes, property names and texts, and every set of faults unless
said otherwise:

- `TypeCorrect`: `Spec => []TypeOK`. It is inductive. The lemmas go from the operators (`Read`, `Overlay`, `Unwind`,
  `AfterGet` ...) to the store's answers and then to the handlers' steps.
- `AcknowledgedWritesStand`: `Spec => []AcknowledgedWritesSurvive`, if listeners do not throw. (When one does, absorb undoes
  its documents and answers 200.) The property says nothing of requests that are still running, so it is not inductive.
  The invariant `WritesInv` adds: a call that is not being rolled back still has every version it knows of (`HeldStands`);
  a rollback waits for nothing but drops, and other calls wait for none (`CallPhase`); a handler before its document write
  has no call, one that waits for its query has not undone its call, and one that was acknowledged has a call that
  was fulfilled (`HandlerPhase`). A step either lets the bucket grow (`GrowingStep`) or erases versions of its own request
  during a rollback (`ErasingStep`). `WritesInv` was first checked with TLC on the instance of `write_chaos`.
- `ErasuresAreOwn`: `StoreSpec => OnlyOwnUndoErases`, from the store's half of the same invariant.

`RecordDocumentsProofs` goes on with what is left in the bucket:

- `AbsorbedTextStays`: `Spec => []AbsorbCarriesText`, whatever fails.
- `FailedCallsLeaveNothing` and `FailedRequestsLeaveNoVersion`: `Spec => []FailedCallLeavesNothing` and
  `Spec => []FailedRequestsLeaveNothing`, if S3 refuses no delete marker and no undo, hides no write behind an error and the
  process does not stop. Each of these leaves nobody to undo a write: the delete of `absorb.js:72` is outside the rollback, a
  failed undo is not repeated, and after a crash nobody knows the versions.
- `CreatedDocumentsStored`: `Spec => []AcknowledgedDocumentsStored`, if uploads do not fail (`upload` swallows that error).
- `HandlersEraseTheirOwn`: `Spec => OnlyOwnUndoErases`, whatever fails.

The invariant `DocsInv` says of a call that it reads before it writes and writes what it has read (`DocsPhase`), that a
rejected call holds nothing unless it is in a rollback (`CleanPhase`), that what it has uploaded is in the bucket until its
rollback (`DocsStand`), and that every version of a request is one its call still knows of. The last part is what makes
"undone" mean "gone". TLC checked it on the instances of the four `write_` runs before the proof.

`RecordRefinementProofs` proves, if only gets and queries fail and only POSTs overlap on a record:

- `NoOrphansLeft`: `Spec => []NoOrphanDocuments`.
- `HandlersAreAtomic`: `Spec => ImplementsAtomicRecords`.

`AtomicInv` adds to `DocsInv` that requests on a record exclude each other (`Exclusive`), how far the work of each has got
(`Work`), and that no version of an acknowledged request belongs to a record that does not exist (`NoCommittedOrphan`). A step
shows nothing to a client (`NothingShows`: the versions it adds or erases belong to requests that were not acknowledged, which
the mapping leaves out) or is the commit of a handler, whose versions become visible at once; for that one it is shown what
the newest visible version is then (`CreateDocs`, `UpdateDocs`, `RemoveDocs`, `MergeDocs`). The faults that are excluded
break the property in the code: a failed upload is taken for a success, a query that has timed out may commit after its
documents were undone, and a listener that throws makes a handler answer 500 after its commit. So do overlapping PATCHes,
DELETEs and ABSORBs, which act on what they have read before. `Faults` and `Overlap` of `write_refines_atomic` satisfy these
hypotheses.

The assumptions are the ones the modules state of their constants: there is a code, the bodies that are sent are non-empty
bodies, and the values that stand for "no text", "delete marker" and "there at the start" are not ordinary values.

`GraphHandlersProofs` proves of every schema, every set of records, values, clients and handlers, and all workloads:

- `TypeCorrect`: `Spec => []TypeOK`. Beside types it says that relationships, properties and locks belong to records that
  exist. The lemmas say of each query that it keeps this if partners exist or `upsert` creates them and what is deleted
  has no relationships. `TypeInv` adds which method a handler serves that awaits a given query.
- `RecordsAreStamped`: `Spec => []EveryRecordStamped`, if no DELETE or ABSORB overlaps with a PATCH. `StampInv` adds that
  the record a PATCH has found is still there when it merges (`FoundIsThere`), which needs that requests exclude each other as
  `Overlap` says (`Exclusive`). Without the hypothesis MERGE creates the record again, without metadata (hazard at `patch.js:35`).
- `LocksAreKept`: `Spec => LockedFieldsKept`, if nothing overlaps with a PATCH. `LockInv` adds that a PATCH that is about
  to write has read the record as it is (`ReadIsCurrent`). That it is false otherwise is what `graph_locks_lost` shows. A POST
  or DELETE of another record is excluded with the rest, because `Overlap` does not tell records apart.

- `OneValueOnePartner`: `Spec => []ToOneHolds`. The schema must agree with itself: synonyms have equally many values
  (`SameKind`), and of two ends at most one has one value (`OneSided`; `write.js:85` has no query for more). No body relates a
  record to itself: with a property and its inverse at once that would give one end two partners. Nothing overlaps with a PATCH, and
  with an ABSORB only DELETEs and ABSORBs of the same two records (`AbsorbsKeepToAPair`): an absorb of another record into the
  same one would act on a stale read. `OneInv` adds to `LockInv` that an ABSORB that has not lost one of its records has read the
  relationships of both as they are (`BothRead`). For the queries: what a body puts in the place of an old partner removes that one
  at the record (`GivesWay`) and conflicting relationships at the other end, also if synonyms share a parameter
  (`WriteKeepsOne`); the absorbed record's partner is removed if the main record has another (`AbsorbKeepsOne`).

- `GraphRefinesAtomic`: `Spec => ImplementsAtomicGraph`, under the hypotheses of `OneValueOnePartner` and three more. Relationships
  within a type are shown by both ends (`ShownBothWays`): absorb reads those between its two records from the absorbed one.
  No body names relationships twice, by synonyms (`NothingMentionedTwice`): each name would decide alone what is added and
  removed. No property with many values is both replaced and removed from (`RemovesOrReplaces`): only the removal would
  happen. `AtomicInv` is `StampInv`, `OneInv` and that every relationship is one that a property shows, of two records
  (`EdgesShown`). Steps up to the write are stutters.
  For a write, what the body asks of the record that was read is what it asks of the record as it is,
  the relationships taken from other records are those in conflict (`Conflicting`), and nothing else of the graph
  changes. For an absorb, the relationships between the two records are those both of them show, and what main already has
  or has no room for goes with the absorbed record.

- `ChangesTold`: `Spec /\ NobodyAbsorbs => ChangesAreAnnounced`, if no property is called `Code` (`CodeIsApart`), no property
  with many values meets one with a single value at the other end (`NobodyTakesOver`) and no DELETE overlaps with an
  update. PATCHes may overlap as they like. `NewsInv` is `StampInv` and that what a PATCH has read, stale or not, are records of
  the types its schema relates (`SeenTyped`). A write removes relationships that were read, adds those the body names, or takes
  partners over; each is named for its record and, by inverse and synonym, for its partner. Who loses a partner to a third record
  is told nothing, which is why taking over is excluded (hazard at `write.js:98`); ABSORB is excluded as well.
- `OnlyChangesAreTold`: `Spec /\ NobodyAbsorbs => OnlyChangesAreAnnounced`, under the hypotheses of `GraphRefinesAtomic` and
  `NamesApart`, from `AtomicInv`: what is named for a record is a relationship that the write has added or removed there, or a
  property that differs from the one read, and what was read is what is there (`ReadIsCurrent`). An ABSORB may name properties of its main
  record that stay the same, so for it the run alone speaks.

The workloads and schema of `graph_atomic` satisfy all hypotheses but `NobodyAbsorbs`, which two of its three workloads
satisfy (TLC evaluated them there, and `OneInv` and `AtomicInv` as invariants); those of `graph_events` satisfy the ones of
`RecordsAreStamped` and `ChangesTold` (and `NewsInv` is an invariant there).

`SchemaConsumersProofs` proves of every number of versions, fetches and runs, and every update mode:

- `CacheStaysCurrent`: `Spec => []CacheIsCurrent`, which is inductive.
- `TypeCorrect`: `Spec => []TypeOK`. The type of a call that waits for `ready()` depends on there being a schema
  when the call is made, so the invariant adds that calls are only made after a change (`SchemaBeforeCalls`).
- `ApiIsCurrent`: `Spec => []ServesCurrent`. What is served is then a version that an API can be built from, or nothing
  (`ApiInv`), so that a change that fails leaves a handler that is right about its own version.
- `SchemaIsReplica`: `Spec => ImplementsReplica`. The version is always that of the raw data, and no answer
  is newer than what has been published (`ReplicaInv`); the initial states and each step map to `SchemaReplica`.
- `ConstraintsFollow`: `Spec => []ConstraintsInPlace`. `ConstraintsInv` adds that while a constraint is missing there is a run
  that will see to it, has failed, or is still to read what there is (`WorkAhead`), and that a run takes for there only
  what is there (`ReadIsThere`): constraints are never dropped, so what one run has read stays true while others create.

`ApiRequestsProofs` proves of every number of requests, queries and ids, with or without a timeout:

- `TypeCorrect`: `Spec => []TypeOK`.
- `RequestsTimeOutFirst`: `Spec => []OuterTimerFirst`. `ApiInvariant` adds that a request that is under way and has not been
  answered has its timer running, and ahead of all timers of its queries (`TimerAhead`), that only its timer
  answers it before its end (`AnsweredByTimer`), and that a request that has not arrived has no timers and sessions
  (`Untouched`). The lemmas on sequences say that what happens to the timers of one request keeps those of all others in
  order (`OnlyConcerns`). An awaited query at the head of `timers` then belongs to a request with status 503.
- `PlainSessionsClosed`: `Spec => []PlainSessionsAreClosed`, from the same invariant, which has it for each request.
- `ContextsFreed`: `Spec => []ContextsAreFreed`, which is inductive with the type of the context stores.

`EditFormProofs` proves of every set of layouts with at most one picker, whatever the schema reserves, of records, options,
texts and search results, and for both values of `ApiZone`:

- `TypeCorrect`: `Spec => []TypeOK`.
- `PickedOnlyOnce`: `Spec => []PickedOnce`. Both follow from `FormInv`, which must speak of the record, too: its links
  become those of a picker, and those of a picker are posted, stored or shown again. It says that no two of
  them have one code (`Links`), that no note of the picker reaches the record (`RecordLinks`), that an input never
  holds a blank value, but what stands for it (`CanHold`), and that nothing is suggested that has been picked or has the code
  of the page. `ParentKnown` adds that a page opened for a record has its code until a save fails.
- `SavedFieldsAreStored`: `Spec => SavedIsStored`, from `FormInv` and `StoredIsMeant`, which takes a value of each kind
  through the form, its parser, the validation, the difference and the conversion.
- `EntriesAreKept`: `Spec => ErrorKeepsEntries`, from `FormInv` and `RedisplayedIsMeant`.
- `UntouchedFieldsAreKept`: `Spec => UntouchedFieldsKept`. A further invariant, `Untouched`, says that a field that neither
  the user nor another client has changed still shows what the record has, and that a record that does not exist is
  blank; `InputIsKept` says that what an input shows of a value is stored as that value.

What the three properties of saves except is named in them and listed above. The three theorems assume that no option of an enum
is spelled `""`, `null`, `Don't know` or like the strings of the model
for no value and a field that is not sent (`PlainOptions`). `SavedFieldsAreStored` also needs the client id
of the user interface to be the one in `template.jsx` (`KnownClient`): with another one, the form leaves fields open that are
locked by `biz-ops-admin` and does not send them. `edit_form` satisfies both hypotheses. `IsFiniteSet(Codes)` is assumed
because `SetToSeq` means nothing for an infinite set.

`MarkdownParserProofs` proves of every type, every set of files and every choice of the words that the coercers and
validators tell apart:

- `NoSectionIsLost`: `Spec => []EverySectionAccounted`.
- `ProblemsStayReported`: `Spec => ProblemsAreKept`.
- `LexerReadsByLine`: `Spec => []DefinitionsReadByLine`.

The first two follow from `ParseInv`. The properties speak of the file and the output, so they say nothing while passes run; `ParseInv`
says of the tree before each pass what of the file it holds: a node for each block (`Titled`); a property node with its
blocks for each section (`Cut`); its key and type, or a problem in its place (`Resolved`); the definitions of
relationships (`Defined`); values (`Valued`), where a section may be missing if it was only comments; and values that the
validator has seen (`Checked`). A section is found by the lines of its node: it has a property node that starts where it starts, or a
problem within its lines (`Stands`), and property nodes are in the order of their sections, so that the one that counts of
several with one key is the last (`InSectionOrder`). That a problem lies within its section takes the definitions:
`DefinitionsIn` gives them the place of their block or list item, and a body without words of its own gives no
problem (`NothingIn`). Only what a failed section holds from `CoerceNested` is still visited; its nodes have no value, and `ValidateProperty`
must pass for such a node to be a property still, which is the exception in `EverySectionAccounted` (a `code` is a string, so it
never is). Each pass has a lemma that takes the tree of the one before to that of the next (`TitleStep` ... `StringifyStep`). The
lemmas under them say where the members of a flattened sequence come from (`Joined`, `Flattens`), what a selection keeps
(`AtFacts`), what the lexer leaves of its input (`PropertiesParsed`), and which coercions give a value (`CoercionFacts`).
The assumptions are `DocumentsAssumption`, the type of a file, and `PropertiesAssumption`: the properties of a type are a sequence of
descriptions with different keys (they are the keys of an object), and the type of `code` is one that validators look at.
TLC checked `ParseInv` pass by pass on the instance of `markdown_parse`.

`LexerReadsByLine` is about one function of one file, and the induction goes over the characters of a definition: after each of
them the lexer is `InSync` with the lines that it has read so far. Either it is `Undisturbed` (every full line is sound and
reported with its name and value, the last name is that of the last of them, and the buffer is the unfinished line without the
tabs and carriage returns that the lexer skips), or it is `Stopped`, and its fault names the first broken line. The lemmas say what
one more character does to the lines (`SplitGrows`), to a line without what the lexer skips (`CleanGrows`), and to its trimmed
parts (`StripTrim`); what is left in the buffer at the end is the last line if no line feed ends it (`Outcome`). The fixed set
of prefixes that are in sync makes this an induction over a set, `Induct`, which needs no operator as a parameter. Its one assumption is
`CamelAssumption`: a camel case name is not the empty word, as the regular expression `/^[a-z][a-zA-Z0-9]+$/` asks for two letters.

Only model-checked are `CleanParseIsFaithful` and `NoValueBesideItsError`. They compare the values of a parse with those of the
`Reference`, for relationships also the order and the merging of their properties, so a proof has to carry what each section
`Says` through every pass, where `ParseInv` carries only that it is there. Liveness under
fairness is beyond this prover: `EveryRequestIsAnswered`, `EveryHandlerEnds` and `CatchesUp` are checked by TLC alone.

## Not modelled, and the plan

In `RecordHandlers` a PATCH or POST with `upsert` does not create other records, node properties have no values, and a
refusal (a locked field, a missing related record) may happen at any time instead of being derived from the data; in
`GraphHandlers` these are modelled and the document store is not. Bodies are validated before a handler changes anything, so
invalid requests are left out. Relationships have no properties of their own, ordinary properties have one value, and a body
with both `p: null` and `"!p"` is left out because the order of its keys would decide. The bucket is one with versioning on,
which the undo functions rely on.

A schema has no content but its version, what its types ask Neo4j for and whether an API can be built from it. An upload of
`sendSchemaToS3` goes to a url that no application of the model reads. Blocks of a Markdown file are what `remark` makes of it,
external like Neo4j, S3 and React; inline content other than words is left out, and so are headings inside a block quote or a
list item: the loop at `create-treecreeper-property-nodes.js:24` finds such a heading again for ever, because only headings below
the root become properties. A user of the UI has one page at a time.

A record that absorbs itself is left out of `RecordHandlers` and `GraphHandlers`: `absorb.js` does not refuse it, but what becomes
of the record is up to `apoc.refactor.mergeNodes`, which is not in the repository.

Left: the accessors of the SDK that build GraphQL definitions, as operators.
