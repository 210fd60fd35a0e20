---------------------------- MODULE RecordHandlers ----------------------------
(***************************************************************************)
(* packages/tc-api-rest-handlers: the post, patch, delete and absorb       *)
(* handlers running side by side over Neo4j and the document store.  An    *)
(* action is the code between two awaits; the Cypher query of a handler is *)
(* one action because Neo4j runs it as one transaction.                    *)
(*                                                                         *)
(* Of the graph the module keeps which records exist and which of them     *)
(* have relationships: what the handlers read before they write, and what  *)
(* Neo4j checks for itself; the properties of a node are left out.         *)
(*                                                                         *)
(* Faults of DocumentStore, and "graph": a query answers with an error;    *)
(* "timeout": the query timeout of tc-api-db-manager wins the race and     *)
(* Neo4j may still commit; "listener": a listener of the event emitter     *)
(* throws out of broadcast; "crash": the process stops.                    *)
(***************************************************************************)
EXTENDS DocumentStore

CONSTANTS
    MayCreate,  \* requests whose client is in createPermissions of the type
    Overlap     \* sets of methods that run together on the same record

VARIABLES
    nodes,      \* the records Neo4j holds
    linked,     \* the records that have relationships
    req         \* the handlers

handlerVars == <<nodes, linked, req>>
vars == <<bucket, clock, call, nodes, linked, req>>

Methods == {"POST", "PATCH", "DELETE", "ABSORB"}
Success == {200, 201, 204}
Failures == {400, 404, 409, 500}
Pcs == {"idle", "preflight", "docs", "undo", "end", "crashed"}
Statuses == {0} \union Success \union Failures

\* method   the handler, code and other its record and the record it absorbs
\* docs     the Document properties of the body, as separateDocsFromBody
\*          leaves them: empty values are gone
\* flags    "edits": the rest of a PATCH body changes the node; "create": the
\*          handler is on the path of post; "late": its query has timed out and
\*          is still running in Neo4j
Request == [method: Methods \union {"none"}, code: Codes, other: Codes, docs: Bodies,
            flags: SUBSET {"edits", "create", "late"}, pc: Pcs,
            fetched: SUBSET Codes, status: Statuses]

\* The state is well formed, and every answer has a status.
TypeOK ==
    /\ StoreTypeOK
    /\ nodes \subseteq Codes
    /\ linked \subseteq Codes
    /\ req \in [Requests -> Request]
    /\ \A r \in Requests : req[r].pc \in {"undo", "end"} => req[r].status # 0

NewRequest(method, code, other, docs, flags) ==
    [method |-> method, code |-> code, other |-> other, docs |-> docs, flags |-> flags,
     pc |-> "preflight", fetched |-> {}, status |-> 0]

NoRequest ==
    [NewRequest("none", NoCall.into, NoCall.into, EmptyBody, {}) EXCEPT !.pc = "idle"]

Init ==
    /\ StoreInit
    /\ nodes \in SUBSET Codes
    /\ \A c \in Codes \ nodes : bucket[c] = {}
    /\ linked = {}
    /\ req = [r \in Requests |-> NoRequest]

Creates(r) == "create" \in req[r].flags
Updates(r) == req[r].method = "PATCH" /\ ~ Creates(r)

Acknowledged(r) == req[r].pc = "end" /\ req[r].status \in Success

-----------------------------------------------------------------------------
(* Arrival.  A request is Busy until its handler has answered and nothing  *)
(* it sent to S3 is still on its way.                                      *)

Busy(r) == req[r].pc \notin {"idle", "crashed"} /\ ~ (req[r].pc = "end" /\ Settled(r))

MayRun(method, codes) ==
    \A q \in Requests :
        Busy(q) /\ {req[q].code, req[q].other} \cap codes # {} =>
            \E together \in Overlap : {method, req[q].method} \subseteq together

Become(r, k) == req' = [req EXCEPT ![r] = k]
Conclude(k, pc, status) == [k EXCEPT !.pc = pc, !.status = status]
Answer(r, status) == Become(r, Conclude(req[r], "end", status))

\* postHandler up to its first await; k is the request as patchHandler or the
\* caller hands it over.  A body without documents leaves the store alone.
BeginCreate(r, k) ==
    IF r \notin MayCreate
    THEN /\ Become(r, Conclude(k, "end", 400))
         /\ UNCHANGED storeVars
    ELSE /\ Become(r, [k EXCEPT !.pc = "docs", !.flags = @ \union {"create"}])
         /\ IF k.docs = EmptyBody THEN UNCHANGED storeVars ELSE Post(r, k.code, k.docs)

ArrivePost(r) ==
    /\ req[r].pc = "idle"
    /\ \E code \in Codes, docs \in Drafts \union {EmptyBody} :
          /\ MayRun("POST", {code})
          /\ BeginCreate(r, NewRequest("POST", code, code, docs, {}))
    /\ UNCHANGED <<nodes, linked>>

ArrivePatch(r) ==
    /\ req[r].pc = "idle"
    /\ \E code \in Codes, docs \in Drafts \union {EmptyBody}, flags \in SUBSET {"edits"} :
          /\ MayRun("PATCH", {code})
          /\ Become(r, NewRequest("PATCH", code, code, docs, flags))
    /\ UNCHANGED <<nodes, linked, storeVars>>

ArriveDelete(r) ==
    /\ req[r].pc = "idle"
    /\ \E code \in Codes :
          /\ MayRun("DELETE", {code})
          /\ Become(r, NewRequest("DELETE", code, code, EmptyBody, {}))
    /\ UNCHANGED <<nodes, linked, storeVars>>

\* A record that absorbs itself is not refused, but what Neo4j then makes of it is
\* up to apoc.refactor.mergeNodes: left out.
ArriveAbsorb(r) ==
    /\ req[r].pc = "idle"
    /\ \E code, other \in Codes :
          /\ code # other
          /\ MayRun("ABSORB", {code, other})
          /\ Become(r, NewRequest("ABSORB", code, other, EmptyBody, {}))
    /\ UNCHANGED <<nodes, linked, storeVars>>

-----------------------------------------------------------------------------
(* Preflight: the reads before the first write, and the call of the store  *)
(* that follows in the same turn.                                          *)

PatchPreflight(r) ==
    /\ req[r].pc = "preflight"
    /\ req[r].method = "PATCH"
    /\ IF req[r].code \notin nodes
       THEN BeginCreate(r, req[r])
       ELSE /\ Become(r, [req[r] EXCEPT !.pc = "docs"])
            /\ IF req[r].docs = EmptyBody THEN UNCHANGED storeVars
               ELSE Patch(r, req[r].code, req[r].docs)
    /\ UNCHANGED <<nodes, linked>>

DeletePreflight(r) ==
    /\ req[r].pc = "preflight"
    /\ req[r].method = "DELETE"
    /\ IF req[r].code \in nodes \ linked
       THEN /\ Become(r, [req[r] EXCEPT !.pc = "docs"])
            /\ Delete(r, req[r].code)
       ELSE /\ Answer(r, IF req[r].code \in nodes THEN 409 ELSE 404)
            /\ UNCHANGED storeVars
    /\ UNCHANGED <<nodes, linked>>

\* The two nodes are fetched in parallel.
FetchNode(r, code) ==
    /\ req[r].pc = "preflight"
    /\ req[r].method = "ABSORB"
    /\ code \in {req[r].code, req[r].other} \ req[r].fetched
    /\ IF code \notin nodes
       THEN /\ Answer(r, 404)
            /\ UNCHANGED storeVars
       ELSE IF req[r].fetched = {}
       THEN /\ Become(r, [req[r] EXCEPT !.fetched = {code}])
            /\ UNCHANGED storeVars
       ELSE /\ Become(r, [req[r] EXCEPT !.fetched = @ \union {code}, !.pc = "docs"])
            /\ Absorb(r, req[r].other, req[r].code)
    /\ UNCHANGED <<nodes, linked>>

PreflightFails(r) ==
    /\ "graph" \in Faults
    /\ req[r].pc = "preflight"
    /\ Answer(r, 500)
    /\ UNCHANGED <<nodes, linked, storeVars>>

-----------------------------------------------------------------------------
(* The query. *)

\* The store was not needed, or has done its part.
DocsWritten(r) == req[r].pc = "docs" /\ call[r].out \in {"none", "fulfilled"}

\* The store's error reaches the client; nothing is undone.
DocsRejected(r) ==
    /\ req[r].pc = "docs"
    /\ call[r].out = "rejected"
    /\ Answer(r, 500)
    /\ UNCHANGED <<nodes, linked, storeVars>>

\* isNeo4jUpdateNeeded; a PATCH that only changes documents runs no query.
NeedsQuery(r) == Updates(r) => "edits" \in req[r].flags

\* What the transaction does: CREATE, MERGE, DELETE node, or apoc mergeNodes.
QueryEffect(r) ==
    LET c == req[r].code
        o == req[r].other
    IN  \/ /\ Creates(r)
           /\ c \notin nodes
           /\ nodes' = nodes \union {c}
           /\ UNCHANGED linked
        \/ /\ Updates(r)
           /\ nodes' = nodes \union {c}
           /\ UNCHANGED linked
        \/ /\ req[r].method = "DELETE"
           /\ c \notin linked
           /\ nodes' = nodes \ {c}
           /\ UNCHANGED linked
        \/ /\ req[r].method = "ABSORB"
           /\ {c, o} \subseteq nodes
           /\ nodes' = nodes \ {o}
           /\ linked' = (IF o \in linked THEN linked \union {c} ELSE linked) \ {o}

\* Faulty variant: the DELETE handler returns nothing.
StatusForgotten(r) == IF req[r].method = "DELETE" THEN 0 ELSE 200

SuccessStatus(r) ==
    IF req[r].method = "DELETE" THEN 204
    ELSE IF req[r].method = "PATCH" /\ Creates(r) THEN 201
    ELSE 200

Commit(r) ==
    /\ DocsWritten(r)
    /\ NeedsQuery(r)
    /\ QueryEffect(r)
    /\ Answer(r, SuccessStatus(r))
    /\ UNCHANGED storeVars

PatchDocsOnly(r) ==
    /\ DocsWritten(r)
    /\ ~ NeedsQuery(r)
    /\ Answer(r, 200)
    /\ UNCHANGED <<nodes, linked, storeVars>>

\* Faulty variant: the catch block rethrows and forgets the documents.
FailWithoutUndo(r, k, status) ==
    /\ UNCHANGED storeVars
    /\ Become(r, Conclude(k, "end", status))

\* The catch blocks.  post, patch and delete await the undo function before
\* they rethrow; absorb starts it and answers.
FailWith(r, k, status) ==
    /\ IF call[r].op = "none" THEN UNCHANGED storeVars ELSE Undo(r)
    /\ Become(r, Conclude(k, IF k.method = "ABSORB" \/ call[r].op = "none" THEN "end" ELSE "undo",
                          status))

Fail(r, status) == FailWith(r, req[r], status)

\* Neo4j refuses the query: the code is taken, a related record is missing, a
\* record still has relationships or has gone; or, before any query is sent,
\* a field is locked by another client.
QueryRefused(r) ==
    /\ DocsWritten(r)
    /\ \/ Creates(r) /\ req[r].code \in nodes /\ Fail(r, 409)
       \/ Creates(r) /\ Fail(r, 400)
       \/ Updates(r) /\ (Fail(r, 400) \/ Fail(r, 409))
       \/ req[r].method = "DELETE" /\ req[r].code \in linked /\ Fail(r, 500)
       \/ req[r].method = "ABSORB" /\ ~ {req[r].code, req[r].other} \subseteq nodes /\ Fail(r, 500)
    /\ UNCHANGED <<nodes, linked>>

QueryFails(r) ==
    /\ "graph" \in Faults
    /\ DocsWritten(r)
    /\ NeedsQuery(r)
    /\ Fail(r, 500)
    /\ UNCHANGED <<nodes, linked>>

\* The timeout rejects session.run while the query goes on; the transaction of
\* an absorb is rolled back.
QueryTimesOut(r) ==
    /\ "timeout" \in Faults
    /\ DocsWritten(r)
    /\ NeedsQuery(r)
    /\ FailWith(r, IF req[r].method = "ABSORB" THEN req[r]
                   ELSE [req[r] EXCEPT !.flags = @ \union {"late"}], 500)
    /\ UNCHANGED <<nodes, linked>>

\* broadcast runs inside the try.  absorb swallows the error.
ListenerThrows(r) ==
    /\ "listener" \in Faults
    /\ DocsWritten(r)
    /\ IF NeedsQuery(r) THEN QueryEffect(r) ELSE UNCHANGED <<nodes, linked>>
    /\ Fail(r, IF req[r].method = "ABSORB" THEN 200 ELSE 500)

\* Faulty variant: nobody handles a rejected undo.
UndoSucceeded(r) ==
    /\ req[r].pc = "undo"
    /\ call[r].out = "fulfilled"
    /\ Answer(r, req[r].status)
    /\ UNCHANGED <<nodes, linked, storeVars>>

UndoAnswered(r) ==
    /\ req[r].pc = "undo"
    /\ call[r].out \in {"fulfilled", "rejected"}
    /\ Answer(r, IF call[r].out = "rejected" THEN 500 ELSE req[r].status)
    /\ UNCHANGED <<nodes, linked, storeVars>>

-----------------------------------------------------------------------------
(* The environment. *)

\* The query that timed out commits after all, or is stopped with its session.
LateQueryEnds(r) ==
    /\ "late" \in req[r].flags
    /\ QueryEffect(r) \/ UNCHANGED <<nodes, linked>>
    /\ Become(r, [req[r] EXCEPT !.flags = @ \ {"late"}])
    /\ UNCHANGED storeVars

\* Requests for other records connect and disconnect this one.
Relate(code) ==
    /\ code \in nodes
    /\ linked' = IF code \in linked THEN linked \ {code} ELSE linked \union {code}
    /\ UNCHANGED <<nodes, req, storeVars>>

\* The process of one handler stops (a process that runs several stops them by
\* several such steps); S3 requests that have not landed never will.
Crash(r) ==
    /\ "crash" \in Faults
    /\ Busy(r)
    /\ Become(r, IF req[r].pc = "end" THEN req[r] ELSE [req[r] EXCEPT !.pc = "crashed"])
    /\ Start(r, [call[r] EXCEPT !.pending = {},
                                !.out = IF @ = "waiting" THEN "rejected" ELSE @])
    /\ UNCHANGED <<nodes, linked>>

-----------------------------------------------------------------------------
Arrives(r) == ArrivePost(r) \/ ArrivePatch(r) \/ ArriveDelete(r) \/ ArriveAbsorb(r)

HandlerStep(r) ==
    \/ PatchPreflight(r)
    \/ DeletePreflight(r)
    \/ \E c \in Codes : FetchNode(r, c)
    \/ PreflightFails(r)
    \/ DocsRejected(r)
    \/ Commit(r)
    \/ PatchDocsOnly(r)
    \/ QueryRefused(r)
    \/ QueryFails(r)
    \/ QueryTimesOut(r)
    \/ ListenerThrows(r)
    \/ UndoAnswered(r)

StoreStep(r) == StoreAnswers(r) /\ UNCHANGED handlerVars

Next ==
    \/ \E r \in Requests : Arrives(r) \/ HandlerStep(r) \/ StoreStep(r)
                             \/ LateQueryEnds(r) \/ Crash(r)
    \/ \E c \in Codes : Relate(c)

Spec == Init /\ [][Next]_vars

\* Node's event loop runs every continuation, and S3 and Neo4j answer or time
\* out.  Nothing makes a request arrive.
FairSpec ==
    Spec /\ \A r \in Requests : WF_vars(HandlerStep(r)) /\ WF_vars(StoreStep(r))

-----------------------------------------------------------------------------
(* Properties. *)

Quiet(c) == \A r \in Requests : c \in {req[r].code, req[r].other} => ~ Busy(r)

\* What a request wrote to the document store is still there when it has been
\* acknowledged, whatever other handlers fail, undo, time out or crash: their
\* undo functions name their own VersionId.
AcknowledgedWritesSurvive ==
    \A r \in Requests : Acknowledged(r) =>
        /\ "put" \in call[r].held => WroteVersion(r, call[r].into)
        /\ "mark" \in call[r].held => WroteVersion(r, call[r].from)

\* A request that was refused or failed leaves no version in the bucket once
\* its undo is over: the catch blocks of the four handlers and the rollback of
\* absorb between them cover every path on which documents are written first.
FailedRequestsLeaveNothing ==
    \A r \in Requests :
        req[r].pc = "end" /\ ~ Acknowledged(r) /\ Settled(r) => Traceless(r)

\* When nobody works on a record, documents without a node do not exist: a
\* code that answers 404 has no text left for the next record of that code.
NoOrphanDocuments ==
    \A c \in Codes \ nodes : Quiet(c) => Read(bucket[c]) = EmptyBody

\* The document tests promise that a handler "throws if s3 query fails": a POST
\* or PATCH that has created its record and is acknowledged has its texts in the
\* bucket.  What later updates of the record do with them is not its subject.
AcknowledgedDocumentsStored ==
    \A r \in Requests :
        /\ Acknowledged(r)
        /\ Creates(r)
        /\ req[r].docs # EmptyBody
        => \E v \in bucket[req[r].code] : v.id = r /\ v.body = req[r].docs

\* Every handler answers, and what it has sent to S3 comes to an end, even the
\* undo nobody awaits.
EveryRequestIsAnswered ==
    \A r \in Requests : Busy(r) ~> req[r].pc = "end" /\ Settled(r)

\* The atomic record behind the two stores: the documents are what the bucket
\* holds when versions of requests that have not been acknowledged are left out.
CONSTANT NoRecord

ASSUME NoRecordAssumption == NoRecord \notin Bodies

CommittedVersions(c) ==
    {v \in bucket[c] : v.id = Origin \/ (v.id \in Requests /\ Acknowledged(v.id))}

Atomic == INSTANCE AtomicRecords WITH
    record <- [c \in Codes |-> IF c \in nodes THEN Read(CommittedVersions(c)) ELSE NoRecord],
    reply <- [r \in Requests |->
                 IF req[r].pc # "end" THEN "none"
                 ELSE IF Acknowledged(r) THEN "applied" ELSE "refused"]

\* The handlers implement the atomic specification.
ImplementsAtomicRecords == Atomic!Spec
=============================================================================
