---------------------------- MODULE GraphHandlers ----------------------------
(***************************************************************************)
(* packages/tc-api-rest-handlers: what the post, patch, delete and absorb  *)
(* handlers do to the graph, in full: properties, field locks,             *)
(* relationships, creation metadata and events.  A handler reads records   *)
(* in one or more queries, decides from what it has read, and writes in    *)
(* one transaction; other handlers may run in between.                     *)
(*                                                                         *)
(* RecordHandlers has the document store and the failures; here nothing    *)
(* fails but a query.  Requests that validateInput refuses are left out.   *)
(***************************************************************************)
EXTENDS RelatedEvents

CONSTANTS
    Requests,   \* handlers that may run at the same time
    Workloads   \* per behaviour one: inputs, the requests that clients send, and
                \* overlap, sets of methods that run together

VARIABLES
    graph,      \* what Neo4j holds
    req,        \* the handlers
    news,       \* the events of the last step
    workload    \* the one of this behaviour

vars == <<graph, req, news, workload>>

Inputs == UNION {w.inputs : w \in Workloads}

\* other     the record an ABSORB absorbs, of the same type
\* flags     query options: relationshipAction "replace" and "upsert"
IsInput(i) ==
    /\ i.method \in {"POST", "PATCH", "DELETE", "ABSORB"}
    /\ {i.code, i.other} \subseteq Codes
    /\ TypeOf[i.other] = TypeOf[i.code]
    /\ IsBody(TypeOf[i.code], i.body)
    /\ {i.lock, i.unlock} \subseteq FieldLists
    /\ i.flags \subseteq {"replace", "upsert"}
    /\ i.client \in Clients \union {NoClient}

ASSUME InputAssumption == Inputs # {} /\ \A i \in Inputs : IsInput(i)

Contents ==
    [prop: [Plain -> Values \union {Null}], lock: LockTables, rel: [RelNames -> SUBSET Codes]]

Unread == [prop |-> NoProperties, lock |-> NoLocks, rel |-> [p \in RelNames |-> {}]]

\* seen and seenOther are what the preflight has read of code and other.
Request ==
    [input: Inputs,
     pc: {"idle", "preflight", "fetch", "create", "merge", "delete", "absorb", "end"},
     seen: Contents, seenOther: Contents, fetched: SUBSET Codes,
     status: {0, 200, 201, 204, 400, 404, 409, 500}]

NewRequest(input, pc) ==
    [input |-> input, pc |-> pc, seen |-> Unread, seenOther |-> Unread, fetched |-> {}, status |-> 0]

NoRequest == NewRequest(CHOOSE i \in Inputs : TRUE, "idle")

\* Of a request that has been answered only the status is kept.
Answered(status) == [NoRequest EXCEPT !.pc = "end", !.status = status]

Become(r, k) == req' = [req EXCEPT ![r] = k]
Answer(r, status) == Become(r, Answered(status))

Quiet == news' = {} /\ UNCHANGED graph

Commit(g, events) == graph' = g /\ news' = events

Busy(r) == req[r].pc \notin {"idle", "end"}

MayRun(method) ==
    \A q \in Requests :
        Busy(q) => \E together \in workload.overlap : {method, req[q].input.method} \subseteq together

Init ==
    /\ graph = EmptyGraph
    /\ req = [r \in Requests |-> NoRequest]
    /\ news = {}
    /\ workload \in Workloads

-----------------------------------------------------------------------------
(* Creating a record.                                                      *)

\* postHandler up to its query; k is the request as it arrived or as PATCH
\* hands it over.
BeginCreate(r, k) ==
    LET i == k.input
    IN  Become(r, IF Anonymous(i.client, i.lock, Keys(i.body)) THEN Answered(400)
                  ELSE [k EXCEPT !.pc = "create"])

ArrivePost(r, i) ==
    /\ i.method = "POST"
    /\ BeginCreate(r, NewRequest(i, "create"))

\* Properties that differ from those of a record without any.
NewProperties(i) == DiffProperties(i.body.prop, NoProperties)

CreateFails(i) == i.code \in graph.nodes \/ ~ (PartnersExist(graph, GetWriteRelationships(i.body)) \/ "upsert" \in i.flags)

\* The partners the query has created, as the records it returns show.
Created(old, new, code) == new.nodes \ (old.nodes \union {code})

CreateCommits(r) ==
    LET i       == req[r].input
        changed == GetWriteRelationships(i.body)
        new     == CreateQuery(graph, i.code, NewProperties(i),
                               CreateLockedFields(i.client, i.lock, Keys(i.body)), changed)
        updated == DOMAIN NewProperties(i) \union {Code} \union Named(changed)
    IN  /\ req[r].pc = "create"
        /\ ~ CreateFails(i)
        /\ Commit(new, CombineSimilarEvents(
                           MakeEvents("CREATE", i.code, updated, changed, [p \in RelNames |-> {}],
                                      Created(graph, new, i.code))))
        /\ Answer(r, IF i.method = "PATCH" THEN 201 ELSE 200)

\* The code is taken, or a partner is missing.
CreateRefused(r) ==
    /\ req[r].pc = "create"
    /\ CreateFails(req[r].input)
    /\ Answer(r, IF req[r].input.code \in graph.nodes THEN 409 ELSE 400)
    /\ Quiet

-----------------------------------------------------------------------------
(* Updating a record.                                                      *)

ArrivePatch(r, i) ==
    /\ i.method = "PATCH"
    /\ Become(r, NewRequest(i, "preflight"))

\* What queryBuilder works out from the content that was read.
Replaces(i) == "replace" \in i.flags
Diff(i, seen) == DiffProperties(i.body.prop, seen.prop)
Removed(i, seen) == GetRemovedRelationships(seen, i.body, Replaces(i))
Changed(i, seen) == GetChangedRelationships(seen, i.body)
Locks(i, seen) == MergeLockedFields(i.client, i.lock, i.unlock, Keys(i.body), seen.lock)

Refusal(i, seen) ==
    CASE Anonymous(i.client, i.lock, Keys(i.body))                      -> 400
      [] Clashes(i.client, i.lock, i.unlock, Keys(i.body), seen.lock) -> 409
      [] OTHER                                                          -> 0

IsNeo4jUpdateNeeded(i, seen) ==
    \/ DOMAIN Diff(i, seen) # {}
    \/ Named(Removed(i, seen)) # {}
    \/ Named(Changed(i, seen)) # {}
    \/ {i.lock, i.unlock} # {{}} /\ Locks(i, seen) # seen.lock

PatchPreflight(r) ==
    LET i    == req[r].input
        seen == Content(graph, i.code)
    IN  /\ req[r].pc = "preflight"
        /\ i.method = "PATCH"
        /\ IF i.code \notin graph.nodes THEN BeginCreate(r, req[r])
           ELSE IF Refusal(i, seen) # 0 THEN Answer(r, Refusal(i, seen))
           ELSE IF ~ IsNeo4jUpdateNeeded(i, seen) THEN Answer(r, 200)
           ELSE Become(r, [req[r] EXCEPT !.pc = "merge", !.seen = seen])
        /\ Quiet

MergeFails(i, seen) == ~ (PartnersExist(graph, Changed(i, seen)) \/ "upsert" \in i.flags)

MergeCommits(r) ==
    LET i       == req[r].input
        seen    == req[r].seen
        removed == Removed(i, seen)
        changed == Changed(i, seen)
        new     == MergeQuery(graph, i.code, Diff(i, seen), Locks(i, seen), removed, changed)
        updated == UNION {DOMAIN Diff(i, seen), {Code}, Named(removed), Named(changed)}
    IN  /\ req[r].pc = "merge"
        /\ ~ MergeFails(i, seen)
        /\ Commit(new, CombineSimilarEvents(
                           MakeEvents("UPDATE", i.code, updated, changed, removed,
                                      Created(graph, new, i.code))))
        /\ Answer(r, 200)

MergeRefused(r) ==
    /\ req[r].pc = "merge"
    /\ MergeFails(req[r].input, req[r].seen)
    /\ Answer(r, 400)
    /\ Quiet

-----------------------------------------------------------------------------
(* Deleting a record.                                                      *)

ArriveDelete(r, i) ==
    /\ i.method = "DELETE"
    /\ Become(r, NewRequest(i, "preflight"))

DeletePreflight(r) ==
    LET code == req[r].input.code
    IN  /\ req[r].pc = "preflight"
        /\ req[r].input.method = "DELETE"
        /\ IF code \notin graph.nodes THEN Answer(r, 404)
           ELSE IF HasRelationships(graph, code) THEN Answer(r, 409)
           ELSE Become(r, [req[r] EXCEPT !.pc = "delete"])
        /\ Quiet

\* It matches nothing if the record has gone already.
DeleteCommits(r) ==
    LET code == req[r].input.code
    IN  /\ req[r].pc = "delete"
        /\ ~ HasRelationships(graph, code)
        /\ Commit(DeleteQuery(graph, code), {DeleteEvent(code)})
        /\ Answer(r, 204)

\* Neo4j does not delete a node that has relationships.
DeleteRefused(r) ==
    /\ req[r].pc = "delete"
    /\ HasRelationships(graph, req[r].input.code)
    /\ Answer(r, 500)
    /\ Quiet

-----------------------------------------------------------------------------
(* Absorbing a record.                                                     *)

\* A record that absorbs itself is not refused, but what Neo4j then makes of it is
\* up to apoc.refactor.mergeNodes: left out.
ArriveAbsorb(r, i) ==
    /\ i.method = "ABSORB"
    /\ i.code # i.other
    /\ Become(r, NewRequest(i, "fetch"))

\* The two records are fetched side by side.
Fetch(r, code) ==
    LET content == Content(graph, code)
        k       == IF code = req[r].input.code THEN [req[r] EXCEPT !.seen = content]
                   ELSE [req[r] EXCEPT !.seenOther = content]
        got     == req[r].fetched \union {code}
    IN  /\ req[r].pc = "fetch"
        /\ code \in {req[r].input.code, req[r].input.other} \ req[r].fetched
        /\ IF code \notin graph.nodes THEN Answer(r, 404)
           ELSE Become(r, [k EXCEPT !.fetched = got,
                                    !.pc = IF got = {req[r].input.code, req[r].input.other}
                                           THEN "absorb" ELSE @])
        /\ Quiet

\* Properties of the absorbed record that the main one has not.
WriteProperties(main, absorbed) ==
    {p \in Plain : absorbed.prop[p] # Null /\ main.prop[p] = Null}

\* A slip: properties of the main record with one value get a second one.
RemovedBetween(code, main, absorbed) == [p \in RelNames |-> absorbed.rel[p] \cap {code}]

\* The relationships of the absorbed record that give way to one of the main
\* record, and those between the two.
CollectRemovedRelationships(code, main, absorbed) ==
    [p \in RelNames |->
        (IF ToOne(p) /\ main.rel[p] # {} THEN absorbed.rel[p] \ main.rel[p] ELSE {})
            \union (absorbed.rel[p] \cap {code})]

AbsorbCommits(r) ==
    LET i       == req[r].input
        main    == req[r].seen
        removed == CollectRemovedRelationships(i.code, main, req[r].seenOther)
        new     == AbsorbQuery(graph, i.code, i.other, removed)
        changed == AbsorbedChanges(main, Content(new, i.code))
        updated == WriteProperties(main, req[r].seenOther) \union Named(changed)
    IN  /\ req[r].pc = "absorb"
        /\ {i.code, i.other} \subseteq graph.nodes
        /\ Commit(new, CombineSimilarEvents(UNION {
                           {DeleteEvent(i.other)},
                           MakeRemovedRelationshipEvents(GetAlteredPeers(req[r].seenOther)),
                           MakeEvents("UPDATE", i.code, updated, changed, removed, {})}))
        /\ Answer(r, 200)

\* A record has gone since.
AbsorbFails(r) ==
    /\ req[r].pc = "absorb"
    /\ ~ {req[r].input.code, req[r].input.other} \subseteq graph.nodes
    /\ Answer(r, 500)
    /\ Quiet

-----------------------------------------------------------------------------

\* Neo4j answers a query with an error.
QueryFails(r) == Busy(r) /\ Answer(r, 500) /\ Quiet

Arrive(r) ==
    /\ ~ Busy(r)
    /\ \E i \in workload.inputs :
          /\ MayRun(i.method)
          /\ \/ ArrivePost(r, i) \/ ArrivePatch(r, i) \/ ArriveDelete(r, i) \/ ArriveAbsorb(r, i)
    /\ Quiet

Handle(r) ==
    \/ CreateCommits(r) \/ CreateRefused(r)
    \/ PatchPreflight(r)
    \/ MergeCommits(r) \/ MergeRefused(r)
    \/ DeletePreflight(r) \/ DeleteCommits(r) \/ DeleteRefused(r)
    \/ \E code \in Codes : Fetch(r, code)
    \/ AbsorbCommits(r) \/ AbsorbFails(r)
    \/ QueryFails(r)

Next == (\E r \in Requests : Arrive(r) \/ Handle(r)) /\ UNCHANGED workload

Spec == Init /\ [][Next]_vars

-----------------------------------------------------------------------------
(* Properties.                                                             *)

\* The state is well formed: relationships, properties and locks belong to
\* records that exist, and a handler that is going to write has read a record.
TypeOK ==
    /\ graph \in Graphs
    /\ graph.stamped \subseteq graph.nodes
    /\ \A e \in graph.edges : {e[1], e[3]} \subseteq graph.nodes
    /\ \A c \in Codes \ graph.nodes : graph.prop[c] = NoProperties /\ graph.lock[c] = NoLocks
    /\ req \in [Requests -> Request]
    /\ news \subseteq Events

\* What property p of a record shows.
Shown(g, code, p) == IF p \in Plain THEN g.prop[code][p] ELSE Partners(g, code, p)

Writes(r) == graph' # graph /\ req'[r] # req[r]

Unlocks(i, k) == i.unlock = AllFields \/ k \in NormalizeFields(i.unlock, {})

\* An update of r changes the graph, and does not unlock field k of a record
\* that another client has locked.
Updates(r) == Writes(r) /\ req[r].input.method = "PATCH"
LockedBefore(r, code, k) ==
    graph.lock[code][k] \notin {NoClient, req[r].input.client} /\ ~ Unlocks(req[r].input, k)

\* As long as a field is locked, a request of another client that does not
\* unlock it changes neither the field nor its lock: the lock table is read,
\* merged and written back by patchHandler without losing an entry.
LockedFieldsKept ==
    [][\A r \in Requests : Updates(r) =>
          \A c \in Codes, k \in LockNames : LockedBefore(r, c, k) =>
              /\ graph'.lock[c][k] = graph.lock[c][k]
              /\ k \in Plain => graph'.prop[c][k] = graph.prop[c][k]]_vars

\* A property with one value has at most one partner in the graph, whichever
\* side its relationships were written from.
ToOneHolds ==
    \A c \in graph.nodes, p \in RelNames :
        ToOne(p) => \A m, n \in Partners(graph, c, p) : m = n

\* Every record has creation metadata, also one that upsert created or that a
\* MERGE query found missing.
EveryRecordStamped == graph.nodes \subseteq graph.stamped

\* broadcast tells of every record that was created or deleted, and of every
\* property whose value or partners changed, also on the other end of a
\* relationship.
ChangesAreAnnounced ==
    [][\A c \in Codes :
          /\ c \in graph'.nodes \ graph.nodes => \E e \in news' : e.action = "CREATE" /\ e.code = c
          /\ c \in graph.nodes \ graph'.nodes => \E e \in news' : e.action = "DELETE" /\ e.code = c
          /\ c \in graph'.nodes =>
                \A p \in Plain \union PropertiesOf(TypeOf[c]) :
                    Shown(graph', c, p) # Shown(graph, c, p) =>
                        \E e \in news' : e.code = c /\ p \in e.props]_vars

\* A property that an UPDATE names has changed.
OnlyChangesAreAnnounced ==
    [][\A e \in news' : e.action = "UPDATE" =>
          \A p \in e.props : Shown(graph', e.code, p) # Shown(graph, e.code, p)]_vars

\* Handlers that do not overlap, or that do not decide from what they have
\* read, change the graph as AtomicGraph says.
Atomic == INSTANCE AtomicGraph
              WITH waiting <- [r \in {q \in Requests : Busy(q)} |-> req[r].input]
ImplementsAtomicGraph == Atomic!Spec

==============================================================================
