----------------------------- MODULE AtomicGraph -----------------------------
(***************************************************************************)
(* What the README of packages/tc-api-rest-handlers promises of a write,   *)
(* as one step of the graph: the record afterwards in terms of the record  *)
(* before, without lists of differences and without queries.  A request    *)
(* that waits is carried out in full or leaves the graph as it is.         *)
(***************************************************************************)
EXTENDS GraphQueries

CONSTANTS Requests, Inputs

VARIABLES
    graph,
    waiting     \* the inputs of the requests that have not been answered

\* The field stays with a client other than the one of i.
Forbidden(i, k) ==
    /\ graph.lock[i.code][k] \notin {NoClient, i.client}
    /\ i.unlock # AllFields /\ k \notin NormalizeFields(i.unlock, {})

ToLock(i) ==
    NormalizeFields(i.lock, Keys(i.body)) \ (IF i.method = "PATCH" /\ i.code \in graph.nodes THEN {Code} ELSE {})

Permitted(i) ==
    /\ NormalizeFields(i.lock, Keys(i.body)) # {} => i.client # NoClient
    /\ \A k \in Keys(i.body) \union ToLock(i) : ~ Forbidden(i, k)

LocksAfter(i) ==
    [k \in LockNames |->
        IF k \in ToLock(i) THEN i.client
        ELSE IF i.unlock = AllFields \/ k \in NormalizeFields(i.unlock, {}) THEN NoClient
        ELSE graph.lock[i.code][k]]

PropertiesAfter(i) ==
    [p \in Plain |-> IF p \in DOMAIN i.body.prop THEN i.body.prop[p] ELSE graph.prop[i.code][p]]

PartnersAfter(i, p) ==
    LET before == Partners(graph, i.code, p)
        stay   == CASE p \in DOMAIN i.body.drop -> before \ i.body.drop[p]
                    [] OTHER                    -> before
    IN  CASE p \in i.body.clear      -> {}
          [] p \in DOMAIN i.body.rel ->
                (IF "replace" \in i.flags \/ ToOne(p) THEN {} ELSE stay) \union i.body.rel[p]
          [] OTHER                   -> stay

\* The relationship properties that the body names.
Mentioned(i) == UNION {DOMAIN i.body.rel, DOMAIN i.body.drop, i.body.clear}

\* The relationships that property p of a record shows.
ShownBy(code, p) == {Edge(code, p, m) : m \in Partners(graph, code, p)}

After(i) == UNION {{Edge(i.code, p, m) : m \in PartnersAfter(i, p)} : p \in Mentioned(i)}

\* A new partner that may only have one leaves the one it had.
TakenAway(i) ==
    {e \in graph.edges : \E p \in Mentioned(i) :
        /\ \E q \in FindInversePropertyNames(p) : ToOne(q)
        /\ \E m \in PartnersAfter(i, p) \ Partners(graph, i.code, p), other \in Codes \ {i.code} :
              e = Edge(other, p, m)}

Others(i) == graph.edges \ (TakenAway(i) \union UNION {ShownBy(i.code, p) : p \in Mentioned(i)})

NewPartners(i) == (UNION {i.body.rel[p] : p \in DOMAIN i.body.rel}) \ (graph.nodes \union {i.code})

Write(i) ==
    /\ i.method \in {"POST", "PATCH"}
    /\ i.method = "POST" => i.code \notin graph.nodes
    /\ Permitted(i)
    /\ NewPartners(i) # {} => "upsert" \in i.flags
    /\ graph' = [nodes   |-> graph.nodes \union {i.code} \union NewPartners(i),
                 stamped |-> graph.stamped \union {i.code} \union NewPartners(i),
                 prop    |-> [graph.prop EXCEPT ![i.code] = PropertiesAfter(i)],
                 lock    |-> [graph.lock EXCEPT ![i.code] = LocksAfter(i)],
                 edges   |-> Others(i) \union After(i)]

Erase(i) ==
    /\ i.method = "DELETE"
    /\ ~ HasRelationships(graph, i.code)
    /\ graph' = DeleteQuery(graph, i.code)

\* Relationships between the two records go, and those of the absorbed record
\* that the main one has no place for; the others move.
Kept(i) ==
    {e \in graph.edges :
        /\ {e[1], e[3]} # {i.code, i.other}
        /\ \A p \in PropertiesOf(TypeOf[i.code]) :
              ToOne(p) /\ Partners(graph, i.code, p) # {} => e \notin ShownBy(i.other, p)}

Join(i) ==
    /\ i.method = "ABSORB"
    /\ {i.code, i.other} \subseteq graph.nodes
    /\ graph' = [nodes   |-> graph.nodes \ {i.other},
                 stamped |-> graph.stamped \ {i.other},
                 prop    |-> [graph.prop EXCEPT ![i.other] = NoProperties,
                                 ![i.code] = MergeProperties(graph.prop[i.code], graph.prop[i.other])],
                 lock    |-> [graph.lock EXCEPT ![i.other] = NoLocks,
                                 ![i.code] = MergeLocks(graph.lock[i.code], graph.lock[i.other])],
                 edges   |-> {Moved(e, i.other, i.code) : e \in Kept(i)}]

Send(r) ==
    /\ UNCHANGED graph
    /\ waiting' \in [DOMAIN waiting \union {r} -> Inputs]
    /\ \A q \in DOMAIN waiting : waiting'[q] = waiting[q]

Answer(r) == waiting' = [q \in DOMAIN waiting \ {r} |-> waiting[q]]

CarryOut(r) == Answer(r) /\ (Write(waiting[r]) \/ Erase(waiting[r]) \/ Join(waiting[r]))

Refuse(r) == Answer(r) /\ UNCHANGED graph

Next ==
    \/ \E r \in DOMAIN waiting : CarryOut(r) \/ Refuse(r)
    \/ \E r \in Requests \ DOMAIN waiting : Send(r)

Spec == graph = EmptyGraph /\ waiting = <<>> /\ [][Next]_<<graph, waiting>>

==============================================================================
