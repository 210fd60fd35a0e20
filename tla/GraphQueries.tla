---------------------------- MODULE GraphQueries -----------------------------
(***************************************************************************)
(* The Cypher that lib/neo4j-query-builder.js, lib/relationships/write.js, *)
(* delete.js and absorb.js of packages/tc-api-rest-handlers put together,  *)
(* as functions from graphs to graphs, and what constructOutput reads.     *)
(*                                                                         *)
(* A graph has nodes, of which those in stamped have creation metadata     *)
(* (_createdByRequest and the rest), ordinary properties and locks for     *)
(* each node, and relationships as triples <<start, name, end>>.  A code   *)
(* without a node has no properties, locks or relationships.               *)
(***************************************************************************)
EXTENDS LockedFields

Names == {Def[p].relationship : p \in RelNames}

Graphs ==
    [nodes: SUBSET Codes, stamped: SUBSET Codes, prop: [Codes -> [Plain -> Values \union {Null}]],
     lock: [Codes -> LockTables], edges: SUBSET (Codes \X Names \X Codes)]

NoProperties == [p \in Plain |-> Null]

EmptyGraph ==
    [nodes |-> {}, stamped |-> {}, prop |-> [c \in Codes |-> NoProperties],
     lock |-> [c \in Codes |-> NoLocks], edges |-> {}]

\* The relationship that property p of a record shows its partner by.
Edge(code, p, partner) ==
    IF Def[p].direction = "outgoing" THEN <<code, Def[p].relationship, partner>>
    ELSE <<partner, Def[p].relationship, code>>

Edges(code, relationships) ==
    UNION {{Edge(code, p, m) : m \in relationships[p]} : p \in RelNames}

\* A relationship of a record with itself is read as an outgoing one.
Partners(g, code, p) ==
    {m \in Codes :
        /\ Def[p].of = TypeOf[code]
        /\ Def[p].type = TypeOf[m]
        /\ Edge(code, p, m) \in g.edges
        /\ m = code => Def[p].direction = "outgoing"}

\* Related codes are read in a fixed order.
FirstOf(codes) == IF codes = {} THEN {} ELSE {CHOOSE c \in codes : TRUE}

\* A property with one value shows the first partner, however many there are.
Content(g, code) ==
    [prop |-> g.prop[code], lock |-> g.lock[code],
     rel |-> [p \in RelNames |->
                 IF ToOne(p) THEN FirstOf(Partners(g, code, p)) ELSE Partners(g, code, p)]]

\* A slip: relationships are looked for in one direction.
HasOutgoing(g, code) == \E e \in g.edges : code = e[1]

HasRelationships(g, code) == \E e \in g.edges : code \in {e[1], e[3]}

-----------------------------------------------------------------------------
(* Writes of one record.                                                   *)

\* Two properties that show the same relationships share a query parameter, so
\* the codes of one of them, the last in the body, are sent for both; which one
\* that is does not matter here.
SharedParameter(relationships) ==
    [p \in RelNames |->
        IF relationships[p] = {} THEN {}
        ELSE relationships[CHOOSE q \in FindPropertyNames(p) : relationships[q] # {}]]

\* A slip: others keep a partner that may only have one.
ConflictsIgnored(g, code, changed) == {}

\* A property with many values takes its new partners away from others when
\* their side has one value.
Conflicting(g, code, changed) ==
    {e \in g.edges :
        \E p \in Named(changed) : \E m \in changed[p] : \E other \in Codes \ {code} :
            /\ ~ ToOne(p)
            /\ \E q \in FindInversePropertyNames(p) : ToOne(q)
            /\ e = Edge(other, p, m)}

\* A slip: the partners that upsert creates get no creation metadata.
UpsertsUnstamped(g, code, removed, changed) ==
    LET added == SharedParameter(changed)
        kept  == g.edges \ Edges(code, SharedParameter(removed))
    IN  [g EXCEPT !.nodes = @ \union UNION {added[p] : p \in RelNames},
                  !.edges = (kept \ Conflicting(g, code, added)) \union Edges(code, added)]

\* The node is there; deletions come before the new relationships, and upsert
\* creates the partners that are missing.
WriteRelationships(g, code, removed, changed) ==
    LET added   == SharedParameter(changed)
        created == (UNION {added[p] : p \in RelNames}) \ g.nodes
        kept    == g.edges \ Edges(code, SharedParameter(removed))
    IN  [g EXCEPT !.nodes = @ \union created,
                  !.stamped = @ \union created,
                  !.edges = (kept \ Conflicting(g, code, added)) \union Edges(code, added)]

\* Without upsert a missing partner fails the whole query.
PartnersExist(g, changed) == UNION {SharedParameter(changed)[p] : p \in RelNames} \subseteq g.nodes

WriteNode(g, code, properties, locks) ==
    [g EXCEPT !.nodes = @ \union {code},
              !.prop[code] = [p \in Plain |-> IF p \in DOMAIN properties THEN properties[p] ELSE @[p]],
              !.lock[code] = locks]

CreateQuery(g, code, properties, locks, changed) ==
    LET created == [g EXCEPT !.stamped = @ \union {code}]
    IN  WriteRelationships(WriteNode(created, code, properties, locks), code,
                           [p \in RelNames |-> {}], changed)

\* MERGE creates the node, without creation metadata, if it is gone.
MergeQuery(g, code, properties, locks, removed, changed) ==
    WriteRelationships(WriteNode(g, code, properties, locks), code, removed, changed)

DeleteQuery(g, code) ==
    [g EXCEPT !.nodes = @ \ {code}, !.stamped = @ \ {code},
              !.prop[code] = NoProperties, !.lock[code] = NoLocks]

-----------------------------------------------------------------------------
(* The transaction of an absorb: relationships of the absorbed record are  *)
(* removed, the others move; of two values apoc discards the absorbed one. *)

Moved(e, from, to) ==
    <<IF e[1] = from THEN to ELSE e[1], e[2], IF e[3] = from THEN to ELSE e[3]>>

MergeProperties(main, absorbed) ==
    [p \in Plain |-> IF main[p] = Null THEN absorbed[p] ELSE main[p]]

\* The lock table is a property of the node like any other.
MergeLocks(main, absorbed) == IF main = NoLocks THEN absorbed ELSE main

AbsorbQuery(g, code, absorbed, removed) ==
    LET left   == g.edges \ Edges(absorbed, SharedParameter(removed))
        merged == [g EXCEPT !.prop[code] = MergeProperties(g.prop[code], g.prop[absorbed]),
                            !.lock[code] = MergeLocks(g.lock[code], g.lock[absorbed]),
                            !.stamped = IF absorbed \in @ THEN @ \union {code} ELSE @,
                            !.edges = {Moved(e, absorbed, code) : e \in left}]
    IN  DeleteQuery(merged, absorbed)

==============================================================================
