-------------------------- MODULE GraphHandlersProofs ---------------------------
(***************************************************************************)
(* Theorems about GraphHandlers: its states are well formed, and, for the  *)
(* schemas and workloads that the hypotheses name, every record has        *)
(* creation metadata, locked fields are kept, a property with one value    *)
(* has one partner, every request changes the graph in one step of         *)
(* AtomicGraph, and the events of a request name what it has changed and   *)
(* nothing else.                                                           *)
(***************************************************************************)
EXTENDS GraphHandlers, TLAPS

-----------------------------------------------------------------------------
(* Inputs.                                                                 *)

Relations == [RelNames -> SUBSET Codes]
PropertyChanges(f) == IsPartial(f, Plain, Values \union {Null})

LEMMA InputType ==
    ASSUME NEW i \in Inputs
    PROVE  /\ i.method \in {"POST", "PATCH", "DELETE", "ABSORB"}
           /\ i.code \in Codes /\ i.other \in Codes
           /\ PropertyChanges(i.body.prop)
           /\ GetWriteRelationships(i.body) \in Relations
           /\ i.client \in Clients \union {NoClient}
BY InputAssumption
DEF IsInput, IsBody, PropertyChanges, IsPartial, PropertiesOf, GetWriteRelationships, Relations

LEMMA DiffType ==
    ASSUME NEW new, NEW old, PropertyChanges(new)
    PROVE  PropertyChanges(DiffProperties(new, old))
BY DEF PropertyChanges, IsPartial, DiffProperties

LEMMA NoRelations == [p \in RelNames |-> {}] \in Relations
BY DEF Relations

LEMMA RemovedType ==
    ASSUME NEW i \in Inputs, NEW seen \in Contents
    PROVE  Removed(i, seen) \in Relations
<1>1. seen.rel \in [RelNames -> SUBSET Codes]
  BY DEF Contents
<1>2. \A p \in RelNames : FindImplicitDeletions(seen, i.body, Replaces(i), p) \in SUBSET Codes
  BY <1>1 DEF FindImplicitDeletions
<1>3. \A p \in RelNames : FindActualDeletions(seen, i.body, p) \in SUBSET Codes
  BY <1>1 DEF FindActualDeletions
<1> QED
  BY <1>2, <1>3 DEF Removed, GetRemovedRelationships, Relations

LEMMA ChangedType ==
    ASSUME NEW i \in Inputs, NEW seen
    PROVE  Changed(i, seen) \in Relations
BY InputType DEF Changed, GetChangedRelationships, GetDiffs, Relations

-----------------------------------------------------------------------------
(* Locks.                                                                  *)

LEMMA MergeLockedFieldsType ==
    ASSUME NEW client \in Clients \union {NoClient}, NEW lock, NEW unlock, NEW keys,
           NEW existing \in LockTables
    PROVE  MergeLockedFields(client, lock, unlock, keys, existing) \in LockTables
BY DEF MergeLockedFields, SetLockedFields, RemoveLockedFields, LockTables

LEMMA CreateLockedFieldsType ==
    ASSUME NEW client \in Clients \union {NoClient}, NEW lock, NEW keys
    PROVE  CreateLockedFields(client, lock, keys) \in LockTables
BY DEF CreateLockedFields, SetLockedFields, NoLocks, LockTables

\* What an update that is not refused leaves as it was.
LEMMA ForeignLocksKept ==
    ASSUME NEW client, NEW lock, NEW unlock, NEW keys, NEW existing \in LockTables,
           ~ Clashes(client, lock, unlock, keys, existing),
           NEW k \in LockNames, existing[k] \notin {NoClient, client},
           unlock # AllFields, k \notin NormalizeFields(unlock, {})
    PROVE  /\ MergeLockedFields(client, lock, unlock, keys, existing)[k] = existing[k]
           /\ k \notin keys
<1>1. RemoveLockedFields(unlock, existing)[k] = existing[k]
  BY DEF RemoveLockedFields
<1>2. k \notin LockFieldList(lock, keys)
  BY <1>1 DEF Clashes, TakenBy
<1>3. MergeLockedFields(client, lock, unlock, keys, existing)[k] = existing[k]
  BY <1>1, <1>2 DEF MergeLockedFields, SetLockedFields
<1> QED
  BY <1>3 DEF Clashes, TakenBy

-----------------------------------------------------------------------------
(* Graphs.  What TypeOK says of the graph.                                 *)
GraphOK(g) ==
    /\ g \in Graphs
    /\ g.stamped \subseteq g.nodes
    /\ \A e \in g.edges : {e[1], e[3]} \subseteq g.nodes
    /\ \A c \in Codes \ g.nodes : g.prop[c] = NoProperties /\ g.lock[c] = NoLocks

Triples == Codes \X Names \X Codes

LEMMA EdgeType ==
    ASSUME NEW code \in Codes, NEW p \in RelNames, NEW m \in Codes
    PROVE  /\ Edge(code, p, m) \in Triples
           /\ {Edge(code, p, m)[1], Edge(code, p, m)[3]} = {code, m}
BY DEF Edge, Triples, Names

LEMMA EdgesType ==
    ASSUME NEW code \in Codes, NEW relationships \in Relations, NEW e \in Edges(code, relationships)
    PROVE  /\ e \in Triples
           /\ {e[1], e[3]} \subseteq {code} \union UNION {relationships[p] : p \in RelNames}
<1>1. PICK p \in RelNames : \E m \in relationships[p] : e = Edge(code, p, m)
  BY DEF Edges
<1>2. PICK m \in relationships[p] : e = Edge(code, p, m)
  BY <1>1
<1>3. m \in Codes /\ m \in UNION {relationships[q] : q \in RelNames}
  BY <1>1, <1>2 DEF Relations
<1> QED
  BY <1>2, <1>3, EdgeType

LEMMA SharedType ==
    ASSUME NEW relationships \in Relations
    PROVE  SharedParameter(relationships) \in Relations
<1>1. ASSUME NEW p \in RelNames, relationships[p] # {}
      PROVE  (CHOOSE q \in FindPropertyNames(p) : relationships[q] # {}) \in RelNames
  <2>1. p \in FindPropertyNames(p) /\ FindPropertyNames(p) \subseteq RelNames
    BY DEF FindPropertyNames, FindPropertyNamesFromPropertyDef, PropertiesOf
  <2>2. \E q \in FindPropertyNames(p) : relationships[q] # {}
    BY <1>1, <2>1
  <2> QED
    BY <2>1, <2>2
<1>2. \A p \in RelNames : SharedParameter(relationships)[p] \in SUBSET Codes
  BY <1>1 DEF SharedParameter, Relations
<1> QED
  BY <1>2 DEF SharedParameter, Relations

LEMMA ContentType ==
    ASSUME NEW g \in Graphs, NEW code \in Codes
    PROVE  Content(g, code) \in Contents
<1>1. \A p \in RelNames : Partners(g, code, p) \subseteq Codes
  BY DEF Partners
<1>2. \A s \in SUBSET Codes : FirstOf(s) \in SUBSET Codes
  BY DEF FirstOf
<1>3. [p \in RelNames |-> IF ToOne(p) THEN FirstOf(Partners(g, code, p)) ELSE Partners(g, code, p)]
          \in [RelNames -> SUBSET Codes]
  BY <1>1, <1>2
<1> QED
  BY <1>3 DEF Content, Contents, Graphs

\* What the queries leave of a graph, field by field.
LEMMA WriteNodeFields ==
    ASSUME NEW g \in Graphs, NEW code \in Codes, NEW properties, NEW locks
    PROVE  /\ WriteNode(g, code, properties, locks).nodes = g.nodes \union {code}
           /\ WriteNode(g, code, properties, locks).stamped = g.stamped
           /\ WriteNode(g, code, properties, locks).edges = g.edges
<1> DEFINE n == WriteNode(g, code, properties, locks)
<1>1. n.nodes = g.nodes \union {code}
  BY DEF WriteNode, Graphs
<1>2. n.stamped = g.stamped
  BY DEF WriteNode, Graphs
<1>3. n.edges = g.edges
  BY DEF WriteNode, Graphs
<1> QED
  BY <1>1, <1>2, <1>3

LEMMA WriteNodeLocks ==
    ASSUME NEW g \in Graphs, NEW code \in Codes, NEW properties, NEW locks
    PROVE  WriteNode(g, code, properties, locks).lock = [g.lock EXCEPT ![code] = locks]
BY DEF WriteNode, Graphs

LEMMA WriteNodeProperties ==
    ASSUME NEW g \in Graphs, NEW code \in Codes, NEW properties, NEW locks
    PROVE  WriteNode(g, code, properties, locks).prop =
               [g.prop EXCEPT ![code] = [p \in Plain |-> IF p \in DOMAIN properties THEN properties[p] ELSE @[p]]]
BY DEF WriteNode, Graphs

LEMMA RowType ==
    ASSUME NEW g \in Graphs, NEW code \in Codes, NEW locks \in LockTables,
           NEW row \in [Plain -> Values \union {Null}]
    PROVE  [g EXCEPT !.nodes = @ \union {code}, !.prop[code] = row, !.lock[code] = locks] \in Graphs
BY DEF Graphs

LEMMA WriteNodeType ==
    ASSUME NEW g \in Graphs, NEW code \in Codes,
           NEW properties, PropertyChanges(properties), NEW locks \in LockTables
    PROVE  /\ WriteNode(g, code, properties, locks) \in Graphs
           /\ \A c \in Codes \ {code} :
                 /\ WriteNode(g, code, properties, locks).prop[c] = g.prop[c]
                 /\ WriteNode(g, code, properties, locks).lock[c] = g.lock[c]
<1>1. [p \in Plain |-> IF p \in DOMAIN properties THEN properties[p] ELSE g.prop[code][p]]
          \in [Plain -> Values \union {Null}]
  BY DEF PropertyChanges, IsPartial, Graphs
<1>2. PICK row \in [Plain -> Values \union {Null}] :
          row = [p \in Plain |-> IF p \in DOMAIN properties THEN properties[p] ELSE g.prop[code][p]]
  BY <1>1
<1>3. WriteNode(g, code, properties, locks) =
          [g EXCEPT !.nodes = @ \union {code}, !.prop[code] = row, !.lock[code] = locks]
  BY <1>2 DEF WriteNode, Graphs
<1>4. [g EXCEPT !.nodes = @ \union {code}, !.prop[code] = row, !.lock[code] = locks] \in Graphs
  BY RowType
<1>5. \A c \in Codes \ {code} : WriteNode(g, code, properties, locks).lock[c] = g.lock[c]
  <2>1. WriteNode(g, code, properties, locks).lock = [g.lock EXCEPT ![code] = locks]
    BY WriteNodeLocks
  <2>2. g.lock \in [Codes -> LockTables]
    BY DEF Graphs
  <2> QED
    BY <2>1, <2>2
<1>6. \A c \in Codes \ {code} : WriteNode(g, code, properties, locks).prop[c] = g.prop[c]
  <2>1. WriteNode(g, code, properties, locks).prop = [g.prop EXCEPT ![code] = row]
    BY <1>2 DEF WriteNode, Graphs
  <2>2. g.prop \in [Codes -> [Plain -> Values \union {Null}]]
    BY DEF Graphs
  <2> QED
    BY <2>1, <2>2
<1> QED
  BY <1>3, <1>4, <1>5, <1>6

\* The new relationships and what is left of the old ones.
NewEdges(g, code, removed, changed) ==
    ((g.edges \ Edges(code, SharedParameter(removed))) \ Conflicting(g, code, SharedParameter(changed)))
        \union Edges(code, SharedParameter(changed))

NewNodes(g, changed) == (UNION {SharedParameter(changed)[p] : p \in RelNames}) \ g.nodes

LEMMA WriteRelationshipsFields ==
    ASSUME NEW g \in Graphs, NEW code, NEW removed, NEW changed
    PROVE  /\ WriteRelationships(g, code, removed, changed).nodes = g.nodes \union NewNodes(g, changed)
           /\ WriteRelationships(g, code, removed, changed).stamped = g.stamped \union NewNodes(g, changed)
           /\ WriteRelationships(g, code, removed, changed).edges = NewEdges(g, code, removed, changed)
           /\ WriteRelationships(g, code, removed, changed).prop = g.prop
           /\ WriteRelationships(g, code, removed, changed).lock = g.lock
BY DEF WriteRelationships, NewNodes, NewEdges, Graphs

LEMMA WriteRelationshipsType ==
    ASSUME NEW g \in Graphs, NEW code \in Codes, NEW removed \in Relations, NEW changed \in Relations
    PROVE  WriteRelationships(g, code, removed, changed) \in Graphs
<1>1. NewNodes(g, changed) \subseteq Codes
  BY SharedType DEF NewNodes, Relations
<1>2. NewEdges(g, code, removed, changed) \subseteq Codes \X Names \X Codes
  <2>1. g.edges \subseteq Codes \X Names \X Codes
    BY DEF Graphs
  <2>2. Edges(code, SharedParameter(changed)) \subseteq Codes \X Names \X Codes
    BY SharedType, EdgesType DEF Triples
  <2> QED
    BY <2>1, <2>2 DEF NewEdges
<1>3. WriteRelationships(g, code, removed, changed) =
          [g EXCEPT !.nodes = @ \union NewNodes(g, changed),
                    !.stamped = @ \union NewNodes(g, changed),
                    !.edges = NewEdges(g, code, removed, changed)]
  BY DEF WriteRelationships, NewNodes, NewEdges
<1> QED
  BY <1>1, <1>2, <1>3 DEF Graphs

\* A graph in which only the record itself may lack what a written one has.
LEMMA WriteOK ==
    ASSUME NEW g, g \in Graphs, NEW code \in Codes,
           NEW properties, PropertyChanges(properties), NEW locks \in LockTables,
           NEW removed \in Relations, NEW changed \in Relations,
           g.stamped \subseteq g.nodes \union {code},
           \A e \in g.edges : {e[1], e[3]} \subseteq g.nodes,
           \A c \in Codes \ g.nodes : g.prop[c] = NoProperties /\ g.lock[c] = NoLocks
    PROVE  GraphOK(WriteRelationships(WriteNode(g, code, properties, locks), code, removed, changed))
<1>1. PICK w : w = WriteNode(g, code, properties, locks)
  OBVIOUS
<1>2. /\ w.nodes = g.nodes \union {code} /\ w.stamped = g.stamped /\ w.edges = g.edges
      /\ w \in Graphs
      /\ \A c \in Codes \ {code} : w.prop[c] = g.prop[c] /\ w.lock[c] = g.lock[c]
  BY <1>1, WriteNodeFields, WriteNodeType
<1>3. PICK n : n = WriteRelationships(w, code, removed, changed)
  OBVIOUS
<1>4. /\ n.nodes = w.nodes \union NewNodes(w, changed)
      /\ n.stamped = w.stamped \union NewNodes(w, changed)
      /\ n.edges = NewEdges(w, code, removed, changed)
      /\ n.prop = w.prop /\ n.lock = w.lock
  BY <1>2, <1>3, WriteRelationshipsFields
<1>5. n \in Graphs
  BY <1>2, <1>3, WriteRelationshipsType
<1>6. \A e \in n.edges : {e[1], e[3]} \subseteq n.nodes
  <2>1. \A e \in w.edges : {e[1], e[3]} \subseteq n.nodes
    BY <1>2, <1>4
  <2>2. /\ UNION {SharedParameter(changed)[p] : p \in RelNames} \subseteq n.nodes
        /\ code \in n.nodes
    BY <1>2, <1>4 DEF NewNodes
  <2>3. \A e \in Edges(code, SharedParameter(changed)) : {e[1], e[3]} \subseteq n.nodes
    BY <2>2, SharedType, EdgesType
  <2> QED
    BY <1>4, <2>1, <2>3 DEF NewEdges
<1>7. \A c \in Codes \ n.nodes : n.prop[c] = NoProperties /\ n.lock[c] = NoLocks
  BY <1>2, <1>4
<1>8. n.stamped \subseteq n.nodes
  BY <1>2, <1>4
<1> QED
  BY <1>1, <1>3, <1>5, <1>6, <1>7, <1>8 DEF GraphOK

LEMMA MergeOK ==
    ASSUME NEW g, GraphOK(g), NEW code \in Codes,
           NEW properties, PropertyChanges(properties), NEW locks \in LockTables,
           NEW removed \in Relations, NEW changed \in Relations
    PROVE  GraphOK(MergeQuery(g, code, properties, locks, removed, changed))
BY WriteOK DEF MergeQuery, GraphOK

LEMMA CreateOK ==
    ASSUME NEW g, GraphOK(g), NEW code \in Codes,
           NEW properties, PropertyChanges(properties), NEW locks \in LockTables,
           NEW changed \in Relations
    PROVE  GraphOK(CreateQuery(g, code, properties, locks, changed))
<1>1. PICK created : created = [g EXCEPT !.stamped = @ \union {code}]
  OBVIOUS
<1>2. /\ created \in Graphs /\ created.stamped = g.stamped \union {code}
      /\ created.nodes = g.nodes /\ created.edges = g.edges
      /\ created.prop = g.prop /\ created.lock = g.lock
  BY <1>1 DEF GraphOK, Graphs
<1>3. /\ created.stamped \subseteq created.nodes \union {code}
      /\ \A e \in created.edges : {e[1], e[3]} \subseteq created.nodes
      /\ \A c \in Codes \ created.nodes : created.prop[c] = NoProperties /\ created.lock[c] = NoLocks
  BY <1>2 DEF GraphOK
<1>4. PICK none \in Relations : none = [p \in RelNames |-> {}]
  BY NoRelations
<1>5. GraphOK(WriteRelationships(WriteNode(created, code, properties, locks), code, none, changed))
  BY <1>2, <1>3, WriteOK
<1> QED
  BY <1>1, <1>4, <1>5 DEF CreateQuery

LEMMA DeleteFields ==
    ASSUME NEW g \in Graphs, NEW code \in Codes
    PROVE  /\ DeleteQuery(g, code).nodes = g.nodes \ {code}
           /\ DeleteQuery(g, code).stamped = g.stamped \ {code}
           /\ DeleteQuery(g, code).edges = g.edges
BY DEF DeleteQuery, Graphs

LEMMA DeleteRows ==
    ASSUME NEW g \in Graphs, NEW code \in Codes
    PROVE  /\ DeleteQuery(g, code).prop[code] = NoProperties
           /\ DeleteQuery(g, code).lock[code] = NoLocks
           /\ \A c \in Codes \ {code} : /\ DeleteQuery(g, code).prop[c] = g.prop[c]
                                        /\ DeleteQuery(g, code).lock[c] = g.lock[c]
<1>1. DeleteQuery(g, code).prop = [g.prop EXCEPT ![code] = NoProperties]
  BY DEF DeleteQuery, Graphs
<1>2. DeleteQuery(g, code).lock = [g.lock EXCEPT ![code] = NoLocks]
  BY DEF DeleteQuery, Graphs
<1>3. DOMAIN g.prop = Codes /\ DOMAIN g.lock = Codes
  BY DEF Graphs
<1> QED
  BY <1>1, <1>2, <1>3

LEMMA DeleteType ==
    ASSUME NEW g \in Graphs, NEW code \in Codes
    PROVE  DeleteQuery(g, code) \in Graphs
<1>1. NoProperties \in [Plain -> Values \union {Null}] /\ NoLocks \in LockTables
  BY DEF NoProperties, NoLocks, LockTables
<1> QED
  BY <1>1 DEF DeleteQuery, Graphs

LEMMA DeleteOK ==
    ASSUME NEW g, GraphOK(g), NEW code \in Codes, ~ HasRelationships(g, code)
    PROVE  GraphOK(DeleteQuery(g, code))
<1>1. PICK n : n = DeleteQuery(g, code)
  OBVIOUS
<1>2. /\ n \in Graphs
      /\ n.nodes = g.nodes \ {code} /\ n.stamped = g.stamped \ {code} /\ n.edges = g.edges
  BY <1>1, DeleteFields, DeleteType DEF GraphOK
<1>3. \A c \in Codes \ n.nodes : n.prop[c] = NoProperties /\ n.lock[c] = NoLocks
  <2> SUFFICES ASSUME NEW c \in Codes \ n.nodes PROVE n.prop[c] = NoProperties /\ n.lock[c] = NoLocks
    OBVIOUS
  <2>1. CASE c = code
    BY <1>1, <2>1, DeleteRows DEF GraphOK
  <2>2. CASE c # code
    BY <1>1, <1>2, <2>2, DeleteRows DEF GraphOK
  <2> QED
    BY <2>1, <2>2
<1>4. \A e \in n.edges : {e[1], e[3]} \subseteq n.nodes
  BY <1>2 DEF GraphOK, HasRelationships
<1>5. n.stamped \subseteq n.nodes
  BY <1>2 DEF GraphOK
<1> QED
  BY <1>1, <1>2, <1>3, <1>4, <1>5 DEF GraphOK

\* The graph after the two nodes have been merged and before one is deleted.
MovedEdges(g, code, absorbed, removed) ==
    {Moved(e, absorbed, code) : e \in g.edges \ Edges(absorbed, SharedParameter(removed))}

Joined(g, code, absorbed, removed) ==
    [g EXCEPT !.prop[code] = MergeProperties(g.prop[code], g.prop[absorbed]),
              !.lock[code] = MergeLocks(g.lock[code], g.lock[absorbed]),
              !.stamped = IF absorbed \in @ THEN @ \union {code} ELSE @,
              !.edges = MovedEdges(g, code, absorbed, removed)]

LEMMA MovedType ==
    ASSUME NEW g \in Graphs, NEW code \in Codes, NEW absorbed \in Codes, code # absorbed,
           NEW removed, NEW e \in MovedEdges(g, code, absorbed, removed)
    PROVE  /\ e \in Codes \X Names \X Codes
           /\ e[1] # absorbed /\ e[3] # absorbed
           /\ \E d \in g.edges : {e[1], e[3]} \subseteq {code} \union ({d[1], d[3]} \ {absorbed})
<1>1. PICK d \in g.edges : e = Moved(d, absorbed, code)
  BY DEF MovedEdges
<1>2. d \in Codes \X Names \X Codes
  BY DEF Graphs
<1> QED
  BY <1>1, <1>2 DEF Moved

LEMMA JoinedFields ==
    ASSUME NEW g \in Graphs, NEW code \in Codes, NEW absorbed \in Codes, NEW removed
    PROVE  /\ Joined(g, code, absorbed, removed).nodes = g.nodes
           /\ absorbed \in g.stamped =>
                 Joined(g, code, absorbed, removed).stamped = g.stamped \union {code}
           /\ absorbed \notin g.stamped =>
                 Joined(g, code, absorbed, removed).stamped = g.stamped
           /\ Joined(g, code, absorbed, removed).edges = MovedEdges(g, code, absorbed, removed)
BY DEF Joined, Graphs

LEMMA JoinedRows ==
    ASSUME NEW g \in Graphs, NEW code \in Codes, NEW absorbed \in Codes, NEW removed
    PROVE  /\ Joined(g, code, absorbed, removed).prop[code] = MergeProperties(g.prop[code], g.prop[absorbed])
           /\ \A c \in Codes \ {code} : /\ Joined(g, code, absorbed, removed).prop[c] = g.prop[c]
                                        /\ Joined(g, code, absorbed, removed).lock[c] = g.lock[c]
<1>1. PICK row : row = MergeProperties(g.prop[code], g.prop[absorbed])
  OBVIOUS
<1>2. PICK locks : locks = MergeLocks(g.lock[code], g.lock[absorbed])
  OBVIOUS
<1>3. Joined(g, code, absorbed, removed).prop = [g.prop EXCEPT ![code] = row]
  BY <1>1 DEF Joined, Graphs
<1>4. Joined(g, code, absorbed, removed).lock = [g.lock EXCEPT ![code] = locks]
  BY <1>2 DEF Joined, Graphs
<1>5. DOMAIN g.prop = Codes /\ DOMAIN g.lock = Codes
  BY DEF Graphs
<1> QED
  BY <1>1, <1>3, <1>4, <1>5

LEMMA JoinedType ==
    ASSUME NEW g \in Graphs, NEW code \in Codes, NEW absorbed \in Codes, code # absorbed,
           NEW removed
    PROVE  Joined(g, code, absorbed, removed) \in Graphs
<1>1. PICK row \in [Plain -> Values \union {Null}] :
          row = MergeProperties(g.prop[code], g.prop[absorbed])
  BY DEF MergeProperties, Graphs
<1>2. PICK locks \in LockTables : locks = MergeLocks(g.lock[code], g.lock[absorbed])
  BY DEF MergeLocks, Graphs
<1>3. PICK edges \in SUBSET (Codes \X Names \X Codes) : edges = MovedEdges(g, code, absorbed, removed)
  BY MovedType
<1>4. PICK stamped \in SUBSET Codes :
          stamped = IF absorbed \in g.stamped THEN g.stamped \union {code} ELSE g.stamped
  BY DEF Graphs
<1>5. [g EXCEPT !.prop[code] = row, !.lock[code] = locks, !.stamped = stamped, !.edges = edges] \in Graphs
  BY DEF Graphs
<1>6. Joined(g, code, absorbed, removed) =
          [g EXCEPT !.prop[code] = row, !.lock[code] = locks, !.stamped = stamped, !.edges = edges]
  BY <1>1, <1>2, <1>3, <1>4 DEF Joined
<1> QED
  BY <1>5, <1>6

LEMMA AbsorbOK ==
    ASSUME NEW g, GraphOK(g), NEW code \in g.nodes, NEW absorbed \in g.nodes, code # absorbed,
           NEW removed
    PROVE  GraphOK(AbsorbQuery(g, code, absorbed, removed))
<1>1. PICK m : m = Joined(g, code, absorbed, removed)
  OBVIOUS
<1>2. AbsorbQuery(g, code, absorbed, removed) = DeleteQuery(m, absorbed)
  BY <1>1 DEF AbsorbQuery, Joined, MovedEdges
<1>3. code \in Codes /\ absorbed \in Codes /\ g \in Graphs
  BY DEF GraphOK, Graphs
<1>4. m \in Graphs
  BY <1>1, <1>3, JoinedType
<1>5. PICK n : n = DeleteQuery(m, absorbed)
  OBVIOUS
<1>6. /\ n \in Graphs
      /\ n.nodes = g.nodes \ {absorbed} /\ n.edges = MovedEdges(g, code, absorbed, removed)
      /\ n.stamped \subseteq (g.stamped \union {code}) \ {absorbed}
  <2>1. /\ m.nodes = g.nodes /\ m.edges = MovedEdges(g, code, absorbed, removed)
        /\ m.stamped \subseteq g.stamped \union {code}
    BY <1>1, <1>3, JoinedFields
  <2>2. n \in Graphs /\ n.nodes = m.nodes \ {absorbed} /\ n.stamped = m.stamped \ {absorbed} /\ n.edges = m.edges
    BY <1>3, <1>4, <1>5, DeleteFields, DeleteType
  <2> QED
    BY <2>1, <2>2
<1>7. \A c \in Codes \ n.nodes : n.prop[c] = NoProperties /\ n.lock[c] = NoLocks
  <2> SUFFICES ASSUME NEW c \in Codes \ n.nodes PROVE n.prop[c] = NoProperties /\ n.lock[c] = NoLocks
    OBVIOUS
  <2>1. CASE c = absorbed
    BY <1>3, <1>4, <1>5, <2>1, DeleteRows
  <2>2. CASE c # absorbed
    <3>1. c \notin g.nodes /\ c # code
      BY <1>6, <2>2
    <3>2. n.prop[c] = m.prop[c] /\ n.lock[c] = m.lock[c]
      BY <1>3, <1>4, <1>5, <2>2, DeleteRows
    <3>3. m.prop[c] = g.prop[c] /\ m.lock[c] = g.lock[c]
      BY <1>1, <1>3, <3>1, JoinedRows
    <3> QED
      BY <3>1, <3>2, <3>3 DEF GraphOK
  <2> QED
    BY <2>1, <2>2
<1>8. \A e \in n.edges : {e[1], e[3]} \subseteq n.nodes
  <2> SUFFICES ASSUME NEW e \in n.edges PROVE {e[1], e[3]} \subseteq n.nodes
    OBVIOUS
  <2>1. PICK d \in g.edges : {e[1], e[3]} \subseteq {code} \union ({d[1], d[3]} \ {absorbed})
    BY <1>3, <1>6, MovedType
  <2> QED
    BY <1>6, <2>1 DEF GraphOK
<1>9. n.stamped \subseteq n.nodes
  BY <1>6 DEF GraphOK
<1> QED
  BY <1>2, <1>5, <1>6, <1>7, <1>8, <1>9 DEF GraphOK

LEMMA EmptyOK == GraphOK(EmptyGraph)
BY DEF GraphOK, EmptyGraph, Graphs, NoProperties, NoLocks, LockTables

-----------------------------------------------------------------------------
(* Events.                                                                 *)

PropertyNames == {Code} \union Plain \union RelNames

LEMMA RelatedEventsType ==
    ASSUME NEW relationships \in [RelNames -> SUBSET (Codes \union {Unnamed})], NEW created
    PROVE  GenerateRelatedEvents(relationships, created) \subseteq Events
<1> SUFFICES ASSUME NEW e \in GenerateRelatedEvents(relationships, created)
             PROVE  e \in Events
  OBVIOUS
<1>1. PICK p \in RelNames : \E m \in relationships[p] :
          e = IF m \in created THEN Event("CREATE", m, FindInversePropertyNames(p) \union {Code})
              ELSE Event("UPDATE", m, FindInversePropertyNames(p))
  BY DEF GenerateRelatedEvents
<1>2. PICK m \in relationships[p] :
          e = IF m \in created THEN Event("CREATE", m, FindInversePropertyNames(p) \union {Code})
              ELSE Event("UPDATE", m, FindInversePropertyNames(p))
  BY <1>1
<1>3. m \in Codes \union {Unnamed}
  BY <1>2
<1>4. FindInversePropertyNames(p) \subseteq RelNames
  BY DEF FindInversePropertyNames, FindPropertyNamesFromPropertyDef, PropertiesOf
<1> QED
  BY <1>2, <1>3, <1>4 DEF Event, Events, Actions

LEMMA MakeEventsType ==
    ASSUME NEW action \in Actions, NEW code \in Codes, NEW updated \in SUBSET PropertyNames,
           NEW changed \in [RelNames -> SUBSET (Codes \union {Unnamed})],
           NEW removed \in Relations, NEW created
    PROVE  MakeEvents(action, code, updated, changed, removed, created) \subseteq Events
<1>1. removed \in [RelNames -> SUBSET (Codes \union {Unnamed})]
  BY DEF Relations
<1>2. OwnEvents(action, code, updated) \subseteq Events
  BY DEF OwnEvents, Event, Events, PropertyNames
<1> QED
  BY <1>1, <1>2, RelatedEventsType
  DEF MakeEvents, MakeAddedRelationshipEvents, MakeRemovedRelationshipEvents

LEMMA CombinedEventsType ==
    ASSUME NEW events \in SUBSET Events
    PROVE  CombineSimilarEvents(events) \subseteq Events
<1>1. \A p \in PropertyNames : FindPropertyNames(p) \subseteq PropertyNames
  BY DEF FindPropertyNames, FindPropertyNamesFromPropertyDef, PropertiesOf, PropertyNames
<1>2. ASSUME NEW e \in events
      PROVE  Event(e.action, e.code,
                   UNION {FindPropertyNames(p) :
                             p \in UNION {f.props : f \in {f \in events : f.action = e.action /\ f.code = e.code}}})
                 \in Events
  <2>1. \A f \in events : f.props \subseteq PropertyNames
    BY DEF Events, PropertyNames
  <2>2. UNION {FindPropertyNames(p) :
                  p \in UNION {f.props : f \in {f \in events : f.action = e.action /\ f.code = e.code}}}
            \subseteq PropertyNames
    BY <1>1, <2>1
  <2>3. e.action \in Actions /\ e.code \in Codes \union {Unnamed}
    BY DEF Events
  <2> QED
    BY <2>2, <2>3 DEF Event, Events, PropertyNames
<1> QED
  BY <1>2 DEF CombineSimilarEvents

LEMMA DeleteEventType == \A code \in Codes : DeleteEvent(code) \in Events
BY DEF DeleteEvent, Event, Events, Actions

LEMMA NamedType == \A relationships : Named(relationships) \subseteq PropertyNames
BY DEF Named, PropertyNames

LEMMA AbsorbedChangesType ==
    ASSUME NEW before \in Contents, NEW after \in Contents
    PROVE  AbsorbedChanges(before, after) \in [RelNames -> SUBSET (Codes \union {Unnamed})]
BY DEF AbsorbedChanges, Contents

-----------------------------------------------------------------------------
(* Handlers.  Which method a handler that is somewhere serves, that locking *)
(* takes a client, and that no record absorbs itself.                       *)
ShapeOK(k) ==
    /\ k.pc = "create" =>
          /\ k.input.method \in {"POST", "PATCH"}
          /\ ~ Anonymous(k.input.client, k.input.lock, Keys(k.input.body))
    /\ k.pc = "merge" => k.input.method = "PATCH"
    /\ k.pc = "delete" => k.input.method = "DELETE"
    /\ k.pc \in {"fetch", "absorb"} => k.input.method = "ABSORB" /\ k.input.code # k.input.other

TypeInv ==
    /\ TypeOK
    /\ workload \in Workloads
    /\ \A r \in Requests : ShapeOK(req[r])

LEMMA UnreadType == Unread \in Contents
BY DEF Unread, Contents, NoProperties, NoLocks, LockTables

LEMMA NewRequestType ==
    ASSUME NEW i \in Inputs, NEW pc \in {"idle", "preflight", "fetch", "create"}
    PROVE  /\ NewRequest(i, pc) \in Request
           /\ NewRequest(i, pc).pc = pc /\ NewRequest(i, pc).input = i
BY UnreadType DEF NewRequest, Request

LEMMA NoRequestType == NoRequest \in Request /\ NoRequest.pc = "idle"
<1>1. (CHOOSE i \in Inputs : TRUE) \in Inputs
  BY InputAssumption
<1> QED
  BY <1>1, NewRequestType DEF NoRequest

LEMMA FetchedType ==
    ASSUME NEW k \in Request, NEW got \in SUBSET Codes, NEW pc \in {"fetch", "absorb"}
    PROVE  [k EXCEPT !.fetched = got, !.pc = pc] \in Request
<1>1. PICK l : l = [k EXCEPT !.fetched = got]
  OBVIOUS
<1>2. l \in Request
  BY <1>1 DEF Request
<1>3. [l EXCEPT !.pc = pc] \in Request
  BY <1>2 DEF Request
<1>4. [k EXCEPT !.fetched = got, !.pc = pc] = [l EXCEPT !.pc = pc]
  BY <1>1
<1> QED
  BY <1>3, <1>4

LEMMA MergingType ==
    ASSUME NEW k \in Request, NEW seen \in Contents
    PROVE  /\ [k EXCEPT !.pc = "merge", !.seen = seen] \in Request
           /\ [k EXCEPT !.pc = "merge", !.seen = seen].pc = "merge"
           /\ [k EXCEPT !.pc = "merge", !.seen = seen].input = k.input
           /\ [k EXCEPT !.pc = "merge", !.seen = seen].seen = seen
<1>1. PICK l : l = [k EXCEPT !.pc = "merge"]
  OBVIOUS
<1>2. l \in Request
  BY <1>1 DEF Request
<1>3. l.pc = "merge" /\ l.input = k.input
  BY <1>1 DEF Request
<1>4. PICK m : m = [l EXCEPT !.seen = seen]
  OBVIOUS
<1>5. m \in Request
  BY <1>2, <1>4 DEF Request
<1>6. m.pc = l.pc /\ m.input = l.input /\ m.seen = seen
  BY <1>2, <1>4 DEF Request
<1>7. [k EXCEPT !.pc = "merge", !.seen = seen] = m
  BY <1>1, <1>4
<1> QED
  BY <1>3, <1>5, <1>6, <1>7

EndedOK(k) == k \in Request /\ k.pc = "end" /\ ShapeOK(k)

LEMMA AnsweredType ==
    \A status \in {0, 200, 201, 204, 400, 404, 409, 500} : EndedOK(Answered(status))
<1>0. PICK statuses : statuses = {0, 200, 201, 204, 400, 404, 409, 500}
  OBVIOUS
<1> SUFFICES \A status \in statuses : EndedOK(Answered(status))
  BY <1>0, SMT
<1> TAKE status \in statuses
<1>1. PICK k : k = [NoRequest EXCEPT !.pc = "end"]
  OBVIOUS
<1>2. k \in Request /\ k.pc = "end"
  BY <1>1, NoRequestType DEF Request
<1>3. [k EXCEPT !.status = status] \in Request
  BY <1>0, <1>2 DEF Request
<1>4. [k EXCEPT !.status = status].pc = "end"
  BY <1>2 DEF Request
<1>5. Answered(status) = [k EXCEPT !.status = status]
  BY <1>1 DEF Answered
<1> QED
  BY <1>3, <1>4, <1>5 DEF ShapeOK, EndedOK

\* What a step of handler r makes of it: it goes on with its input, or is done,
\* and when it is about to merge it has just read the record, which is there.
Becomes(r, k) ==
    /\ req' = [req EXCEPT ![r] = k]
    /\ k \in Request
    /\ ShapeOK(k)
    /\ k.pc # "idle"
    /\ k.pc = "merge" =>
          /\ graph' = graph
          /\ k.input.code \in graph.nodes
          /\ k.seen = Content(graph, k.input.code)
          /\ Refusal(k.input, k.seen) = 0

LEMMA AnswerBecomes ==
    ASSUME NEW r, NEW status \in {0, 200, 201, 204, 400, 404, 409, 500}, Answer(r, status)
    PROVE  Becomes(r, Answered(status))
BY AnsweredType DEF EndedOK, Answer, Become, Becomes

LEMMA BeginCreateBecomes ==
    ASSUME NEW r, NEW k \in Request, k.pc = "create", k.input.method \in {"POST", "PATCH"},
           BeginCreate(r, k)
    PROVE  \E l \in Request : Becomes(r, l) /\ (l.pc = "end" \/ l.input = k.input)
<1>1. [k EXCEPT !.pc = "create"] = k
  BY DEF Request
<1>2. CASE Become(r, Answered(400))
  <2>1. /\ Answered(400) \in Request /\ Answered(400).pc = "end"
        /\ ShapeOK(Answered(400))
    BY AnsweredType DEF EndedOK
  <2> QED
    BY <1>2, <2>1 DEF Become, Becomes
<1>3. CASE Become(r, k) /\ ~ Anonymous(k.input.client, k.input.lock, Keys(k.input.body))
  BY <1>3 DEF Become, Becomes, ShapeOK
<1> QED
  BY <1>1, <1>2, <1>3 DEF BeginCreate

LEMMA ArriveBecomes ==
    ASSUME TypeInv, NEW r \in Requests, Arrive(r)
    PROVE  \E i \in workload.inputs : MayRun(i.method)
              /\ \E k \in Request : Becomes(r, k) /\ (k.pc = "end" \/ k.input = i)
<1>1. PICK i \in workload.inputs :
          /\ MayRun(i.method)
          /\ ArrivePost(r, i) \/ ArrivePatch(r, i) \/ ArriveDelete(r, i) \/ ArriveAbsorb(r, i)
  BY DEF Arrive
<1>2. i \in Inputs
  BY DEF Inputs, TypeInv
<1> SUFFICES \E k \in Request : Becomes(r, k) /\ (k.pc = "end" \/ k.input = i)
  BY <1>1, <1>2
<1>3. CASE ArrivePost(r, i)
  <2>1. PICK k : k = NewRequest(i, "create")
    OBVIOUS
  <2>2. k \in Request /\ k.pc = "create" /\ k.input = i
    BY <1>2, <2>1, NewRequestType
  <2> QED
    BY <1>3, <2>1, <2>2, BeginCreateBecomes DEF ArrivePost
<1>4. CASE ArrivePatch(r, i) \/ ArriveDelete(r, i)
  <2>1. PICK k : k = NewRequest(i, "preflight")
    OBVIOUS
  <2>2. k \in Request /\ k.pc = "preflight" /\ k.input = i
    BY <1>2, <2>1, NewRequestType
  <2> QED
    BY <1>4, <2>1, <2>2 DEF ArrivePatch, ArriveDelete, Become, Becomes, ShapeOK
<1>5. CASE ArriveAbsorb(r, i)
  <2>1. PICK k : k = NewRequest(i, "fetch")
    OBVIOUS
  <2>2. k \in Request /\ k.pc = "fetch" /\ k.input = i
    BY <1>2, <2>1, NewRequestType
  <2> QED
    BY <1>5, <2>1, <2>2 DEF ArriveAbsorb, Become, Becomes, ShapeOK
<1> QED
  BY <1>1, <1>3, <1>4, <1>5

LEMMA PatchPreflightBecomes ==
    ASSUME TypeInv, NEW r \in Requests, PatchPreflight(r)
    PROVE  \E k \in Request : Becomes(r, k) /\ (k.pc = "end" \/ k.input = req[r].input)
<1> DEFINE i == req[r].input
<1>1. PICK seen : seen = Content(graph, i.code)
  OBVIOUS
<1>2. req[r] \in Request /\ i \in Inputs /\ i.code \in Codes /\ i.method = "PATCH" /\ graph' = graph
  <2>1. req[r] \in Request
    BY DEF TypeInv, TypeOK
  <2> QED
    BY <2>1, InputType DEF Request, PatchPreflight, Quiet
<1>3. seen \in Contents
  BY <1>1, <1>2, ContentType DEF TypeInv, TypeOK
<1>4. \A status \in {200, 400, 409} : Answer(r, status) => Becomes(r, Answered(status))
  BY AnswerBecomes
<1>5. CASE i.code \notin graph.nodes
  <2>1. PICK k : k = [req[r] EXCEPT !.pc = "create"]
    OBVIOUS
  <2>2. k \in Request /\ k.pc = "create" /\ k.input = i
    BY <1>2, <2>1 DEF Request
  <2>3. Becomes(r, k) \/ Becomes(r, Answered(400))
    <3>1. \/ Become(r, Answered(400))
          \/ Become(r, k) /\ ~ Anonymous(i.client, i.lock, Keys(i.body))
      BY <1>5, <2>1 DEF PatchPreflight, BeginCreate
    <3> QED
      BY <1>2, <2>2, <3>1, AnsweredType DEF EndedOK, Become, Becomes, ShapeOK
  <2> QED
    BY <2>2, <2>3, AnsweredType DEF EndedOK
<1>6. CASE i.code \in graph.nodes /\ Refusal(i, seen) # 0
  <2>1. Refusal(i, seen) \in {400, 409}
    BY <1>6 DEF Refusal
  <2> QED
    BY <1>1, <1>4, <1>6, <2>1, AnsweredType DEF EndedOK, PatchPreflight
<1>7. CASE i.code \in graph.nodes /\ Refusal(i, seen) = 0 /\ ~ IsNeo4jUpdateNeeded(i, seen)
  BY <1>1, <1>4, <1>7, AnsweredType DEF EndedOK, PatchPreflight
<1>8. CASE i.code \in graph.nodes /\ Refusal(i, seen) = 0 /\ IsNeo4jUpdateNeeded(i, seen)
  <2>1. PICK k : k = [req[r] EXCEPT !.pc = "merge", !.seen = seen]
    OBVIOUS
  <2>2. k \in Request /\ k.pc = "merge" /\ k.input = i /\ k.seen = seen
    BY <1>2, <1>3, <2>1, MergingType
  <2>3. Become(r, k)
    BY <1>1, <1>8, <2>1 DEF PatchPreflight
  <2> QED
    BY <1>1, <1>2, <1>8, <2>2, <2>3 DEF Become, Becomes, ShapeOK
<1> QED
  BY <1>5, <1>6, <1>7, <1>8

LEMMA FetchBecomes ==
    ASSUME TypeInv, NEW r \in Requests, NEW code \in Codes, Fetch(r, code)
    PROVE  \E k \in Request : Becomes(r, k) /\ (k.pc = "end" \/ k.input = req[r].input)
<1>1. PICK content \in Contents : content = Content(graph, code)
  BY ContentType DEF TypeInv, TypeOK
<1>2. req[r] \in Request /\ ShapeOK(req[r]) /\ req[r].pc = "fetch"
  BY DEF TypeInv, TypeOK, Fetch
<1>3. req[r].fetched \union {code} \in SUBSET Codes
  <2>1. req[r].fetched \subseteq Codes
    BY <1>2 DEF Request
  <2> QED
    BY <2>1
<1> DEFINE got == req[r].fetched \union {code}
<1> HIDE DEF got
<1>4. CASE code \notin graph.nodes
  BY <1>4, AnswerBecomes, AnsweredType DEF EndedOK, Fetch
<1>5. CASE code \in graph.nodes
  <2>1. PICK k : k = IF code = req[r].input.code THEN [req[r] EXCEPT !.seen = content]
                     ELSE [req[r] EXCEPT !.seenOther = content]
    OBVIOUS
  <2>2. content \in Contents
    OBVIOUS
  <2>3. k \in Request /\ k.input = req[r].input /\ k.pc = "fetch"
    BY <1>2, <2>1, <2>2 DEF Request
  <2>4. PICK pc : pc = IF got = {req[r].input.code, req[r].input.other} THEN "absorb" ELSE "fetch"
    OBVIOUS
  <2>5. pc \in {"fetch", "absorb"} /\ got \in SUBSET Codes
    BY <1>3, <2>4 DEF got
  <2>6. PICK l : l = [k EXCEPT !.fetched = got, !.pc = pc]
    OBVIOUS
  <2>7. l \in Request
    BY <2>3, <2>5, <2>6, FetchedType
  <2>8. l.pc = pc /\ l.input = req[r].input
    BY <2>3, <2>6 DEF Request
  <2>9. Become(r, l)
    BY <1>1, <1>2, <1>5, <2>1, <2>3, <2>4, <2>6 DEF Fetch, got
  <2> QED
    BY <1>2, <2>5, <2>7, <2>8, <2>9 DEF Become, Becomes, ShapeOK
<1> QED
  BY <1>4, <1>5

LEMMA DeletePreflightBecomes ==
    ASSUME TypeInv, NEW r \in Requests, DeletePreflight(r)
    PROVE  \E k \in Request : Becomes(r, k) /\ (k.pc = "end" \/ k.input = req[r].input)
<1>1. \A status \in {404, 409} : Answer(r, status) => Becomes(r, Answered(status))
  BY AnswerBecomes
<1>2. CASE Answer(r, 404) \/ Answer(r, 409)
  BY <1>1, <1>2, AnsweredType DEF EndedOK
<1>3. CASE Become(r, [req[r] EXCEPT !.pc = "delete"])
  <2>1. req[r] \in Request /\ req[r].input.method = "DELETE"
    BY DEF TypeInv, TypeOK, DeletePreflight
  <2>2. PICK k : k = [req[r] EXCEPT !.pc = "delete"]
    OBVIOUS
  <2>3. k \in Request /\ k.pc = "delete" /\ k.input = req[r].input
    BY <2>1, <2>2 DEF Request
  <2> QED
    BY <1>3, <2>1, <2>2, <2>3 DEF Become, Becomes, ShapeOK
<1> QED
  BY <1>2, <1>3 DEF DeletePreflight

\* The steps that answer.
Answers(r) ==
    \E status \in {0, 200, 201, 204, 400, 404, 409, 500} : Answer(r, status)

LEMMA OtherStepsAnswer ==
    ASSUME NEW r \in Requests, Handle(r)
    PROVE  \/ Answers(r)
           \/ PatchPreflight(r) \/ DeletePreflight(r) \/ \E code \in Codes : Fetch(r, code)
<1>1. CreateCommits(r) \/ CreateRefused(r) => Answers(r)
  BY DEF CreateCommits, CreateRefused, Answers
<1>2. MergeCommits(r) \/ MergeRefused(r) => Answers(r)
  BY DEF MergeCommits, MergeRefused, Answers
<1>3. DeleteCommits(r) \/ DeleteRefused(r) => Answers(r)
  BY DEF DeleteCommits, DeleteRefused, Answers
<1>4. AbsorbCommits(r) \/ AbsorbFails(r) \/ QueryFails(r) => Answers(r)
  BY DEF AbsorbCommits, AbsorbFails, QueryFails, Answers
<1> QED
  BY <1>1, <1>2, <1>3, <1>4 DEF Handle

LEMMA HandleBecomes ==
    ASSUME TypeInv, NEW r \in Requests, Handle(r)
    PROVE  \E k \in Request : Becomes(r, k) /\ (k.pc = "end" \/ k.input = req[r].input)
<1>1. CASE Answers(r)
  BY <1>1, AnswerBecomes, AnsweredType DEF EndedOK, Answers
<1> QED
  BY <1>1, OtherStepsAnswer, PatchPreflightBecomes, DeletePreflightBecomes, FetchBecomes

\* Only a busy handler does anything, and four steps change the graph.
LEMMA HandlerIsBusy ==
    ASSUME NEW r \in Requests, Handle(r)
    PROVE  Busy(r)
BY DEF Handle, CreateCommits, CreateRefused, PatchPreflight, MergeCommits, MergeRefused, DeletePreflight,
       DeleteCommits, DeleteRefused, Fetch, AbsorbCommits, AbsorbFails, QueryFails, Busy

LEMMA GraphSteps ==
    ASSUME NEW r \in Requests, Handle(r)
    PROVE  \/ Quiet
           \/ CreateCommits(r) \/ MergeCommits(r) \/ DeleteCommits(r) \/ AbsorbCommits(r)
BY DEF Handle, CreateRefused, PatchPreflight, MergeRefused, DeletePreflight, DeleteRefused, Fetch,
       AbsorbFails, QueryFails

-----------------------------------------------------------------------------
(* Type correctness.                                                       *)

LEMMA TypeOKParts ==
    TypeOK <=> GraphOK(graph) /\ req \in [Requests -> Request] /\ news \subseteq Events
BY DEF TypeOK, GraphOK

\* What the four steps make of the graph, and the events.
LEMMA CreateCommitsType ==
    ASSUME TypeInv, NEW r \in Requests, CreateCommits(r)
    PROVE  GraphOK(graph)' /\ (news \subseteq Events)'
<1>1. PICK i \in Inputs : i = req[r].input
  BY DEF TypeInv, TypeOK, Request
<1>2. PICK changed \in Relations : changed = GetWriteRelationships(i.body)
  BY <1>1, InputType
<1>3. PICK properties : properties = NewProperties(i)
  OBVIOUS
<1>4. PropertyChanges(properties) /\ DOMAIN properties \subseteq Plain
  BY <1>1, <1>3, InputType, DiffType DEF NewProperties, PropertyChanges, IsPartial
<1>5. PICK locks \in LockTables : locks = CreateLockedFields(i.client, i.lock, Keys(i.body))
  BY <1>1, InputType, CreateLockedFieldsType
<1>6. graph' = CreateQuery(graph, i.code, properties, locks, changed)
  BY <1>1, <1>2, <1>3, <1>5 DEF CreateCommits, Commit
<1>7. GraphOK(graph)'
  BY <1>1, <1>2, <1>4, <1>5, <1>6, TypeOKParts, CreateOK, InputType DEF TypeInv
<1>8. PICK updated : updated = DOMAIN properties \union {Code} \union Named(changed)
  OBVIOUS
<1>9. PICK none : none = [p \in RelNames |-> {}]
  OBVIOUS
<1>10. PICK created :
           news' = CombineSimilarEvents(MakeEvents("CREATE", i.code, updated, changed, none, created))
  BY <1>1, <1>2, <1>3, <1>8, <1>9 DEF CreateCommits, Commit
<1>11. /\ updated \in SUBSET PropertyNames /\ none \in Relations
       /\ changed \in [RelNames -> SUBSET (Codes \union {Unnamed})]
       /\ i.code \in Codes /\ "CREATE" \in Actions
  BY <1>1, <1>2, <1>4, <1>8, <1>9, NamedType, InputType, NoRelations DEF PropertyNames, Relations, Actions
<1>12. MakeEvents("CREATE", i.code, updated, changed, none, created) \subseteq Events
  BY <1>11, MakeEventsType
<1> QED
  BY <1>7, <1>10, <1>12, CombinedEventsType

LEMMA MergeCommitsType ==
    ASSUME TypeInv, NEW r \in Requests, MergeCommits(r)
    PROVE  GraphOK(graph)' /\ (news \subseteq Events)'
<1>1. PICK i \in Inputs : i = req[r].input
  BY DEF TypeInv, TypeOK, Request
<1>2. PICK seen \in Contents : seen = req[r].seen
  BY DEF TypeInv, TypeOK, Request
<1>3. PICK changed \in Relations : changed = Changed(i, seen)
  BY <1>1, ChangedType
<1>4. PICK removed \in Relations : removed = Removed(i, seen)
  BY <1>1, <1>2, RemovedType
<1>5. PICK properties : properties = Diff(i, seen)
  OBVIOUS
<1>6. PropertyChanges(properties) /\ DOMAIN properties \subseteq Plain
  BY <1>1, <1>5, InputType, DiffType DEF Diff, PropertyChanges, IsPartial
<1>7. PICK locks \in LockTables : locks = Locks(i, seen)
  BY <1>1, <1>2, InputType, MergeLockedFieldsType DEF Locks, Contents
<1>8. graph' = MergeQuery(graph, i.code, properties, locks, removed, changed)
  BY <1>1, <1>2, <1>3, <1>4, <1>5, <1>7 DEF MergeCommits, Commit
<1>9. GraphOK(graph)'
  BY <1>1, <1>3, <1>4, <1>6, <1>7, <1>8, TypeOKParts, MergeOK, InputType DEF TypeInv
<1>10. PICK updated : updated = UNION {DOMAIN properties, {Code}, Named(removed), Named(changed)}
  OBVIOUS
<1>11. PICK created :
           news' = CombineSimilarEvents(MakeEvents("UPDATE", i.code, updated, changed, removed, created))
  BY <1>1, <1>2, <1>3, <1>4, <1>5, <1>10 DEF MergeCommits, Commit
<1>12. /\ updated \in SUBSET PropertyNames /\ removed \in Relations
       /\ changed \in [RelNames -> SUBSET (Codes \union {Unnamed})]
       /\ i.code \in Codes /\ "UPDATE" \in Actions
  BY <1>1, <1>3, <1>4, <1>6, <1>10, NamedType, InputType DEF PropertyNames, Relations, Actions
<1>13. MakeEvents("UPDATE", i.code, updated, changed, removed, created) \subseteq Events
  BY <1>12, MakeEventsType
<1> QED
  BY <1>9, <1>11, <1>13, CombinedEventsType

LEMMA DeleteCommitsType ==
    ASSUME TypeInv, NEW r \in Requests, DeleteCommits(r)
    PROVE  GraphOK(graph)' /\ (news \subseteq Events)'
<1>1. PICK code \in Codes : code = req[r].input.code
  BY InputType DEF TypeInv, TypeOK, Request
<1>2. graph' = DeleteQuery(graph, code) /\ ~ HasRelationships(graph, code) /\ news' = {DeleteEvent(code)}
  BY <1>1 DEF DeleteCommits, Commit
<1> QED
  BY <1>1, <1>2, TypeOKParts, DeleteOK, DeleteEventType DEF TypeInv

LEMMA AbsorbCommitsType ==
    ASSUME TypeInv, NEW r \in Requests, AbsorbCommits(r)
    PROVE  GraphOK(graph)' /\ (news \subseteq Events)'
<1>1. PICK i \in Inputs : i = req[r].input
  BY DEF TypeInv, TypeOK, Request
<1>2. PICK main \in Contents, absorbed \in Contents : main = req[r].seen /\ absorbed = req[r].seenOther
  BY DEF TypeInv, TypeOK, Request
<1>3. PICK removed : removed = CollectRemovedRelationships(i.code, main, absorbed)
  OBVIOUS
<1>4. removed \in Relations
  BY <1>2, <1>3 DEF CollectRemovedRelationships, Relations, Contents
<1>5. i.code \in graph.nodes /\ i.other \in graph.nodes /\ i.code # i.other
  BY <1>1 DEF AbsorbCommits, TypeInv, ShapeOK
<1>6. graph' = AbsorbQuery(graph, i.code, i.other, removed)
  BY <1>1, <1>2, <1>3 DEF AbsorbCommits, Commit
<1>7. GraphOK(graph)'
  BY <1>5, <1>6, TypeOKParts, AbsorbOK DEF TypeInv
<1>8. PICK after : after = Content(graph', i.code)
  OBVIOUS
<1>9. after \in Contents
  BY <1>1, <1>7, <1>8, ContentType, InputType DEF GraphOK
<1>10. PICK changed \in [RelNames -> SUBSET (Codes \union {Unnamed})] : changed = AbsorbedChanges(main, after)
  BY <1>2, <1>9, AbsorbedChangesType
<1>11. PICK updated : updated = WriteProperties(main, absorbed) \union Named(changed)
  OBVIOUS
<1>12. news' = CombineSimilarEvents(UNION {
                   {DeleteEvent(i.other)},
                   MakeRemovedRelationshipEvents(GetAlteredPeers(absorbed)),
                   MakeEvents("UPDATE", i.code, updated, changed, removed, {})})
  BY <1>1, <1>2, <1>3, <1>6, <1>8, <1>10, <1>11 DEF AbsorbCommits, Commit
<1>13. MakeEvents("UPDATE", i.code, updated, changed, removed, {}) \subseteq Events
  <2>1. updated \in SUBSET PropertyNames
    BY <1>11, NamedType DEF WriteProperties, PropertyNames
  <2>2. i.code \in Codes /\ "UPDATE" \in Actions
    BY <1>1, InputType DEF Actions
  <2> QED
    BY <1>4, <1>10, <2>1, <2>2, MakeEventsType
<1>14. MakeRemovedRelationshipEvents(GetAlteredPeers(absorbed)) \subseteq Events
  <2>1. GetAlteredPeers(absorbed) \in [RelNames -> SUBSET (Codes \union {Unnamed})]
    BY <1>2 DEF GetAlteredPeers, Contents
  <2> QED
    BY <2>1, RelatedEventsType DEF MakeRemovedRelationshipEvents
<1>15. DeleteEvent(i.other) \in Events
  BY <1>1, InputType, DeleteEventType
<1>16. UNION {{DeleteEvent(i.other)},
              MakeRemovedRelationshipEvents(GetAlteredPeers(absorbed)),
              MakeEvents("UPDATE", i.code, updated, changed, removed, {})} \in SUBSET Events
  BY <1>13, <1>14, <1>15
<1> QED
  BY <1>7, <1>12, <1>16, CombinedEventsType

LEMMA HandlerStepType ==
    ASSUME TypeInv, NEW r \in Requests, Arrive(r) \/ Handle(r), UNCHANGED workload
    PROVE  TypeInv'
<1>1. PICK k \in Request : Becomes(r, k)
  BY ArriveBecomes, HandleBecomes
<1>2. /\ req' = [req EXCEPT ![r] = k] /\ k \in Request /\ ShapeOK(k)
      /\ req \in [Requests -> Request]
  BY <1>1 DEF Becomes, TypeInv, TypeOK
<1>3. req' \in [Requests -> Request] /\ \A q \in Requests : ShapeOK(req'[q])
  BY <1>2 DEF TypeInv
<1>4. GraphOK(graph)' /\ (news \subseteq Events)'
  <2>1. CASE Quiet
    BY <2>1, TypeOKParts DEF Quiet, TypeInv
  <2>2. CASE ~ Quiet
    BY <2>2, GraphSteps, CreateCommitsType, MergeCommitsType, DeleteCommitsType, AbsorbCommitsType DEF Arrive
  <2> QED
    BY <2>1, <2>2
<1>5. TypeOK'
  BY <1>3, <1>4, TypeOKParts DEF TypeOK, GraphOK
<1> QED
  BY <1>3, <1>5 DEF TypeInv

LEMMA InitType == Init => TypeInv
<1> SUFFICES ASSUME Init PROVE TypeInv
  OBVIOUS
<1>1. GraphOK(graph) /\ req \in [Requests -> Request] /\ news \subseteq Events
  BY EmptyOK, NoRequestType DEF Init
<1>2. \A r \in Requests : ShapeOK(req[r])
  BY NoRequestType DEF Init, ShapeOK
<1> QED
  BY <1>1, <1>2, TypeOKParts DEF TypeInv, Init

LEMMA NextType == TypeInv /\ [Next]_vars => TypeInv'
<1>1. CASE UNCHANGED vars
  BY <1>1 DEF vars, TypeInv, TypeOK
<1> QED
  BY <1>1, HandlerStepType DEF Next

\* However handlers overlap, relationships, properties and locks belong to records
\* that exist: a partner is made or the write fails, a record with relationships is
\* not deleted, and those of an absorbed one go or move.
THEOREM TypeCorrect == Spec => []TypeOK
<1>1. TypeInv => TypeOK
  BY DEF TypeInv
<1> QED
  BY <1>1, InitType, NextType, PTL DEF Spec

-----------------------------------------------------------------------------
(* Handlers that run together are those of a workload that may.            *)
Together(m, n) == \E together \in workload.overlap : {m, n} \subseteq together

Exclusive ==
    \A r, q \in Requests :
        r # q /\ Busy(r) /\ Busy(q) => Together(req[r].input.method, req[q].input.method)

LEMMA HandlerStepExclusive ==
    ASSUME TypeInv, Exclusive, NEW r \in Requests, Arrive(r) \/ Handle(r), UNCHANGED workload
    PROVE  Exclusive'
<1>1. PICK k \in Request :
          /\ Becomes(r, k)
          /\ k.pc # "end" => \A q \in Requests \ {r} : Busy(q) => Together(k.input.method, req[q].input.method)
  <2>1. CASE Arrive(r)
    BY <2>1, ArriveBecomes DEF MayRun, Together
  <2>2. CASE Handle(r)
    BY <2>2, HandleBecomes, HandlerIsBusy DEF Exclusive
  <2> QED
    BY <2>1, <2>2
<1>2. req' = [req EXCEPT ![r] = k] /\ req \in [Requests -> Request] /\ k.pc # "idle"
  BY <1>1 DEF Becomes, TypeInv, TypeOK
<1>3. req'[r] = k /\ \A q \in Requests \ {r} : req'[q] = req[q]
  BY <1>2
<1>4. /\ \A q \in Requests \ {r} : Busy(q)' <=> Busy(q)
      /\ Busy(r)' <=> k.pc # "end"
  BY <1>2, <1>3 DEF Busy
<1>5. \A q \in Requests \ {r} :
          Busy(r)' /\ Busy(q)' => Together(k.input.method, req[q].input.method)
  BY <1>1, <1>4
<1> SUFFICES ASSUME NEW a \in Requests, NEW b \in Requests, a # b, Busy(a)', Busy(b)'
             PROVE  \E together \in workload.overlap :
                        {req'[a].input.method, req'[b].input.method} \subseteq together
  BY DEF Exclusive, Together
<1>6. CASE a = r
  BY <1>3, <1>5, <1>6 DEF Together
<1>7. CASE b = r
  BY <1>3, <1>5, <1>7 DEF Together
<1>8. CASE a # r /\ b # r
  BY <1>3, <1>4, <1>8 DEF Exclusive, Together
<1> QED
  BY <1>6, <1>7, <1>8

LEMMA NextExclusive == TypeInv /\ Exclusive /\ [Next]_vars => Exclusive'
<1>1. CASE UNCHANGED vars
  BY <1>1 DEF vars, Exclusive, Busy, Together
<1> QED
  BY <1>1, HandlerStepExclusive DEF Next

LEMMA InitExclusive == Init => Exclusive
BY NoRequestType DEF Init, Exclusive, Busy

-----------------------------------------------------------------------------
(* Creation metadata.  A handler that is going to merge has found the      *)
(* record, and while it waits no DELETE and no ABSORB runs: MERGE would    *)
(* create the record again, without metadata.                              *)
NoErasureDuringUpdates ==
    \A w \in Workloads : \A together \in w.overlap :
        "PATCH" \in together => {"DELETE", "ABSORB"} \cap together = {}

FoundIsThere == \A r \in Requests : req[r].pc = "merge" => req[r].input.code \in graph.nodes

StampInv == TypeInv /\ Exclusive /\ FoundIsThere /\ EveryRecordStamped

\* The write of a node and its relationships stamps what it creates beside it, and
\* changes no other row.
Written(g, code, properties, locks, w) ==
    \E more \in SUBSET Codes :
        /\ w.nodes = g.nodes \union {code} \union more
        /\ w.stamped = g.stamped \union more
        /\ \A c \in Codes \ {code} : w.prop[c] = g.prop[c] /\ w.lock[c] = g.lock[c]
        /\ w.lock[code] = locks
        /\ \A p \in Plain \ DOMAIN properties : w.prop[code][p] = g.prop[code][p]

LEMMA WriteStamps ==
    ASSUME NEW g, g \in Graphs, NEW code \in Codes,
           NEW properties, PropertyChanges(properties), NEW locks \in LockTables,
           NEW removed \in Relations, NEW changed \in Relations
    PROVE  \A w : w = WriteRelationships(WriteNode(g, code, properties, locks), code, removed, changed)
                      => Written(g, code, properties, locks, w)
<1>1. PICK n : n = WriteNode(g, code, properties, locks)
  OBVIOUS
<1>2. /\ n.nodes = g.nodes \union {code} /\ n.stamped = g.stamped /\ n \in Graphs
      /\ \A c \in Codes \ {code} : n.prop[c] = g.prop[c] /\ n.lock[c] = g.lock[c]
  BY <1>1, WriteNodeFields, WriteNodeType
<1>3. n.lock[code] = locks
  <2>1. n.lock = [g.lock EXCEPT ![code] = locks] /\ g.lock \in [Codes -> LockTables]
    BY <1>1, WriteNodeLocks DEF Graphs
  <2> QED
    BY <2>1
<1>4. \A p \in Plain \ DOMAIN properties : n.prop[code][p] = g.prop[code][p]
  <2>1. PICK row : row = [p \in Plain |-> IF p \in DOMAIN properties THEN properties[p] ELSE g.prop[code][p]]
    OBVIOUS
  <2>2. n.prop = [g.prop EXCEPT ![code] = row] /\ g.prop \in [Codes -> [Plain -> Values \union {Null}]]
    BY <1>1, <2>1 DEF WriteNode, Graphs
  <2>3. n.prop[code] = row
    BY <2>2
  <2> QED
    BY <2>1, <2>3
<1> SUFFICES ASSUME NEW w, w = WriteRelationships(n, code, removed, changed)
             PROVE  Written(g, code, properties, locks, w)
  BY <1>1
<1>6. /\ w.nodes = n.nodes \union NewNodes(n, changed)
      /\ w.stamped = n.stamped \union NewNodes(n, changed)
      /\ w.prop = n.prop /\ w.lock = n.lock /\ w \in Graphs
  BY <1>2, WriteRelationshipsFields, WriteRelationshipsType
<1>7. NewNodes(n, changed) \in SUBSET Codes
  BY SharedType DEF NewNodes, Relations
<1> QED
  BY <1>2, <1>3, <1>4, <1>6, <1>7 DEF Written

\* What the four steps do to nodes, stamps, rows.
LEMMA CreateEffect ==
    ASSUME TypeInv, NEW r \in Requests, CreateCommits(r), NEW code, code = req[r].input.code
    PROVE  \E more \in SUBSET Codes :
               /\ graph'.nodes = graph.nodes \union {code} \union more
               /\ graph'.stamped = graph.stamped \union {code} \union more
               /\ code \in Codes \ graph.nodes
               /\ \A c \in Codes \ {code} : graph'.prop[c] = graph.prop[c] /\ graph'.lock[c] = graph.lock[c]
<1>1. PICK i \in Inputs : i = req[r].input
  BY DEF TypeInv, TypeOK, Request
<1>2. PICK changed \in Relations : changed = GetWriteRelationships(i.body)
  BY <1>1, InputType
<1>3. PICK properties : properties = NewProperties(i)
  OBVIOUS
<1>4. PropertyChanges(properties) /\ code \in Codes
  BY <1>1, <1>3, InputType, DiffType DEF NewProperties
<1>5. PICK locks \in LockTables : locks = CreateLockedFields(i.client, i.lock, Keys(i.body))
  BY <1>1, InputType, CreateLockedFieldsType
<1>6. PICK created : created = [graph EXCEPT !.stamped = @ \union {code}]
  OBVIOUS
<1>7. /\ created \in Graphs /\ created.stamped = graph.stamped \union {code}
      /\ created.nodes = graph.nodes /\ created.prop = graph.prop /\ created.lock = graph.lock
  BY <1>4, <1>6, TypeOKParts DEF TypeInv, GraphOK, Graphs
<1>8. PICK none \in Relations : none = [p \in RelNames |-> {}]
  BY NoRelations
<1>9. graph' = WriteRelationships(WriteNode(created, code, properties, locks), code, none, changed)
  BY <1>1, <1>2, <1>3, <1>5, <1>6, <1>8 DEF CreateCommits, Commit, CreateQuery
<1>10. code \notin graph.nodes
  BY <1>1 DEF CreateCommits, CreateFails
<1>11. Written(created, code, properties, locks, graph')
  <2>1. created \in Graphs /\ code \in Codes /\ locks \in LockTables /\ none \in Relations /\ changed \in Relations
    BY <1>4, <1>7
  <2> QED
    BY <1>4, <1>9, <2>1, WriteStamps
<1>12. PICK more \in SUBSET Codes :
           /\ graph'.nodes = created.nodes \union {code} \union more
           /\ graph'.stamped = created.stamped \union more
           /\ \A c \in Codes \ {code} : graph'.prop[c] = created.prop[c] /\ graph'.lock[c] = created.lock[c]
  BY <1>11 DEF Written
<1> QED
  BY <1>4, <1>7, <1>10, <1>12

LEMMA MergeEffect ==
    ASSUME TypeInv, NEW r \in Requests, MergeCommits(r),
           NEW i, i = req[r].input, NEW seen, seen = req[r].seen
    PROVE  \E more \in SUBSET Codes :
               /\ graph'.nodes = graph.nodes \union {i.code} \union more
               /\ graph'.stamped = graph.stamped \union more
               /\ i.code \in Codes
               /\ \A c \in Codes \ {i.code} : graph'.prop[c] = graph.prop[c] /\ graph'.lock[c] = graph.lock[c]
               /\ graph'.lock[i.code] = Locks(i, seen)
               /\ \A p \in Plain \ DOMAIN i.body.prop : graph'.prop[i.code][p] = graph.prop[i.code][p]
<1>1. i \in Inputs /\ seen \in Contents /\ graph \in Graphs /\ i.code \in Codes
  BY InputType DEF TypeInv, TypeOK, Request
<1>2. PICK changed \in Relations : changed = Changed(i, seen)
  BY <1>1, ChangedType
<1>3. PICK removed \in Relations : removed = Removed(i, seen)
  BY <1>1, RemovedType
<1>4. PICK properties : properties = Diff(i, seen)
  OBVIOUS
<1>5. PropertyChanges(properties) /\ DOMAIN properties \subseteq DOMAIN i.body.prop
  BY <1>1, <1>4, InputType, DiffType DEF Diff, DiffProperties
<1>6. PICK locks \in LockTables : locks = Locks(i, seen)
  BY <1>1, InputType, MergeLockedFieldsType DEF Locks, Contents
<1>7. graph' = WriteRelationships(WriteNode(graph, i.code, properties, locks), i.code, removed, changed)
  BY <1>2, <1>3, <1>4, <1>6 DEF MergeCommits, Commit, MergeQuery
<1>8. Written(graph, i.code, properties, locks, graph')
  <2>1. locks \in LockTables /\ removed \in Relations /\ changed \in Relations
    OBVIOUS
  <2> QED
    BY <1>1, <1>5, <1>7, <2>1, WriteStamps
<1>9. PICK more \in SUBSET Codes :
          /\ graph'.nodes = graph.nodes \union {i.code} \union more
          /\ graph'.stamped = graph.stamped \union more
          /\ \A c \in Codes \ {i.code} : graph'.prop[c] = graph.prop[c] /\ graph'.lock[c] = graph.lock[c]
          /\ graph'.lock[i.code] = locks
          /\ \A p \in Plain \ DOMAIN properties : graph'.prop[i.code][p] = graph.prop[i.code][p]
  BY <1>8 DEF Written
<1> QED
  BY <1>1, <1>5, <1>6, <1>9

LEMMA EraseEffect ==
    ASSUME TypeInv, NEW r \in Requests, DeleteCommits(r)
    PROVE  /\ graph'.nodes = graph.nodes \ {req[r].input.code}
           /\ graph'.stamped = graph.stamped \ {req[r].input.code}
           /\ req[r].input.method = "DELETE"
<1>1. req[r].input.code \in Codes /\ graph \in Graphs
  BY InputType DEF TypeInv, TypeOK, Request
<1> QED
  BY <1>1, DeleteFields DEF DeleteCommits, Commit, TypeInv, ShapeOK

LEMMA AbsorbEffect ==
    ASSUME TypeInv, NEW r \in Requests, AbsorbCommits(r),
           NEW code, code = req[r].input.code, NEW other, other = req[r].input.other
    PROVE  /\ graph'.nodes = graph.nodes \ {other}
           /\ graph.stamped \ {other} \subseteq graph'.stamped
           /\ req[r].input.method = "ABSORB"
<1>1. code \in Codes /\ other \in Codes /\ graph \in Graphs
  BY InputType DEF TypeInv, TypeOK, Request
<1>2. PICK removed : graph' = AbsorbQuery(graph, code, other, removed)
  BY DEF AbsorbCommits, Commit
<1>3. PICK m : m = Joined(graph, code, other, removed)
  OBVIOUS
<1>4. graph' = DeleteQuery(m, other)
  BY <1>2, <1>3 DEF AbsorbQuery, Joined, MovedEdges
<1>5. req[r].input.method = "ABSORB" /\ code # other
  BY DEF TypeInv, ShapeOK, AbsorbCommits
<1>6. m \in Graphs /\ m.nodes = graph.nodes /\ graph.stamped \subseteq m.stamped
  BY <1>1, <1>3, <1>5, JoinedType, JoinedFields
<1>7. graph'.nodes = m.nodes \ {other} /\ graph'.stamped = m.stamped \ {other}
  BY <1>1, <1>4, <1>6, DeleteFields
<1> QED
  BY <1>5, <1>6, <1>7

LEMMA HandlerStepStamps ==
    ASSUME NoErasureDuringUpdates, StampInv, NEW r \in Requests, Arrive(r) \/ Handle(r)
    PROVE  EveryRecordStamped'
<1>1. CASE Quiet
  BY <1>1 DEF Quiet, StampInv, EveryRecordStamped
<1>2. CASE CreateCommits(r)
  BY <1>2, CreateEffect DEF StampInv, EveryRecordStamped
<1>3. CASE MergeCommits(r)
  <2>1. req[r].input.code \in graph.nodes
    BY <1>3 DEF MergeCommits, StampInv, FoundIsThere
  <2> QED
    BY <1>3, <2>1, MergeEffect DEF StampInv, EveryRecordStamped
<1>4. CASE DeleteCommits(r)
  BY <1>4, EraseEffect DEF StampInv, EveryRecordStamped
<1>5. CASE AbsorbCommits(r)
  BY <1>5, AbsorbEffect DEF StampInv, EveryRecordStamped
<1> QED
  BY <1>1, <1>2, <1>3, <1>4, <1>5, GraphSteps DEF Arrive

LEMMA HandlerStepFinds ==
    ASSUME NoErasureDuringUpdates, StampInv, NEW r \in Requests, Arrive(r) \/ Handle(r)
    PROVE  FoundIsThere'
<1>1. PICK k \in Request : Becomes(r, k)
  BY ArriveBecomes, HandleBecomes DEF StampInv
<1>2. /\ req' = [req EXCEPT ![r] = k] /\ req \in [Requests -> Request]
      /\ k.pc = "merge" => k.input.code \in graph'.nodes
  BY <1>1 DEF Becomes, StampInv, TypeInv, TypeOK
<1>3. req'[r] = k /\ \A q \in Requests \ {r} : req'[q] = req[q]
  BY <1>2
<1>4. ASSUME NEW q \in Requests \ {r}, req[q].pc = "merge"
      PROVE  req[q].input.code \in graph'.nodes
  <2>1. req[q].input.code \in graph.nodes /\ req[q].input.method = "PATCH" /\ Busy(q)
    BY <1>4 DEF StampInv, FoundIsThere, TypeInv, ShapeOK, Busy
  <2>2. CASE Quiet
    BY <2>1, <2>2 DEF Quiet
  <2>3. CASE CreateCommits(r) \/ MergeCommits(r)
    BY <2>1, <2>3, CreateEffect, MergeEffect DEF StampInv
  <2>4. ASSUME Handle(r), req[r].input.method \in {"DELETE", "ABSORB"} PROVE FALSE
    <3>1. PICK together \in workload.overlap : {req[r].input.method, "PATCH"} \subseteq together
      BY <2>1, <2>4, HandlerIsBusy DEF StampInv, Exclusive, Together
    <3> QED
      BY <2>4, <3>1 DEF NoErasureDuringUpdates, StampInv, TypeInv
  <2>5. CASE DeleteCommits(r) \/ AbsorbCommits(r)
    BY <2>4, <2>5, EraseEffect, AbsorbEffect DEF StampInv, Handle
  <2> QED
    BY <2>2, <2>3, <2>5, GraphSteps DEF Arrive
<1> QED
  BY <1>2, <1>3, <1>4 DEF FoundIsThere

LEMMA NextStamps ==
    ASSUME NoErasureDuringUpdates, StampInv, [Next]_vars
    PROVE  StampInv'
<1>1. TypeInv' /\ Exclusive'
  BY NextType, NextExclusive DEF StampInv
<1>2. CASE UNCHANGED vars
  BY <1>1, <1>2 DEF vars, StampInv, EveryRecordStamped, FoundIsThere
<1> QED
  BY <1>1, <1>2, HandlerStepStamps, HandlerStepFinds DEF Next, StampInv

\* Every record has creation metadata, also the partners that upsert creates and
\* one that an absorbed record was merged into, as long as no record is deleted or
\* absorbed between the query with which an update finds it and the MERGE.
THEOREM RecordsAreStamped ==
    ASSUME NoErasureDuringUpdates
    PROVE  Spec => []EveryRecordStamped
<1>1. Init => StampInv
  BY InitType, InitExclusive, NoRequestType DEF Init, StampInv, FoundIsThere, EveryRecordStamped, EmptyGraph
<1>2. StampInv /\ [Next]_vars => StampInv'
  BY NextStamps
<1>3. StampInv => EveryRecordStamped
  BY DEF StampInv
<1> QED
  BY <1>1, <1>2, <1>3, PTL DEF Spec

-----------------------------------------------------------------------------
(* Locks.  A handler that is going to write the lock table back has read   *)
(* the record as it is and has not been refused because of it, provided    *)
(* nothing else runs at the same time as an update.                        *)
UpdatesRunAlone ==
    \A w \in Workloads : \A together \in w.overlap : "PATCH" \notin together

ReadIsCurrent ==
    \A r \in Requests : req[r].pc = "merge" =>
        /\ req[r].seen = Content(graph, req[r].input.code)
        /\ Refusal(req[r].input, req[r].seen) = 0

LockInv == TypeInv /\ Exclusive /\ ReadIsCurrent

LEMMA AloneWhenMerging ==
    ASSUME UpdatesRunAlone, TypeInv, Exclusive, NEW r \in Requests, Handle(r),
           NEW q \in Requests, q # r
    PROVE  req[q].pc # "merge"
<1> SUFFICES ASSUME req[q].pc = "merge" PROVE FALSE
  OBVIOUS
<1>1. Busy(q) /\ req[q].input.method = "PATCH"
  BY DEF Busy, TypeInv, ShapeOK
<1>2. PICK together \in workload.overlap : {req[r].input.method, "PATCH"} \subseteq together
  BY <1>1, HandlerIsBusy DEF Exclusive, Together
<1> QED
  BY <1>2 DEF UpdatesRunAlone, TypeInv

LEMMA HandlerStepReads ==
    ASSUME UpdatesRunAlone, LockInv, NEW r \in Requests, Arrive(r) \/ Handle(r)
    PROVE  ReadIsCurrent'
<1>1. PICK k \in Request : Becomes(r, k)
  BY ArriveBecomes, HandleBecomes DEF LockInv
<1>2. /\ req' = [req EXCEPT ![r] = k] /\ req \in [Requests -> Request]
      /\ k.pc = "merge" => /\ k.seen = Content(graph, k.input.code) /\ graph' = graph
                           /\ Refusal(k.input, k.seen) = 0
  BY <1>1 DEF Becomes, LockInv, TypeInv, TypeOK
<1>3. req'[r] = k /\ \A q \in Requests \ {r} : req'[q] = req[q]
  BY <1>2
<1>4. ASSUME NEW q \in Requests \ {r}, req[q].pc = "merge"
      PROVE  /\ req[q].seen = Content(graph, req[q].input.code) /\ graph' = graph
             /\ Refusal(req[q].input, req[q].seen) = 0
  <2>1. Arrive(r) => graph' = graph
    BY DEF Arrive, Quiet
  <2> QED
    BY <1>4, <2>1, AloneWhenMerging DEF LockInv, ReadIsCurrent
<1>5. ASSUME NEW q \in Requests, req'[q].pc = "merge"
      PROVE  /\ req'[q].seen = Content(graph, req'[q].input.code) /\ graph' = graph
             /\ Refusal(req'[q].input, req'[q].seen) = 0
  BY <1>2, <1>3, <1>4, <1>5
<1> QED
  BY <1>5 DEF ReadIsCurrent

LEMMA NextReads ==
    ASSUME UpdatesRunAlone, LockInv, [Next]_vars
    PROVE  LockInv'
<1>1. TypeInv' /\ Exclusive'
  BY NextType, NextExclusive DEF LockInv
<1>2. CASE UNCHANGED vars
  BY <1>1, <1>2 DEF vars, LockInv, ReadIsCurrent
<1> QED
  BY <1>1, <1>2, HandlerStepReads DEF Next, LockInv

\* The field and its lock after a merge that had read the lock.
LEMMA MergeKeepsLocked ==
    ASSUME LockInv, NEW r \in Requests, MergeCommits(r),
           NEW c \in Codes, NEW k \in LockNames, LockedBefore(r, c, k)
    PROVE  /\ graph'.lock[c][k] = graph.lock[c][k]
           /\ k \in Plain => graph'.prop[c][k] = graph.prop[c][k]
<1>1. PICK i \in Inputs : i = req[r].input
  BY DEF LockInv, TypeInv, TypeOK, Request
<1>2. PICK seen \in Contents : seen = req[r].seen
  BY DEF LockInv, TypeInv, TypeOK, Request
<1>3. /\ \A d \in Codes \ {i.code} : graph'.prop[d] = graph.prop[d] /\ graph'.lock[d] = graph.lock[d]
      /\ graph'.lock[i.code] = Locks(i, seen)
      /\ \A p \in Plain \ DOMAIN i.body.prop : graph'.prop[i.code][p] = graph.prop[i.code][p]
  BY <1>1, <1>2, MergeEffect DEF LockInv
<1>4. CASE c # i.code
  BY <1>3, <1>4
<1>5. CASE c = i.code
  <2>1. seen.lock = graph.lock[c] /\ Refusal(i, seen) = 0
    <3>1. seen = Content(graph, c) /\ Refusal(i, seen) = 0
      BY <1>1, <1>2, <1>5 DEF MergeCommits, LockInv, ReadIsCurrent
    <3> QED
      BY <3>1 DEF Content
  <2>2. ~ Clashes(i.client, i.lock, i.unlock, Keys(i.body), seen.lock)
    BY <2>1 DEF Refusal
  <2>3. seen.lock \in LockTables
    BY <1>2 DEF Contents
  <2>4. /\ seen.lock[k] \notin {NoClient, i.client}
        /\ i.unlock # AllFields /\ k \notin NormalizeFields(i.unlock, {})
    BY <1>1, <2>1 DEF LockedBefore, Unlocks
  <2>5. /\ MergeLockedFields(i.client, i.lock, i.unlock, Keys(i.body), seen.lock)[k] = seen.lock[k]
        /\ k \notin Keys(i.body)
    BY <2>2, <2>3, <2>4, ForeignLocksKept
  <2>6. k \notin DOMAIN i.body.prop
    BY <2>5 DEF Keys
  <2> QED
    BY <1>3, <1>5, <2>1, <2>5, <2>6 DEF Locks
<1> QED
  BY <1>4, <1>5

\* A record that is created had no locks, and other records keep theirs.
LEMMA CreateKeepsLocked ==
    ASSUME LockInv, NEW r \in Requests, CreateCommits(r),
           NEW c \in Codes, NEW k \in LockNames, LockedBefore(r, c, k)
    PROVE  /\ graph'.lock[c][k] = graph.lock[c][k]
           /\ k \in Plain => graph'.prop[c][k] = graph.prop[c][k]
<1>1. PICK code : code = req[r].input.code
  OBVIOUS
<1>2. /\ code \in Codes \ graph.nodes
      /\ \A d \in Codes \ {code} : graph'.prop[d] = graph.prop[d] /\ graph'.lock[d] = graph.lock[d]
  BY <1>1, CreateEffect DEF LockInv
<1>3. c # code
  BY <1>2 DEF LockedBefore, LockInv, TypeInv, TypeOK, NoLocks
<1> QED
  BY <1>2, <1>3

LEMMA StepKeepsLocked ==
    ASSUME LockInv, [Next]_vars, NEW r \in Requests, Updates(r),
           NEW c \in Codes, NEW k \in LockNames, LockedBefore(r, c, k)
    PROVE  /\ graph'.lock[c][k] = graph.lock[c][k]
           /\ k \in Plain => graph'.prop[c][k] = graph.prop[c][k]
<1>1. graph' # graph /\ req'[r] # req[r] /\ req[r].input.method = "PATCH"
  BY DEF Updates, Writes
<1>2. PICK q \in Requests : Arrive(q) \/ Handle(q)
  BY <1>1 DEF Next, vars
<1>3. q = r
  <2>1. PICK l \in Request : Becomes(q, l)
    BY <1>2, ArriveBecomes, HandleBecomes DEF LockInv
  <2> QED
    BY <1>1, <2>1 DEF Becomes, LockInv, TypeInv, TypeOK
<1>4. Handle(r) /\ ~ Quiet
  BY <1>1, <1>2, <1>3 DEF Arrive, Quiet
<1>5. ~ DeleteCommits(r) /\ ~ AbsorbCommits(r)
  BY <1>1, EraseEffect, AbsorbEffect DEF LockInv
<1>6. CreateCommits(r) \/ MergeCommits(r)
  BY <1>4, <1>5, GraphSteps
<1> QED
  BY <1>6, CreateKeepsLocked, MergeKeepsLocked

\* While nothing runs beside an update, no client changes a field that another one
\* has locked, or its lock, without unlocking it: neither the merge of the lock
\* tables nor the creation of a record by a PATCH loses an entry.
THEOREM LocksAreKept ==
    ASSUME UpdatesRunAlone
    PROVE  Spec => LockedFieldsKept
<1>1. Init => LockInv
  BY InitType, InitExclusive, NoRequestType DEF Init, LockInv, ReadIsCurrent
<1>2. LockInv /\ [Next]_vars => LockInv'
  BY NextReads
<1>3. LockInv /\ [Next]_vars =>
          [\A r \in Requests : Updates(r) =>
              \A c \in Codes, k \in LockNames : LockedBefore(r, c, k) =>
                  /\ graph'.lock[c][k] = graph.lock[c][k]
                  /\ k \in Plain => graph'.prop[c][k] = graph.prop[c][k]]_vars
  BY StepKeepsLocked
<1> QED
  BY <1>1, <1>2, <1>3, PTL DEF Spec, LockedFieldsKept

-----------------------------------------------------------------------------
(* Properties with one value.  Two properties that show the same           *)
(* relationships have equally many values, and of the two ends of a        *)
(* relationship at most one has one value: write.js has no query for more. *)
SameKind == \A p \in RelNames : \A q \in FindPropertyNames(p) : ToOne(q) <=> ToOne(p)

OneSided == \A p \in RelNames : ToOne(p) => \A q \in FindInversePropertyNames(p) : ~ ToOne(q)

OnePartner(g) ==
    \A c \in Codes, p \in RelNames : ToOne(p) => \A m, n \in Partners(g, c, p) : m = n

\* Synonyms show the same partners by the same relationships.
LEMMA ClassFacts ==
    ASSUME NEW p \in RelNames, NEW q \in FindPropertyNames(p)
    PROVE  /\ q \in RelNames
           /\ FindPropertyNames(q) = FindPropertyNames(p)
           /\ Def[q].of = Def[p].of /\ Def[q].type = Def[p].type
           /\ \A c, m : Edge(c, q, m) = Edge(c, p, m)
           /\ \A g, c : Partners(g, c, q) = Partners(g, c, p)
<1>1. /\ q \in RelNames /\ Def[q].of = Def[p].of /\ Def[q].type = Def[p].type
      /\ Def[q].direction = Def[p].direction /\ Def[q].relationship = Def[p].relationship
  BY DEF FindPropertyNames, FindPropertyNamesFromPropertyDef, PropertiesOf
<1>2. FindPropertyNames(q) = FindPropertyNames(p)
  BY <1>1 DEF FindPropertyNames
<1>3. \A c, m : Edge(c, q, m) = Edge(c, p, m)
  BY <1>1 DEF Edge
<1>4. \A g, c : Partners(g, c, q) = Partners(g, c, p)
  BY <1>1, <1>3 DEF Partners
<1> QED
  BY <1>1, <1>2, <1>3, <1>4

\* Of synonyms that share a parameter the partners of one are written.
LEMMA SharedFacts ==
    ASSUME NEW relationships \in Relations, NEW p \in RelNames
    PROVE  /\ SharedParameter(relationships)[p] # {} =>
                 /\ relationships[p] # {}
                 /\ \E q \in FindPropertyNames(p) :
                        SharedParameter(relationships)[p] = relationships[q]
           /\ relationships[p] # {} =>
                 /\ SharedParameter(relationships)[p] # {}
                 /\ \A q \in FindPropertyNames(p) : relationships[q] # {} =>
                        SharedParameter(relationships)[q] = SharedParameter(relationships)[p]
<1>1. p \in FindPropertyNames(p)
  BY DEF FindPropertyNames, FindPropertyNamesFromPropertyDef, PropertiesOf
<1>2. \A q \in RelNames : SharedParameter(relationships)[q] =
          IF relationships[q] = {} THEN {}
          ELSE relationships[CHOOSE n \in FindPropertyNames(q) : relationships[n] # {}]
  BY DEF SharedParameter
<1>3. ASSUME relationships[p] # {}
      PROVE  \E q \in FindPropertyNames(p) :
                 relationships[q] # {} /\ SharedParameter(relationships)[p] = relationships[q]
  <2>1. PICK q : q = CHOOSE n \in FindPropertyNames(p) : relationships[n] # {}
    OBVIOUS
  <2>2. q \in FindPropertyNames(p) /\ relationships[q] # {}
    BY <1>1, <1>3, <2>1
  <2>3. SharedParameter(relationships)[p] = relationships[q]
    BY <1>2, <1>3, <2>1
  <2> QED
    BY <2>2, <2>3
<1>4. ASSUME relationships[p] # {}, NEW q \in FindPropertyNames(p), relationships[q] # {}
      PROVE  SharedParameter(relationships)[q] = SharedParameter(relationships)[p]
  <2>1. q \in RelNames /\ FindPropertyNames(q) = FindPropertyNames(p)
    BY ClassFacts
  <2> QED
    BY <1>2, <1>4, <2>1
<1> QED
  BY <1>2, <1>3, <1>4

\* The same relationship, shown by one end or by both.
LEMMA SameEdge ==
    ASSUME NEW code, NEW q \in RelNames, NEW m, NEW c, NEW p \in RelNames, NEW n,
           Edge(code, q, m) = Edge(c, p, n)
    PROVE  /\ Def[q].relationship = Def[p].relationship
           /\ \/ Def[q].direction = Def[p].direction /\ c = code /\ n = m
              \/ Def[q].direction = InvertDirection(Def[p].direction) /\ c = m /\ n = code
<1>1. Def[p].direction \in {"incoming", "outgoing"} /\ Def[q].direction \in {"incoming", "outgoing"}
  BY SchemaAssumption DEF Definition
<1> QED
  BY <1>1 DEF Edge, InvertDirection

LEMMA OppositeEdge ==
    ASSUME NEW p \in RelNames, NEW q \in RelNames, NEW m, NEW n,
           Def[q].relationship = Def[p].relationship,
           Def[q].direction = InvertDirection(Def[p].direction)
    PROVE  Edge(m, q, n) = Edge(n, p, m)
<1>1. Def[p].direction \in {"incoming", "outgoing"}
  BY SchemaAssumption DEF Definition
<1> QED
  BY <1>1 DEF Edge, InvertDirection

LEMMA InverseFacts ==
    ASSUME NEW p \in RelNames, NEW q \in RelNames, Def[q].relationship = Def[p].relationship,
           Def[q].direction = InvertDirection(Def[p].direction),
           Def[q].of = Def[p].type, Def[q].type = Def[p].of
    PROVE  q \in FindInversePropertyNames(p) /\ p \in FindInversePropertyNames(q)
<1>1. Def[p].direction \in {"incoming", "outgoing"}
  BY SchemaAssumption DEF Definition
<1>2. Def[p].direction = InvertDirection(Def[q].direction)
  BY <1>1 DEF InvertDirection
<1> QED
  BY <1>2 DEF FindInversePropertyNames, FindPropertyNamesFromPropertyDef, PropertiesOf

\* What is read of a property with one value are its partners.
LEMMA OneIsRead ==
    ASSUME NEW g, OnePartner(g), NEW c \in Codes, NEW p \in RelNames, ToOne(p)
    PROVE  Content(g, c).rel[p] = Partners(g, c, p)
<1>1. Content(g, c).rel[p] = FirstOf(Partners(g, c, p))
  BY DEF Content
<1>2. \A m, n \in Partners(g, c, p) : m = n
  BY DEF OnePartner
<1>3. CASE Partners(g, c, p) = {}
  BY <1>1, <1>3 DEF FirstOf
<1>4. CASE Partners(g, c, p) # {}
  <2>1. PICK m : m = CHOOSE n \in Partners(g, c, p) : TRUE
    OBVIOUS
  <2>2. m \in Partners(g, c, p)
    BY <1>4, <2>1
  <2>3. FirstOf(Partners(g, c, p)) = {m}
    BY <1>4, <2>1 DEF FirstOf
  <2> QED
    BY <1>1, <1>2, <2>2, <2>3
<1> QED
  BY <1>3, <1>4

LEMMA ReadOfEdges ==
    ASSUME NEW g, NEW h, g.edges = h.edges
    PROVE  /\ \A c : Content(g, c).rel = Content(h, c).rel
           /\ OnePartner(g) => OnePartner(h)
<1>1. \A c, p : Partners(g, c, p) = Partners(h, c, p)
  BY DEF Partners
<1>2. \A c : Content(g, c).rel = Content(h, c).rel
  BY <1>1 DEF Content
<1> QED
  BY <1>1, <1>2 DEF OnePartner

-----------------------------------------------------------------------------
(* A write keeps one partner where one may be: at the record the old one   *)
(* is removed, at the other end the conflicting relationship.              *)
Writable(code, changed) ==
    \A p \in RelNames : changed[p] # {} =>
        Def[p].of = TypeOf[code] /\ code \notin changed[p] /\ changed[p] \in PartnersFor(p)

GivesWay(g, code, removed, changed) ==
    \A p \in RelNames : ToOne(p) =>
        /\ removed[p] \subseteq Partners(g, code, p)
        /\ changed[p] # {} => Partners(g, code, p) \subseteq removed[p]

\* The partners that a query sends are ones that a body may name.
LEMMA AddedFacts ==
    ASSUME SameKind, NEW code \in Codes, NEW changed \in Relations, Writable(code, changed),
           NEW q \in RelNames, SharedParameter(changed)[q] # {}
    PROVE  /\ changed[q] # {}
           /\ Def[q].of = TypeOf[code]
           /\ code \notin SharedParameter(changed)[q]
           /\ \A m \in SharedParameter(changed)[q] : m \in Codes /\ TypeOf[m] = Def[q].type
           /\ ToOne(q) => \A m, n \in SharedParameter(changed)[q] : m = n
<1>1. PICK n \in FindPropertyNames(q) : SharedParameter(changed)[q] = changed[n]
  BY SharedFacts
<1>2. n \in RelNames /\ Def[n].of = Def[q].of /\ Def[n].type = Def[q].type /\ (ToOne(n) <=> ToOne(q))
  BY <1>1, ClassFacts DEF SameKind
<1>3. Def[n].of = TypeOf[code] /\ code \notin changed[n] /\ changed[n] \in PartnersFor(n)
  BY <1>1, <1>2 DEF Writable
<1>4. changed[q] # {}
  BY SharedFacts
<1> QED
  BY <1>1, <1>2, <1>3, <1>4 DEF PartnersFor

\* A new relationship that property p of record c shows.
LEMMA NewPartner ==
    ASSUME SameKind, NEW code \in Codes, NEW changed \in Relations, Writable(code, changed),
           NEW c \in Codes, NEW p \in RelNames, NEW x \in Codes,
           Def[p].of = TypeOf[c], Def[p].type = TypeOf[x],
           Edge(c, p, x) \in Edges(code, SharedParameter(changed))
    PROVE  \E q \in RelNames :
              \/ c = code /\ q \in FindPropertyNames(p) /\ x \in SharedParameter(changed)[q]
              \/ /\ c # code /\ x = code /\ c \in SharedParameter(changed)[q]
                 /\ q \in FindInversePropertyNames(p) /\ p \in FindInversePropertyNames(q)
                 /\ Def[q].relationship = Def[p].relationship
                 /\ Def[q].direction = InvertDirection(Def[p].direction)
<1>1. PICK q \in RelNames : \E y \in SharedParameter(changed)[q] : Edge(c, p, x) = Edge(code, q, y)
  BY DEF Edges
<1>2. PICK y \in SharedParameter(changed)[q] : Edge(code, q, y) = Edge(c, p, x)
  BY <1>1
<1>3. /\ Def[q].of = TypeOf[code] /\ code \notin SharedParameter(changed)[q]
      /\ TypeOf[y] = Def[q].type
  BY <1>2, AddedFacts
<1>4. Def[q].relationship = Def[p].relationship
  BY <1>2, SameEdge
<1>5. CASE Def[q].direction = Def[p].direction /\ c = code /\ x = y
  <2>1. q \in FindPropertyNames(p)
    BY <1>3, <1>4, <1>5 DEF FindPropertyNames, FindPropertyNamesFromPropertyDef, PropertiesOf
  <2> QED
    BY <1>2, <1>5, <2>1
<1>6. CASE Def[q].direction = InvertDirection(Def[p].direction) /\ c = y /\ x = code
  <2>1. q \in FindInversePropertyNames(p) /\ p \in FindInversePropertyNames(q)
    BY <1>3, <1>4, <1>6, InverseFacts
  <2> QED
    BY <1>2, <1>3, <1>4, <1>6, <2>1
<1> QED
  BY <1>2, <1>5, <1>6, SameEdge

\* The old partner of a property whose synonym gets a new one is removed.
LEMMA OldRemoved ==
    ASSUME SameKind, NEW g, OnePartner(g), NEW code \in Codes,
           NEW removed \in Relations, NEW changed \in Relations, GivesWay(g, code, removed, changed),
           NEW p \in RelNames, ToOne(p), NEW q \in FindPropertyNames(p), changed[q] # {},
           NEW m \in Partners(g, code, p)
    PROVE  Edge(code, p, m) \in Edges(code, SharedParameter(removed))
<1>1. /\ q \in RelNames /\ ToOne(q) /\ Partners(g, code, q) = Partners(g, code, p)
      /\ Edge(code, q, m) = Edge(code, p, m)
  BY ClassFacts DEF SameKind
<1>2. m \in removed[q]
  BY <1>1 DEF GivesWay
<1>3. SharedParameter(removed)[q] # {}
  BY <1>1, <1>2, SharedFacts
<1>4. PICK n \in FindPropertyNames(q) : SharedParameter(removed)[q] = removed[n]
  BY <1>1, <1>3, SharedFacts
<1>5. n \in RelNames /\ ToOne(n) /\ Partners(g, code, n) = Partners(g, code, q)
  BY <1>1, <1>4, ClassFacts DEF SameKind
<1>6. removed[n] \subseteq Partners(g, code, p)
  BY <1>1, <1>5 DEF GivesWay
<1>7. m \in SharedParameter(removed)[q]
  BY <1>3, <1>4, <1>6 DEF OnePartner
<1> QED
  BY <1>1, <1>7 DEF Edges

LEMMA WriteKeepsOne ==
    ASSUME SameKind, OneSided, NEW g, OnePartner(g), NEW code \in Codes,
           NEW removed \in Relations, NEW changed \in Relations,
           Writable(code, changed), GivesWay(g, code, removed, changed),
           NEW w, w.edges = NewEdges(g, code, removed, changed)
    PROVE  OnePartner(w)
<1> SUFFICES ASSUME NEW c \in Codes, NEW p \in RelNames, ToOne(p),
                    NEW m \in Partners(w, c, p), NEW n \in Partners(w, c, p)
             PROVE  m = n
  BY DEF OnePartner
<1> DEFINE Old(x) == /\ x \in Partners(g, c, p)
                     /\ Edge(c, p, x) \notin Edges(code, SharedParameter(removed))
                     /\ Edge(c, p, x) \notin Conflicting(g, code, SharedParameter(changed))
           New(x) == Edge(c, p, x) \in Edges(code, SharedParameter(changed))
<1>1. \A x \in Partners(w, c, p) : x \in Codes /\ Def[p].of = TypeOf[c] /\ Def[p].type = TypeOf[x]
  BY DEF Partners
<1>2. \A x \in Partners(w, c, p) : Old(x) \/ New(x)
  BY DEF Partners, NewEdges
<1> HIDE DEF Old
<1>3. ASSUME NEW x \in Partners(w, c, p), NEW y \in Partners(w, c, p), New(x), New(y)
      PROVE  x = y
  <2>1. CASE c = code
    <3>1. PICK q \in FindPropertyNames(p) : x \in SharedParameter(changed)[q]
      BY <1>1, <1>3, <2>1, NewPartner
    <3>2. PICK o \in FindPropertyNames(p) : y \in SharedParameter(changed)[o]
      BY <1>1, <1>3, <2>1, NewPartner
    <3>3. /\ q \in RelNames /\ o \in RelNames /\ ToOne(q) /\ ToOne(o)
          /\ o \in FindPropertyNames(q)
      BY <3>1, <3>2, ClassFacts DEF SameKind
    <3>4. changed[q] # {} /\ changed[o] # {} /\ \A i, j \in SharedParameter(changed)[q] : i = j
      BY <3>1, <3>2, <3>3, AddedFacts
    <3>5. SharedParameter(changed)[o] = SharedParameter(changed)[q]
      BY <3>3, <3>4, SharedFacts
    <3> QED
      BY <3>1, <3>2, <3>4, <3>5
  <2>2. CASE c # code
    BY <1>1, <1>3, <2>2, NewPartner
  <2> QED
    BY <2>1, <2>2
<1>4. ASSUME NEW x \in Partners(w, c, p), NEW y \in Partners(w, c, p), Old(x), New(y)
      PROVE  x = y
  <2>1. CASE c = code
    <3>1. PICK q \in FindPropertyNames(p) : y \in SharedParameter(changed)[q]
      BY <1>1, <1>4, <2>1, NewPartner
    <3>2. q \in RelNames /\ changed[q] # {}
      BY <3>1, ClassFacts, AddedFacts
    <3> QED
      BY <1>4, <2>1, <3>1, <3>2, OldRemoved DEF Old
  <2>2. CASE c # code
    <3>1. PICK q \in RelNames :
              /\ y = code /\ c \in SharedParameter(changed)[q]
              /\ q \in FindInversePropertyNames(p) /\ p \in FindInversePropertyNames(q)
              /\ Def[q].relationship = Def[p].relationship
              /\ Def[q].direction = InvertDirection(Def[p].direction)
      BY <1>1, <1>4, <2>2, NewPartner
    <3>2. ~ ToOne(q)
      BY <3>1 DEF OneSided
    <3>3. Edge(x, q, c) = Edge(c, p, x)
      BY <3>1, OppositeEdge
    <3>4. x \in Codes /\ Edge(c, p, x) \in g.edges
      BY <1>1, <1>4 DEF Old, Partners
    <3>5. x # code => Edge(c, p, x) \in Conflicting(g, code, SharedParameter(changed))
      BY <3>1, <3>2, <3>3, <3>4 DEF Conflicting, Named
    <3> QED
      BY <1>4, <3>1, <3>5 DEF Old
  <2> QED
    BY <2>1, <2>2
<1>5. Old(m) /\ Old(n) => m = n
  BY DEF Old, OnePartner
<1> QED
  BY <1>2, <1>3, <1>4, <1>5

\* A record that absorbs another keeps its partner: that of the other one, if it
\* is not the same, has been removed.
LEMMA MovedFrom ==
    ASSUME NEW e \in Triples, NEW from, NEW to, NEW c, NEW p \in RelNames, NEW m,
           Moved(e, from, to) = Edge(c, p, m)
    PROVE  \E d \in Codes, n \in Codes :
              /\ e = Edge(d, p, n)
              /\ c = IF d = from THEN to ELSE d
              /\ m = IF n = from THEN to ELSE n
<1>1. PICK a \in Codes, s \in Names, b \in Codes : e = <<a, s, b>>
  BY DEF Triples
<1>2. s = Def[p].relationship
  BY <1>1 DEF Moved, Edge
<1>3. CASE Def[p].direction = "outgoing"
  BY <1>1, <1>2, <1>3 DEF Moved, Edge
<1>4. CASE Def[p].direction # "outgoing"
  BY <1>1, <1>2, <1>4 DEF Moved, Edge
<1> QED
  BY <1>3, <1>4

\* Of synonyms with one value all or none give way, so what is removed is removed.
LEMMA CollectedRemoved ==
    ASSUME SameKind, NEW g, NEW code \in Codes, NEW absorbed \in Codes, NEW removed \in Relations,
           \A p \in RelNames : ToOne(p) =>
               removed[p] = (IF Partners(g, code, p) # {}
                             THEN Partners(g, absorbed, p) \ Partners(g, code, p) ELSE {})
                                \union (Partners(g, absorbed, p) \cap {code}),
           NEW p \in RelNames, ToOne(p), NEW m \in removed[p]
    PROVE  Edge(absorbed, p, m) \in Edges(absorbed, SharedParameter(removed))
<1>1. SharedParameter(removed)[p] # {}
  BY SharedFacts
<1>2. PICK q \in FindPropertyNames(p) : SharedParameter(removed)[p] = removed[q]
  BY <1>1, SharedFacts
<1>3. /\ q \in RelNames /\ ToOne(q)
      /\ Partners(g, code, q) = Partners(g, code, p)
      /\ Partners(g, absorbed, q) = Partners(g, absorbed, p)
  BY <1>2, ClassFacts DEF SameKind
<1>4. removed[q] = removed[p]
  BY <1>3
<1> QED
  BY <1>2, <1>4 DEF Edges

LEMMA AbsorbKeepsOne ==
    ASSUME SameKind, NEW g, g \in Graphs, OnePartner(g),
           NEW code \in Codes, NEW absorbed \in Codes, code # absorbed, TypeOf[code] = TypeOf[absorbed],
           NEW removed \in Relations,
           \A p \in RelNames : ToOne(p) =>
               removed[p] = (IF Partners(g, code, p) # {}
                             THEN Partners(g, absorbed, p) \ Partners(g, code, p) ELSE {})
                                \union (Partners(g, absorbed, p) \cap {code}),
           NEW w, w.edges = MovedEdges(g, code, absorbed, removed)
    PROVE  OnePartner(w)
<1> DEFINE To(x) == IF x = absorbed THEN code ELSE x
           left == g.edges \ Edges(absorbed, SharedParameter(removed))
<1> SUFFICES ASSUME NEW c \in Codes, NEW p \in RelNames, ToOne(p),
                    NEW m \in Partners(w, c, p), NEW n \in Partners(w, c, p)
             PROVE  m = n
  BY DEF OnePartner
<1>1. ASSUME NEW x \in Partners(w, c, p)
      PROVE  \E d \in Codes, y \in Codes :
                 /\ Edge(d, p, y) \in left /\ y \in Partners(g, d, p)
                 /\ c = To(d) /\ x = To(y)
  <2>1. /\ x \in Codes /\ Def[p].of = TypeOf[c] /\ Def[p].type = TypeOf[x]
        /\ Edge(c, p, x) \in MovedEdges(g, code, absorbed, removed)
        /\ x = c => Def[p].direction = "outgoing"
    BY DEF Partners
  <2>2. PICK e \in left : Edge(c, p, x) = Moved(e, absorbed, code)
    BY <2>1 DEF MovedEdges
  <2>3. e \in Triples /\ e \in g.edges
    BY <2>2 DEF Graphs, Triples
  <2>4. PICK d \in Codes, y \in Codes : e = Edge(d, p, y) /\ c = To(d) /\ x = To(y)
    BY <2>2, <2>3, MovedFrom
  <2>5. TypeOf[d] = TypeOf[c] /\ TypeOf[y] = TypeOf[x]
    BY <2>4
  <2>6. y \in Partners(g, d, p)
    BY <2>1, <2>3, <2>4, <2>5 DEF Partners
  <2> QED
    BY <2>2, <2>4, <2>6
<1>2. PICK d \in Codes, x \in Codes :
          Edge(d, p, x) \in left /\ x \in Partners(g, d, p) /\ c = To(d) /\ m = To(x)
  BY <1>1
<1>3. PICK e \in Codes, y \in Codes :
          Edge(e, p, y) \in left /\ y \in Partners(g, e, p) /\ c = To(e) /\ n = To(y)
  BY <1>1
<1>4. \A y1 \in Codes : Edge(absorbed, p, y1) \in left => y1 \notin removed[p]
  BY CollectedRemoved
<1>5. CASE d = e
  BY <1>2, <1>3, <1>5 DEF OnePartner
<1>6. ASSUME NEW x1 \in Partners(g, code, p), NEW y1 \in Partners(g, absorbed, p), y1 \notin removed[p]
      PROVE  x1 = y1
  <2>1. y1 \in Partners(g, code, p)
    BY <1>6
  <2> QED
    BY <2>1 DEF OnePartner
<1>7. CASE d = code /\ e = absorbed
  BY <1>2, <1>3, <1>4, <1>6, <1>7
<1>8. CASE d = absorbed /\ e = code
  BY <1>2, <1>3, <1>4, <1>6, <1>8
<1> QED
  BY <1>2, <1>3, <1>5, <1>7, <1>8

-----------------------------------------------------------------------------
(* What handlers read and send.  An ABSORB acts on what it has read of two *)
(* records: meanwhile only DELETEs run, and ABSORBs of the same two, of    *)
(* which the first to end takes one away.                                  *)
NobodyRelatesToItself ==
    \A i \in Inputs : \A p \in DOMAIN i.body.rel : i.code \notin i.body.rel[p]

AbsorbsKeepToAPair ==
    \A w \in Workloads : \A together \in w.overlap : "ABSORB" \in together =>
        /\ together \subseteq {"ABSORB", "DELETE"}
        /\ \A i, j \in w.inputs : i.method = "ABSORB" /\ j.method = "ABSORB" =>
              {i.code, i.other} = {j.code, j.other}

InputsKnown == \A r \in Requests : Busy(r) => req[r].input \in workload.inputs

BothRead(g, k) ==
    k.pc \in {"fetch", "absorb"} /\ {k.input.code, k.input.other} \subseteq g.nodes =>
        /\ k.pc = "absorb" => k.fetched = {k.input.code, k.input.other}
        /\ k.input.code \in k.fetched => k.seen.rel = Content(g, k.input.code).rel
        /\ k.input.other \in k.fetched => k.seenOther.rel = Content(g, k.input.other).rel

OneInv ==
    /\ LockInv
    /\ InputsKnown
    /\ \A r \in Requests : BothRead(graph, req[r])
    /\ OnePartner(graph)

LEMMA HandlerStepInputs ==
    ASSUME TypeInv, InputsKnown, NEW r \in Requests, Arrive(r) \/ Handle(r), UNCHANGED workload
    PROVE  InputsKnown'
<1>1. PICK k \in Request :
          Becomes(r, k) /\ (k.pc = "end" \/ k.input \in workload.inputs)
  <2>1. CASE Arrive(r)
    BY <2>1, ArriveBecomes
  <2>2. CASE Handle(r)
    BY <2>2, HandleBecomes, HandlerIsBusy DEF InputsKnown
  <2> QED
    BY <2>1, <2>2
<1>2. req' = [req EXCEPT ![r] = k] /\ req \in [Requests -> Request]
  BY <1>1 DEF Becomes, TypeInv, TypeOK
<1>3. req'[r] = k /\ \A q \in Requests \ {r} : req'[q] = req[q]
  BY <1>2
<1>4. ASSUME NEW q \in Requests, req'[q].pc \notin {"idle", "end"}
      PROVE  req'[q].input \in workload.inputs
  BY <1>1, <1>3, <1>4 DEF InputsKnown, Busy
<1> QED
  BY <1>4 DEF InputsKnown, Busy

\* What r itself has read when its step is done.
LEMMA FetchReads ==
    ASSUME TypeInv, NEW r \in Requests, NEW code \in Codes, Fetch(r, code), BothRead(graph, req[r])
    PROVE  BothRead(graph, req'[r])
<1>1. PICK content \in Contents : content = Content(graph, code)
  BY ContentType DEF TypeInv, TypeOK
<1>2. /\ req \in [Requests -> Request] /\ req[r] \in Request /\ ShapeOK(req[r]) /\ req[r].pc = "fetch"
      /\ code \in {req[r].input.code, req[r].input.other} \ req[r].fetched
  BY DEF TypeInv, TypeOK, Fetch
<1>3. CASE code \notin graph.nodes
  BY <1>2, <1>3, AnsweredType DEF EndedOK, Fetch, Answer, Become, BothRead
<1>4. CASE code \in graph.nodes
  <2>1. PICK k : k = IF code = req[r].input.code THEN [req[r] EXCEPT !.seen = content]
                     ELSE [req[r] EXCEPT !.seenOther = content]
    OBVIOUS
  <2>2. /\ k.input = req[r].input /\ k.pc = "fetch" /\ k.fetched = req[r].fetched
        /\ code = req[r].input.code => k.seen = content /\ k.seenOther = req[r].seenOther
        /\ code # req[r].input.code => k.seen = req[r].seen /\ k.seenOther = content
    BY <1>2, <2>1 DEF Request
  <2>3. k \in Request
    BY <1>2, <2>1 DEF Request
  <2>4. PICK got : got = req[r].fetched \union {code}
    OBVIOUS
  <2>5. PICK pc : pc = IF got = {req[r].input.code, req[r].input.other} THEN "absorb" ELSE "fetch"
    OBVIOUS
  <2>6. PICK l : l = [k EXCEPT !.fetched = got, !.pc = pc]
    OBVIOUS
  <2>7. l.pc = pc /\ l.input = req[r].input /\ l.fetched = got /\ l.seen = k.seen /\ l.seenOther = k.seenOther
    BY <2>2, <2>3, <2>6 DEF Request
  <2>8. req'[r] = l
    <3>1. Become(r, l)
      BY <1>1, <1>2, <1>4, <2>1, <2>2, <2>4, <2>5, <2>6 DEF Fetch
    <3> QED
      BY <1>2, <3>1 DEF Become
  <2>9. req[r].input.code # req[r].input.other
    BY <1>2 DEF ShapeOK
  <2>10. BothRead(graph, l)
    BY <1>1, <1>2, <2>2, <2>4, <2>5, <2>7, <2>9 DEF BothRead
  <2> QED
    BY <2>8, <2>10
<1> QED
  BY <1>3, <1>4

LEMMA OwnStepReads ==
    ASSUME TypeInv, NEW r \in Requests, Arrive(r) \/ Handle(r), BothRead(graph, req[r])
    PROVE  BothRead(graph', req'[r])
<1>1. PICK k \in Request : Becomes(r, k)
  BY ArriveBecomes, HandleBecomes
<1>2. req'[r] = k /\ ShapeOK(k)
  BY <1>1 DEF Becomes, TypeInv, TypeOK
<1>3. CASE k.pc \notin {"fetch", "absorb"}
  BY <1>2, <1>3 DEF BothRead
<1>4. CASE k.pc \in {"fetch", "absorb"} /\ Arrive(r)
  <2>1. PICK i \in workload.inputs :
            ArrivePost(r, i) \/ ArrivePatch(r, i) \/ ArriveDelete(r, i) \/ ArriveAbsorb(r, i)
    BY <1>4 DEF Arrive
  <2>2. req \in [Requests -> Request] /\ i \in Inputs
    BY DEF TypeInv, TypeOK, Inputs
  <2>3. ArrivePatch(r, i) \/ ArriveDelete(r, i) => k = NewRequest(i, "preflight")
    BY <1>2, <2>2 DEF ArrivePatch, ArriveDelete, Become
  <2>4. ArriveAbsorb(r, i) => k = NewRequest(i, "fetch")
    BY <1>2, <2>2 DEF ArriveAbsorb, Become
  <2>5. ArrivePost(r, i) => k.pc \in {"create", "end"}
    <3>1. PICK l : l = NewRequest(i, "create")
      OBVIOUS
    <3>2. l \in Request /\ [l EXCEPT !.pc = "create"].pc = "create"
      BY <2>2, <3>1, NewRequestType DEF Request
    <3>3. Answered(400).pc = "end"
      BY AnsweredType DEF EndedOK
    <3>4. ArrivePost(r, i) => k = Answered(400) \/ k = [l EXCEPT !.pc = "create"]
      BY <1>2, <2>2, <3>1 DEF ArrivePost, BeginCreate, Become
    <3> QED
      BY <3>2, <3>3, <3>4
  <2>6. NewRequest(i, "preflight").pc = "preflight"
    BY <2>2, NewRequestType
  <2>7. NewRequest(i, "fetch").fetched = {} /\ NewRequest(i, "fetch").pc = "fetch"
    BY DEF NewRequest
  <2>8. k.fetched = {} /\ k.pc = "fetch"
    BY <1>4, <2>1, <2>3, <2>4, <2>5, <2>6, <2>7
  <2> QED
    BY <1>2, <2>8 DEF BothRead
<1>5. CASE k.pc \in {"fetch", "absorb"} /\ Handle(r)
  <2>1. ~ Answers(r)
    <3>1. req \in [Requests -> Request]
      BY DEF TypeInv, TypeOK
    <3> QED
      BY <1>2, <1>5, <3>1, AnsweredType DEF EndedOK, Answers, Answer, Become
  <2>2. ~ PatchPreflight(r) /\ ~ DeletePreflight(r)
    <3>1. k.input.method = "ABSORB"
      BY <1>2, <1>5 DEF ShapeOK
    <3>2. PICK l \in Request : Becomes(r, l) /\ (l.pc = "end" \/ l.input = req[r].input)
      BY <1>5, HandleBecomes
    <3>3. l = k
      BY <1>2, <3>2 DEF Becomes, TypeInv, TypeOK
    <3> QED
      BY <1>5, <3>1, <3>2, <3>3 DEF PatchPreflight, DeletePreflight
  <2>3. PICK code \in Codes : Fetch(r, code)
    BY <1>5, <2>1, <2>2, OtherStepsAnswer
  <2>4. graph' = graph
    BY <2>3 DEF Fetch, Quiet
  <2> QED
    BY <2>3, <2>4, FetchReads
<1> QED
  BY <1>3, <1>4, <1>5

\* The relationships after a write.
LEMMA WriteEdges ==
    ASSUME NEW g, g \in Graphs, NEW code \in Codes,
           NEW properties, PropertyChanges(properties), NEW locks \in LockTables,
           NEW removed \in Relations, NEW changed \in Relations
    PROVE  \A w : w = WriteRelationships(WriteNode(g, code, properties, locks), code, removed, changed)
                      => w.edges = NewEdges(g, code, removed, changed)
<1>1. PICK n : n = WriteNode(g, code, properties, locks)
  OBVIOUS
<1>2. n \in Graphs /\ n.edges = g.edges
  BY <1>1, WriteNodeType, WriteNodeFields
<1>3. WriteRelationships(n, code, removed, changed).edges = NewEdges(n, code, removed, changed)
  BY <1>2, WriteRelationshipsFields
<1>4. NewEdges(n, code, removed, changed) = NewEdges(g, code, removed, changed)
  BY <1>2 DEF NewEdges, Conflicting
<1> QED
  BY <1>1, <1>3, <1>4

\* What an input may write.
LEMMA InputWritable ==
    ASSUME NobodyRelatesToItself, NEW i \in Inputs, NEW changed \in Relations,
           \A p \in RelNames : changed[p] \subseteq GetWriteRelationships(i.body)[p]
    PROVE  Writable(i.code, changed)
<1> SUFFICES ASSUME NEW p \in RelNames, changed[p] # {}
             PROVE  /\ Def[p].of = TypeOf[i.code] /\ i.code \notin changed[p]
                    /\ changed[p] \in PartnersFor(p)
  BY DEF Writable
<1>1. p \in DOMAIN i.body.rel /\ changed[p] \subseteq i.body.rel[p]
  BY DEF GetWriteRelationships
<1>2. IsBody(TypeOf[i.code], i.body)
  BY InputAssumption DEF IsInput
<1>3. p \in PropertiesOf(TypeOf[i.code]) /\ i.body.rel[p] \in PartnersFor(p)
  BY <1>1, <1>2 DEF IsBody, IsPartial
<1>4. i.code \notin i.body.rel[p]
  BY <1>1 DEF NobodyRelatesToItself
<1>5. changed[p] \in PartnersFor(p)
  BY <1>1, <1>3 DEF PartnersFor
<1> QED
  BY <1>1, <1>3, <1>4, <1>5 DEF PropertiesOf

\* A new record has no partner.
LEMMA CreateKeepsOne ==
    ASSUME SameKind, OneSided, NobodyRelatesToItself, TypeInv, OnePartner(graph),
           NEW r \in Requests, CreateCommits(r)
    PROVE  OnePartner(graph')
<1>1. PICK i \in Inputs : i = req[r].input
  BY DEF TypeInv, TypeOK, Request
<1>2. PICK changed \in Relations : changed = GetWriteRelationships(i.body)
  BY <1>1, InputType
<1>3. PICK properties : properties = NewProperties(i)
  OBVIOUS
<1>4. PropertyChanges(properties) /\ i.code \in Codes
  BY <1>1, <1>3, InputType, DiffType DEF NewProperties
<1>5. PICK locks \in LockTables : locks = CreateLockedFields(i.client, i.lock, Keys(i.body))
  BY <1>1, InputType, CreateLockedFieldsType
<1>6. PICK created : created = [graph EXCEPT !.stamped = @ \union {i.code}]
  OBVIOUS
<1>7. created \in Graphs /\ created.edges = graph.edges
  BY <1>4, <1>6, TypeOKParts DEF TypeInv, GraphOK, Graphs
<1>8. PICK none \in Relations : none = [p \in RelNames |-> {}]
  BY NoRelations
<1>9. graph' = WriteRelationships(WriteNode(created, i.code, properties, locks), i.code, none, changed)
  BY <1>1, <1>2, <1>3, <1>5, <1>6, <1>8 DEF CreateCommits, Commit, CreateQuery
<1>10. graph'.edges = NewEdges(created, i.code, none, changed)
  <2>1. none \in Relations /\ changed \in Relations /\ locks \in LockTables
    OBVIOUS
  <2> QED
    BY <1>4, <1>7, <1>9, <2>1, WriteEdges
<1>11. OnePartner(created)
  BY <1>7, ReadOfEdges
<1>12. Writable(i.code, changed)
  BY <1>2, InputWritable
<1>13. \A p \in RelNames : Partners(created, i.code, p) = {}
  <2>1. i.code \notin graph.nodes
    BY <1>1 DEF CreateCommits, CreateFails
  <2>2. \A e \in graph.edges : {e[1], e[3]} \subseteq graph.nodes
    BY DEF TypeInv, TypeOK
  <2>3. \A p \in RelNames, m \in Codes : i.code \in {Edge(i.code, p, m)[1], Edge(i.code, p, m)[3]}
    BY <1>4, EdgeType
  <2> QED
    BY <1>7, <2>1, <2>2, <2>3 DEF Partners
<1>14. GivesWay(created, i.code, none, changed)
  BY <1>8, <1>13 DEF GivesWay
<1> QED
  BY <1>4, <1>10, <1>11, <1>12, <1>14, WriteKeepsOne

\* An update that has read the record as it is removes its old partner.
LEMMA MergeGivesWay ==
    ASSUME NEW g, OnePartner(g), NEW i \in Inputs, NEW seen, seen = Content(g, i.code),
           NEW removed, removed = Removed(i, seen), NEW changed, changed = Changed(i, seen)
    PROVE  GivesWay(g, i.code, removed, changed)
<1>1. i.code \in Codes
  BY InputType
<1> SUFFICES ASSUME NEW p \in RelNames, ToOne(p)
             PROVE  /\ removed[p] \subseteq Partners(g, i.code, p)
                    /\ changed[p] # {} => Partners(g, i.code, p) \subseteq removed[p]
  BY DEF GivesWay
<1>2. seen.rel[p] = Partners(g, i.code, p) /\ \A m, n \in seen.rel[p] : m = n
  BY <1>1, OneIsRead DEF OnePartner
<1> DEFINE explicit == FindActualDeletions(seen, i.body, p)
           implicit == FindImplicitDeletions(seen, i.body, Replaces(i), p)
<1>3. removed[p] = IF explicit # {} THEN explicit ELSE implicit
  BY DEF Removed, GetRemovedRelationships
<1>4. explicit \subseteq seen.rel[p] /\ implicit \subseteq seen.rel[p]
  BY DEF FindActualDeletions, FindImplicitDeletions
<1>5. ASSUME changed[p] # {}, NEW z \in seen.rel[p] PROVE z \in removed[p]
  <2>1. p \in DOMAIN i.body.rel /\ i.body.rel[p] \ seen.rel[p] # {}
    BY <1>5 DEF Changed, GetChangedRelationships, GetDiffs, GetWriteRelationships
  <2>2. i.body.rel[p] \in PartnersFor(p)
    <3>1. IsBody(TypeOf[i.code], i.body)
      BY InputAssumption DEF IsInput
    <3> QED
      BY <2>1, <3>1 DEF IsBody
  <2>3. z \notin i.body.rel[p]
    BY <1>5, <2>1, <2>2 DEF PartnersFor
  <2>4. z \in implicit
    BY <1>5, <2>1, <2>3 DEF FindImplicitDeletions
  <2> QED
    BY <1>2, <1>3, <1>4, <1>5, <2>4
<1> QED
  BY <1>2, <1>3, <1>4, <1>5

LEMMA MergeKeepsOne ==
    ASSUME SameKind, OneSided, NobodyRelatesToItself, LockInv, OnePartner(graph),
           NEW r \in Requests, MergeCommits(r)
    PROVE  OnePartner(graph')
<1>1. TypeInv
  BY DEF LockInv
<1>2. PICK i \in Inputs : i = req[r].input
  BY <1>1 DEF TypeInv, TypeOK, Request
<1>3. PICK seen \in Contents : seen = req[r].seen
  BY <1>1 DEF TypeInv, TypeOK, Request
<1>4. PICK changed \in Relations : changed = Changed(i, seen)
  BY <1>2, ChangedType
<1>5. PICK removed \in Relations : removed = Removed(i, seen)
  BY <1>2, <1>3, RemovedType
<1>6. PICK properties : properties = Diff(i, seen)
  OBVIOUS
<1>7. PropertyChanges(properties) /\ i.code \in Codes /\ graph \in Graphs
  BY <1>1, <1>2, <1>6, InputType, DiffType DEF Diff, TypeInv, TypeOK
<1>8. PICK locks \in LockTables : locks = Locks(i, seen)
  BY <1>2, <1>3, InputType, MergeLockedFieldsType DEF Locks, Contents
<1>9. graph' = WriteRelationships(WriteNode(graph, i.code, properties, locks), i.code, removed, changed)
  BY <1>2, <1>3, <1>4, <1>5, <1>6, <1>8 DEF MergeCommits, Commit, MergeQuery
<1>10. graph'.edges = NewEdges(graph, i.code, removed, changed)
  <2>1. removed \in Relations /\ changed \in Relations /\ locks \in LockTables
    OBVIOUS
  <2> QED
    BY <1>7, <1>9, <2>1, WriteEdges
<1>11. Writable(i.code, changed)
  <2>1. \A p \in RelNames : changed[p] \subseteq GetWriteRelationships(i.body)[p]
    BY <1>4 DEF Changed, GetChangedRelationships, GetDiffs
  <2> QED
    BY <2>1, InputWritable
<1>12. seen = Content(graph, i.code)
  BY <1>2, <1>3 DEF LockInv, ReadIsCurrent, MergeCommits
<1>13. GivesWay(graph, i.code, removed, changed)
  BY <1>4, <1>5, <1>12, MergeGivesWay
<1> QED
  BY <1>7, <1>10, <1>11, <1>13, WriteKeepsOne

LEMMA AbsorbCommitsKeepsOne ==
    ASSUME SameKind, TypeInv, OnePartner(graph), NEW r \in Requests, AbsorbCommits(r), BothRead(graph, req[r])
    PROVE  OnePartner(graph')
<1>1. PICK i \in Inputs : i = req[r].input
  BY DEF TypeInv, TypeOK, Request
<1>2. PICK main \in Contents, absorbed \in Contents : main = req[r].seen /\ absorbed = req[r].seenOther
  BY DEF TypeInv, TypeOK, Request
<1>3. PICK removed : removed = CollectRemovedRelationships(i.code, main, absorbed)
  OBVIOUS
<1>4. removed \in Relations
  BY <1>2, <1>3 DEF CollectRemovedRelationships, Relations, Contents
<1>5. /\ i.code \in graph.nodes /\ i.other \in graph.nodes /\ i.code # i.other
      /\ req[r].pc = "absorb"
  BY <1>1 DEF AbsorbCommits, TypeInv, ShapeOK
<1>6. i.code \in Codes /\ i.other \in Codes /\ TypeOf[i.code] = TypeOf[i.other] /\ graph \in Graphs
  BY InputAssumption DEF IsInput, TypeInv, TypeOK
<1>7. main.rel = Content(graph, i.code).rel /\ absorbed.rel = Content(graph, i.other).rel
  BY <1>1, <1>2, <1>5 DEF BothRead
<1>8. \A p \in RelNames : ToOne(p) =>
          removed[p] = (IF Partners(graph, i.code, p) # {}
                        THEN Partners(graph, i.other, p) \ Partners(graph, i.code, p) ELSE {})
                           \union (Partners(graph, i.other, p) \cap {i.code})
  <2> SUFFICES ASSUME NEW p \in RelNames, ToOne(p)
               PROVE  removed[p] = (IF Partners(graph, i.code, p) # {}
                                    THEN Partners(graph, i.other, p) \ Partners(graph, i.code, p) ELSE {})
                                       \union (Partners(graph, i.other, p) \cap {i.code})
    OBVIOUS
  <2>1. main.rel[p] = Partners(graph, i.code, p) /\ absorbed.rel[p] = Partners(graph, i.other, p)
    BY <1>6, <1>7, OneIsRead
  <2>2. removed[p] = (IF ToOne(p) /\ main.rel[p] # {} THEN absorbed.rel[p] \ main.rel[p] ELSE {})
                         \union (absorbed.rel[p] \cap {i.code})
    BY <1>3 DEF CollectRemovedRelationships
  <2> QED
    BY <2>1, <2>2
<1>9. PICK m : m = Joined(graph, i.code, i.other, removed)
  OBVIOUS
<1>10. graph' = DeleteQuery(m, i.other)
  BY <1>1, <1>2, <1>3, <1>9 DEF AbsorbCommits, Commit, AbsorbQuery, Joined, MovedEdges
<1>11. m \in Graphs /\ m.edges = MovedEdges(graph, i.code, i.other, removed)
  BY <1>5, <1>6, <1>9, JoinedType, JoinedFields
<1>12. graph'.edges = MovedEdges(graph, i.code, i.other, removed)
  BY <1>6, <1>10, <1>11, DeleteFields
<1> QED
  BY <1>4, <1>5, <1>6, <1>8, <1>12, AbsorbKeepsOne

-----------------------------------------------------------------------------
(* The invariant holds.                                                    *)
LEMMA HandlerStepKeepsOne ==
    ASSUME SameKind, OneSided, NobodyRelatesToItself, OneInv, NEW r \in Requests, Arrive(r) \/ Handle(r)
    PROVE  OnePartner(graph')
<1>1. CASE Quiet
  BY <1>1 DEF Quiet, OneInv
<1>2. CASE CreateCommits(r)
  BY <1>2, CreateKeepsOne DEF OneInv, LockInv
<1>3. CASE MergeCommits(r)
  BY <1>3, MergeKeepsOne DEF OneInv
<1>4. CASE DeleteCommits(r)
  <2>1. req[r].input.code \in Codes /\ graph \in Graphs
    BY InputType DEF OneInv, LockInv, TypeInv, TypeOK, Request
  <2>2. graph'.edges = graph.edges
    BY <1>4, <2>1, DeleteFields DEF DeleteCommits, Commit
  <2> QED
    BY <2>2, ReadOfEdges DEF OneInv
<1>5. CASE AbsorbCommits(r)
  BY <1>5, AbsorbCommitsKeepsOne DEF OneInv, LockInv
<1> QED
  BY <1>1, <1>2, <1>3, <1>4, <1>5, GraphSteps DEF Arrive

\* While q absorbs, another handler leaves what q has read, or takes away one of
\* the two records.
LEMMA OthersKeepRead ==
    ASSUME AbsorbsKeepToAPair, OneInv, NEW r \in Requests, Arrive(r) \/ Handle(r),
           NEW q \in Requests, q # r
    PROVE  BothRead(graph', req[q])
<1>1. TypeInv /\ Exclusive /\ BothRead(graph, req[q])
  BY DEF OneInv, LockInv
<1>2. CASE req[q].pc \notin {"fetch", "absorb"}
  BY <1>2 DEF BothRead
<1>3. CASE Quiet
  BY <1>1, <1>3 DEF Quiet
<1>4. CASE req[q].pc \in {"fetch", "absorb"} /\ ~ Quiet
  <2>1. /\ CreateCommits(r) \/ MergeCommits(r) \/ DeleteCommits(r) \/ AbsorbCommits(r)
        /\ Handle(r)
    BY <1>4, GraphSteps DEF Arrive
  <2>2. Busy(q) /\ Busy(r) /\ req[q].input.method = "ABSORB"
    BY <1>1, <1>4, <2>1, HandlerIsBusy DEF Busy, TypeInv, ShapeOK
  <2>3. PICK together \in workload.overlap : {req[r].input.method, "ABSORB"} \subseteq together
    BY <1>1, <2>2 DEF Exclusive, Together
  <2>4. /\ workload \in Workloads
        /\ req[r].input.method \in {"ABSORB", "DELETE"}
        /\ \A i, j \in workload.inputs : i.method = "ABSORB" /\ j.method = "ABSORB" =>
              {i.code, i.other} = {j.code, j.other}
    BY <1>1, <2>3 DEF AbsorbsKeepToAPair, TypeInv
  <2>5. ~ CreateCommits(r) /\ ~ MergeCommits(r)
    BY <1>1, <2>4 DEF CreateCommits, MergeCommits, TypeInv, ShapeOK
  <2>6. CASE DeleteCommits(r)
    <3>1. req[r].input.code \in Codes /\ graph \in Graphs
      BY <1>1, InputType DEF TypeInv, TypeOK, Request
    <3>2. graph'.edges = graph.edges /\ graph'.nodes \subseteq graph.nodes
      BY <2>6, <3>1, DeleteFields DEF DeleteCommits, Commit
    <3>3. \A c : Content(graph', c).rel = Content(graph, c).rel
      BY <3>2, ReadOfEdges
    <3> QED
      BY <1>1, <3>2, <3>3 DEF BothRead
  <2>7. CASE AbsorbCommits(r)
    <3>1. graph'.nodes = graph.nodes \ {req[r].input.other} /\ req[r].input.method = "ABSORB"
      BY <1>1, <2>7, AbsorbEffect
    <3>2. req[r].input \in workload.inputs /\ req[q].input \in workload.inputs
      BY <2>2 DEF OneInv, InputsKnown
    <3>3. req[r].input.other \in {req[q].input.code, req[q].input.other}
      BY <2>2, <2>4, <3>1, <3>2
    <3> QED
      BY <3>1, <3>3 DEF BothRead
  <2> QED
    BY <2>1, <2>5, <2>6, <2>7
<1> QED
  BY <1>2, <1>3, <1>4

LEMMA HandlerStepOne ==
    ASSUME SameKind, OneSided, NobodyRelatesToItself, AbsorbsKeepToAPair, OneInv,
           NEW r \in Requests, Arrive(r) \/ Handle(r), UNCHANGED workload
    PROVE  InputsKnown' /\ (\A q \in Requests : BothRead(graph, req[q]))' /\ OnePartner(graph)'
<1>1. TypeInv
  BY DEF OneInv, LockInv
<1>2. InputsKnown'
  BY <1>1, HandlerStepInputs DEF OneInv
<1>3. OnePartner(graph')
  BY HandlerStepKeepsOne
<1>4. \A q \in Requests \ {r} : req'[q] = req[q]
  <2>1. PICK k \in Request : Becomes(r, k)
    BY <1>1, ArriveBecomes, HandleBecomes
  <2> QED
    BY <1>1, <2>1 DEF Becomes, TypeInv, TypeOK
<1>5. ASSUME NEW q \in Requests PROVE BothRead(graph', req'[q])
  <2>1. CASE q = r
    BY <1>1, <2>1, OwnStepReads DEF OneInv
  <2>2. CASE q # r
    BY <1>4, <2>2, OthersKeepRead
  <2> QED
    BY <2>1, <2>2
<1> QED
  BY <1>2, <1>3, <1>5

LEMMA NextOne ==
    ASSUME SameKind, OneSided, NobodyRelatesToItself, UpdatesRunAlone, AbsorbsKeepToAPair,
           OneInv, [Next]_vars
    PROVE  OneInv'
<1>1. LockInv'
  BY NextReads DEF OneInv
<1>2. CASE UNCHANGED vars
  <2>1. graph' = graph /\ req' = req /\ workload' = workload
    BY <1>2 DEF vars
  <2> QED
    BY <1>1, <2>1 DEF OneInv, InputsKnown, Busy
<1>3. CASE Next
  BY <1>1, <1>3, HandlerStepOne DEF Next, OneInv
<1> QED
  BY <1>2, <1>3

LEMMA InitOne == Init => OneInv
<1> SUFFICES ASSUME Init PROVE OneInv
  OBVIOUS
<1>1. \A r \in Requests : req[r].pc = "idle"
  BY NoRequestType DEF Init
<1>2. LockInv
  BY <1>1, InitType, InitExclusive DEF LockInv, ReadIsCurrent
<1>3. InputsKnown /\ \A r \in Requests : BothRead(graph, req[r])
  BY <1>1 DEF InputsKnown, Busy, BothRead
<1>4. OnePartner(graph)
  BY DEF Init, EmptyGraph, OnePartner, Partners
<1> QED
  BY <1>2, <1>3, <1>4 DEF OneInv

\* A property with one value has one partner at most, from whichever end and by
\* whichever synonym relationships are written, replaced or absorbed: the schema
\* has one value at no more than one end, no record is related to itself, nothing
\* runs beside an update, and beside an ABSORB only those of the same two records
\* and DELETEs.
THEOREM OneValueOnePartner ==
    ASSUME SameKind, OneSided, NobodyRelatesToItself, UpdatesRunAlone, AbsorbsKeepToAPair
    PROVE  Spec => []ToOneHolds
<1>1. Init => OneInv
  BY InitOne
<1>2. OneInv /\ [Next]_vars => OneInv'
  BY NextOne
<1>3. OneInv => ToOneHolds
  <2>1. OneInv => graph.nodes \subseteq Codes
    BY DEF OneInv, LockInv, TypeInv, TypeOK, Graphs
  <2> QED
    BY <2>1 DEF OneInv, OnePartner, ToOneHolds
<1> QED
  BY <1>1, <1>2, <1>3, PTL DEF Spec

-----------------------------------------------------------------------------
(* The writes as AtomicGraph has them.  Its operators are those of          *)
(* GraphQueries and of the modules that one extends.                        *)
LEMMA AtomicOperators ==
    /\ \A g, c, p : Atomic!Partners(g, c, p) = Partners(g, c, p)
    /\ \A c, p, m : Atomic!Edge(c, p, m) = Edge(c, p, m)
    /\ \A p : Atomic!ToOne(p) <=> ToOne(p)
    /\ \A p : Atomic!FindInversePropertyNames(p) = FindInversePropertyNames(p)
    /\ \A body : Atomic!Keys(body) = Keys(body)
    /\ \A names, keys : Atomic!NormalizeFields(names, keys) = NormalizeFields(names, keys)
    /\ Atomic!LockNames = LockNames
    /\ Atomic!NoLocks = NoLocks
    /\ Atomic!NoProperties = NoProperties
    /\ Atomic!EmptyGraph = EmptyGraph
<1>1. \A c, p, m : Atomic!Edge(c, p, m) = Edge(c, p, m)
  BY DEF Atomic!Edge, Edge
<1>2. \A g, c, p : Atomic!Partners(g, c, p) = Partners(g, c, p)
  BY <1>1 DEF Atomic!Partners, Partners
<1>3. \A p : Atomic!ToOne(p) <=> ToOne(p)
  BY DEF Atomic!ToOne, ToOne
<1>4. \A p : Atomic!FindInversePropertyNames(p) = FindInversePropertyNames(p)
  BY DEF Atomic!FindInversePropertyNames, FindInversePropertyNames,
         Atomic!FindPropertyNamesFromPropertyDef, FindPropertyNamesFromPropertyDef,
         Atomic!PropertiesOf, PropertiesOf, Atomic!InvertDirection, InvertDirection
<1>5. \A p : Atomic!Not(p) = Not(p)
  BY DEF Atomic!Not, Not
<1>6. \A body : Atomic!Keys(body) = Keys(body)
  BY <1>5 DEF Atomic!Keys, Keys
<1>7. \A names, keys : Atomic!NormalizeFields(names, keys) = NormalizeFields(names, keys)
  BY DEF Atomic!NormalizeFields, NormalizeFields
<1>8. Atomic!LockNames = LockNames
  BY <1>5 DEF Atomic!LockNames, LockNames
<1>9. Atomic!NoLocks = NoLocks /\ Atomic!NoProperties = NoProperties
  BY <1>8 DEF Atomic!NoLocks, NoLocks, Atomic!NoProperties, NoProperties
<1>10. Atomic!EmptyGraph = EmptyGraph
  BY <1>9 DEF Atomic!EmptyGraph, EmptyGraph
<1> QED
  BY <1>1, <1>2, <1>3, <1>4, <1>6, <1>7, <1>8, <1>9, <1>10

-----------------------------------------------------------------------------
(* A write of relationships, without differences.  Of the mentioned         *)
(* properties no two are synonyms; becomes has the partners they end with.  *)
NoSynonyms(mentioned) == \A p, q \in mentioned : q \in FindPropertyNames(p) => p = q

Difference(g, code, mentioned, becomes, removed, changed) ==
    \A p \in RelNames :
        /\ removed[p] \subseteq Partners(g, code, p)
        /\ p \notin mentioned => removed[p] = {} /\ changed[p] = {}
        /\ p \in mentioned =>
              /\ becomes[p] = (Partners(g, code, p) \ removed[p]) \union changed[p]
              /\ changed[p] \cap Partners(g, code, p) = {}

LEMMA NothingShared ==
    ASSUME NEW mentioned \in SUBSET RelNames, NoSynonyms(mentioned), NEW relationships \in Relations,
           \A p \in RelNames \ mentioned : relationships[p] = {}
    PROVE  SharedParameter(relationships) = relationships
<1>1. ASSUME NEW p \in RelNames PROVE SharedParameter(relationships)[p] = relationships[p]
  <2>1. CASE relationships[p] = {}
    BY <2>1 DEF SharedParameter
  <2>2. CASE relationships[p] # {}
    <3>1. p \in FindPropertyNames(p) /\ FindPropertyNames(p) \subseteq RelNames
      BY DEF FindPropertyNames, FindPropertyNamesFromPropertyDef, PropertiesOf
    <3>2. PICK q : q = CHOOSE n \in FindPropertyNames(p) : relationships[n] # {}
      OBVIOUS
    <3>3. q \in FindPropertyNames(p) /\ relationships[q] # {}
      BY <2>2, <3>1, <3>2
    <3>4. q = p
      BY <2>2, <3>1, <3>3 DEF NoSynonyms
    <3> QED
      BY <2>2, <3>2, <3>4 DEF SharedParameter
  <2> QED
    BY <2>1, <2>2
<1>2. SharedParameter(relationships) \in Relations
  BY SharedType
<1> QED
  BY <1>1, <1>2 DEF Relations

\* Two properties of a record that show the same relationship are synonyms.
LEMMA ShowTheSame ==
    ASSUME NEW g, NEW code, NEW p \in RelNames, NEW q \in RelNames,
           NEW m \in Partners(g, code, p), NEW n \in Partners(g, code, q),
           Edge(code, p, m) = Edge(code, q, n)
    PROVE  q \in FindPropertyNames(p) /\ m = n
<1>1. /\ Def[p].of = Def[q].of /\ Def[p].type = TypeOf[m] /\ Def[q].type = TypeOf[n]
      /\ m = code => Def[p].direction = "outgoing"
      /\ n = code => Def[q].direction = "outgoing"
  BY DEF Partners
<1>2. /\ Def[p].relationship = Def[q].relationship
      /\ \/ Def[p].direction = Def[q].direction /\ n = m
         \/ Def[p].direction = InvertDirection(Def[q].direction) /\ code = m /\ n = code
  BY SameEdge
<1>3. Def[p].direction = Def[q].direction /\ n = m
  BY <1>1, <1>2 DEF InvertDirection
<1> QED
  BY <1>1, <1>2, <1>3 DEF FindPropertyNames, FindPropertyNamesFromPropertyDef, PropertiesOf

Shows(g, code, p) == {Edge(code, p, m) : m \in Partners(g, code, p)}

Ends(code, mentioned, becomes) == UNION {{Edge(code, p, m) : m \in becomes[p]} : p \in mentioned}

Takes(g, code, mentioned, becomes) ==
    {e \in g.edges : \E p \in mentioned :
        /\ \E q \in FindInversePropertyNames(p) : ToOne(q)
        /\ \E m \in becomes[p] \ Partners(g, code, p), other \in Codes \ {code} : e = Edge(other, p, m)}

LEMMA ConflictsAreTaken ==
    ASSUME OneSided, NEW g, NEW code, NEW mentioned \in SUBSET RelNames, NEW becomes,
           NEW removed \in Relations, NEW changed \in Relations,
           Difference(g, code, mentioned, becomes, removed, changed)
    PROVE  Conflicting(g, code, changed) = Takes(g, code, mentioned, becomes)
<1>1. \A p \in mentioned : becomes[p] \ Partners(g, code, p) = changed[p]
  BY DEF Difference
<1>2. \A p \in RelNames, m \in Codes : m \in changed[p] => p \in mentioned
  BY DEF Difference
<1>3. \A p \in RelNames : changed[p] \subseteq Codes
  BY DEF Relations
<1>4. \A p \in RelNames : \A q \in FindInversePropertyNames(p) : ToOne(q) => ~ ToOne(p)
  <2> SUFFICES ASSUME NEW p \in RelNames, NEW q \in FindInversePropertyNames(p), ToOne(q)
               PROVE  ~ ToOne(p)
    OBVIOUS
  <2>1. /\ q \in RelNames /\ Def[q].relationship = Def[p].relationship
        /\ Def[q].direction = InvertDirection(Def[p].direction)
        /\ Def[q].of = Def[p].type /\ Def[q].type = Def[p].of
    BY DEF FindInversePropertyNames, FindPropertyNamesFromPropertyDef, PropertiesOf
  <2>2. p \in FindInversePropertyNames(q)
    BY <2>1, InverseFacts
  <2> QED
    BY <2>1, <2>2 DEF OneSided
<1>5. ASSUME NEW e \in Conflicting(g, code, changed) PROVE e \in Takes(g, code, mentioned, becomes)
  BY <1>1, <1>2, <1>3 DEF Conflicting, Takes, Named
<1>6. ASSUME NEW e \in Takes(g, code, mentioned, becomes) PROVE e \in Conflicting(g, code, changed)
  BY <1>1, <1>4 DEF Conflicting, Takes, Named
<1> QED
  BY <1>5, <1>6

LEMMA DifferenceIsWritten ==
    ASSUME OneSided, NEW g, NEW code \in Codes, NEW mentioned \in SUBSET RelNames, NoSynonyms(mentioned),
           NEW becomes, NEW removed \in Relations, NEW changed \in Relations,
           Difference(g, code, mentioned, becomes, removed, changed),
           \A p \in RelNames : code \notin changed[p]
    PROVE  NewEdges(g, code, removed, changed) =
               (g.edges \ (Takes(g, code, mentioned, becomes)
                              \union UNION {Shows(g, code, p) : p \in mentioned}))
                   \union Ends(code, mentioned, becomes)
<1>1. SharedParameter(removed) = removed /\ SharedParameter(changed) = changed
  BY NothingShared DEF Difference
<1>2. PICK taken : taken = Takes(g, code, mentioned, becomes)
  OBVIOUS
<1>3. NewEdges(g, code, removed, changed) =
          ((g.edges \ Edges(code, removed)) \ taken) \union Edges(code, changed)
  BY <1>1, <1>2, ConflictsAreTaken DEF NewEdges
<1>4. ASSUME NEW e \in Edges(code, removed)
      PROVE  \E p \in mentioned : \E m \in removed[p] : m \in Partners(g, code, p) /\ e = Edge(code, p, m)
  BY DEF Edges, Difference
<1>5. ASSUME NEW e \in Edges(code, changed)
      PROVE  e \in Ends(code, mentioned, becomes)
  <2>1. PICK p \in RelNames : \E m \in changed[p] : e = Edge(code, p, m)
    BY DEF Edges
  <2>2. p \in mentioned /\ changed[p] \subseteq becomes[p]
    BY <2>1 DEF Difference
  <2> QED
    BY <2>1, <2>2 DEF Ends
<1>6. ASSUME NEW p \in mentioned, NEW m \in Partners(g, code, p) \ removed[p]
      PROVE  /\ Edge(code, p, m) \in (g.edges \ Edges(code, removed)) \ taken
             /\ Edge(code, p, m) \in Ends(code, mentioned, becomes)
  <2>1. Edge(code, p, m) \in g.edges /\ m \in Codes
    BY DEF Partners
  <2>2. Edge(code, p, m) \notin Edges(code, removed)
    <3> SUFFICES ASSUME NEW q \in mentioned, NEW n \in removed[q],
                        n \in Partners(g, code, q), Edge(code, p, m) = Edge(code, q, n)
                 PROVE  FALSE
      BY <1>4
    <3> QED
      BY ShowTheSame DEF NoSynonyms
  <2>3. Edge(code, p, m) \notin taken
    <3> SUFFICES ASSUME NEW q \in mentioned, NEW n \in becomes[q] \ Partners(g, code, q),
                        NEW other \in Codes \ {code}, Edge(code, p, m) = Edge(other, q, n)
                 PROVE  FALSE
      BY <1>2 DEF Takes
    <3>1. n \in changed[q] /\ n # code
      BY DEF Difference
    <3> QED
      BY <3>1 DEF Edge
  <2>4. m \in becomes[p]
    BY DEF Difference
  <2> QED
    BY <2>1, <2>2, <2>3, <2>4 DEF Ends
<1>7. ASSUME NEW e \in g.edges, e \notin Edges(code, removed), NEW p \in mentioned, e \in Shows(g, code, p)
      PROVE  e \in Ends(code, mentioned, becomes)
  <2>1. PICK m \in Partners(g, code, p) : e = Edge(code, p, m)
    BY <1>7 DEF Shows
  <2>2. m \notin removed[p]
    BY <1>7, <2>1 DEF Edges
  <2> QED
    BY <1>6, <2>1, <2>2
<1>8. ASSUME NEW e \in Ends(code, mentioned, becomes)
      PROVE  e \in Edges(code, changed) \/ e \in (g.edges \ Edges(code, removed)) \ taken
  <2>1. PICK p \in mentioned : \E m \in becomes[p] : e = Edge(code, p, m)
    BY DEF Ends
  <2>2. PICK m \in becomes[p] : e = Edge(code, p, m)
    BY <2>1
  <2>3. m \in changed[p] \/ m \in Partners(g, code, p) \ removed[p]
    BY DEF Difference
  <2>4. m \in changed[p] => e \in Edges(code, changed)
    BY <2>2 DEF Edges
  <2> QED
    BY <1>6, <2>2, <2>3, <2>4
<1>9. ASSUME NEW e \in Edges(code, removed)
      PROVE  e \in UNION {Shows(g, code, p) : p \in mentioned}
  BY <1>4 DEF Shows
<1> QED
  BY <1>2, <1>3, <1>5, <1>7, <1>8, <1>9

-----------------------------------------------------------------------------
(* What a body mentions: nothing twice under two names, and no property     *)
(* with many values both replaced and removed from, where the removal would *)
(* be all that happens (input.js).                                          *)
NothingMentionedTwice == \A i \in Inputs : NoSynonyms(Atomic!Mentioned(i))

RemovesOrReplaces ==
    \A i \in Inputs : \A p \in DOMAIN i.body.rel \cap DOMAIN i.body.drop :
        "replace" \notin i.flags \/ ToOne(p)

After(i) == [p \in Atomic!Mentioned(i) |-> Atomic!PartnersAfter(i, p)]

LEMMA MentionedFacts ==
    ASSUME NEW i \in Inputs
    PROVE  /\ Atomic!Mentioned(i) \in SUBSET RelNames
           /\ \A p \in RelNames \ Atomic!Mentioned(i) :
                 p \notin i.body.clear /\ p \notin DOMAIN i.body.rel /\ p \notin DOMAIN i.body.drop
           /\ \A p \in i.body.clear : p \notin DOMAIN i.body.rel /\ p \notin DOMAIN i.body.drop
           /\ \A p \in DOMAIN i.body.rel : p \in RelNames /\ i.body.rel[p] \in PartnersFor(p)
           /\ \A p \in DOMAIN i.body.rel \cap DOMAIN i.body.drop : i.body.rel[p] \cap i.body.drop[p] = {}
<1>1. IsBody(TypeOf[i.code], i.body)
  BY InputAssumption DEF IsInput
<1> QED
  BY <1>1 DEF IsBody, IsPartial, PropertiesOf, Atomic!Mentioned

LEMMA PartnersAfterIs ==
    ASSUME NEW i \in Inputs, NEW p \in Atomic!Mentioned(i), NEW before, before = Partners(graph, i.code, p)
    PROVE  /\ p \in i.body.clear => Atomic!PartnersAfter(i, p) = {}
           /\ p \in DOMAIN i.body.rel /\ (Replaces(i) \/ ToOne(p)) =>
                 Atomic!PartnersAfter(i, p) = i.body.rel[p]
           /\ p \in DOMAIN i.body.rel /\ ~ (Replaces(i) \/ ToOne(p)) /\ p \in DOMAIN i.body.drop =>
                 Atomic!PartnersAfter(i, p) = (before \ i.body.drop[p]) \union i.body.rel[p]
           /\ p \in DOMAIN i.body.rel /\ ~ (Replaces(i) \/ ToOne(p)) /\ p \notin DOMAIN i.body.drop =>
                 Atomic!PartnersAfter(i, p) = before \union i.body.rel[p]
           /\ p \notin DOMAIN i.body.rel /\ p \in DOMAIN i.body.drop =>
                 Atomic!PartnersAfter(i, p) = before \ i.body.drop[p]
<1>1. p \in i.body.clear => p \notin DOMAIN i.body.rel /\ p \notin DOMAIN i.body.drop
  BY MentionedFacts
<1>2. Atomic!Partners(graph, i.code, p) = before /\ (Atomic!ToOne(p) <=> ToOne(p))
  BY AtomicOperators
<1> QED
  BY <1>1, <1>2 DEF Atomic!PartnersAfter, Replaces

LEMMA MergeDifference ==
    ASSUME RemovesOrReplaces, NEW i \in Inputs, OnePartner(graph),
           NEW seen, seen.rel = Content(graph, i.code).rel
    PROVE  Difference(graph, i.code, Atomic!Mentioned(i), After(i), Removed(i, seen), Changed(i, seen))
<1> DEFINE before(p) == Partners(graph, i.code, p)
           explicit(p) == FindActualDeletions(seen, i.body, p)
           implicit(p) == FindImplicitDeletions(seen, i.body, Replaces(i), p)
<1>1. \A p \in RelNames : seen.rel[p] = before(p)
  <2> TAKE p \in RelNames
  <2>1. i.code \in Codes
    BY InputType
  <2> QED
    BY <2>1, OneIsRead DEF Content
<1>2. \A p \in RelNames :
          /\ Removed(i, seen)[p] = IF explicit(p) # {} THEN explicit(p) ELSE implicit(p)
          /\ Changed(i, seen)[p] = IF p \in DOMAIN i.body.rel THEN i.body.rel[p] \ before(p) ELSE {}
  BY <1>1 DEF Removed, GetRemovedRelationships, Changed, GetChangedRelationships, GetDiffs, GetWriteRelationships
<1>3. \A p \in RelNames :
          /\ explicit(p) = CASE p \in i.body.clear       -> before(p)
                             [] p \in DOMAIN i.body.drop -> i.body.drop[p] \cap before(p)
                             [] OTHER                    -> {}
          /\ implicit(p) = IF p \in DOMAIN i.body.rel /\ (Replaces(i) \/ ToOne(p))
                           THEN before(p) \ i.body.rel[p] ELSE {}
  BY <1>1 DEF FindActualDeletions, FindImplicitDeletions
<1>4. \A p \in RelNames : ToOne(p) => \A m, n \in before(p) : m = n
  <2>1. i.code \in Codes
    BY InputType
  <2> QED
    BY <2>1 DEF OnePartner
<1> HIDE DEF before, explicit, implicit
<1> SUFFICES ASSUME NEW p \in RelNames
             PROVE  /\ Removed(i, seen)[p] \subseteq before(p)
                    /\ p \notin Atomic!Mentioned(i) => Removed(i, seen)[p] = {} /\ Changed(i, seen)[p] = {}
                    /\ p \in Atomic!Mentioned(i) =>
                          /\ After(i)[p] = (before(p) \ Removed(i, seen)[p]) \union Changed(i, seen)[p]
                          /\ Changed(i, seen)[p] \cap before(p) = {}
  BY DEF Difference, before
<1>5. p \in i.body.clear => p \notin DOMAIN i.body.rel /\ p \notin DOMAIN i.body.drop
  BY MentionedFacts
<1>6. /\ p \in i.body.clear => explicit(p) = before(p)
      /\ p \in DOMAIN i.body.drop => explicit(p) = i.body.drop[p] \cap before(p)
      /\ p \notin i.body.clear /\ p \notin DOMAIN i.body.drop => explicit(p) = {}
  BY <1>3, <1>5
<1>7. /\ explicit(p) \subseteq before(p) /\ implicit(p) \subseteq before(p)
      /\ p \notin Atomic!Mentioned(i) => explicit(p) = {} /\ implicit(p) = {} /\ p \notin DOMAIN i.body.rel
  BY <1>3, <1>6, MentionedFacts
<1>8. ASSUME p \in Atomic!Mentioned(i)
      PROVE  After(i)[p] = (before(p) \ Removed(i, seen)[p]) \union Changed(i, seen)[p]
  <2>1. PICK after : after = After(i)[p] /\ after = Atomic!PartnersAfter(i, p)
    BY <1>8 DEF After
  <2>2. CASE p \in i.body.clear
    <3>1. after = {} /\ Changed(i, seen)[p] = {}
      BY <1>2, <1>5, <1>8, <2>1, <2>2, PartnersAfterIs
    <3>2. Removed(i, seen)[p] = before(p)
      BY <1>2, <1>3, <1>5, <1>6, <2>2
    <3> QED
      BY <2>1, <3>1, <3>2
  <2>3. CASE p \in DOMAIN i.body.rel /\ (Replaces(i) \/ ToOne(p))
    <3>1. after = i.body.rel[p] /\ Changed(i, seen)[p] = i.body.rel[p] \ before(p)
      BY <1>2, <1>8, <2>1, <2>3, PartnersAfterIs
    <3>2. Removed(i, seen)[p] = before(p) \ i.body.rel[p]
      <4>1. implicit(p) = before(p) \ i.body.rel[p]
        BY <1>3, <2>3
      <4>2. CASE explicit(p) = {}
        BY <1>2, <4>1, <4>2
      <4>3. CASE explicit(p) # {}
        <5>1. p \in DOMAIN i.body.drop /\ explicit(p) = i.body.drop[p] \cap before(p)
          BY <1>5, <1>6, <2>3, <4>3
        <5>2. ToOne(p) /\ i.body.rel[p] \cap i.body.drop[p] = {}
          BY <2>3, <5>1, MentionedFacts DEF RemovesOrReplaces, Replaces
        <5>3. before(p) = explicit(p)
          BY <1>4, <4>3, <5>1, <5>2
        <5> QED
          BY <1>2, <4>3, <5>1, <5>2, <5>3
      <4> QED
        BY <4>2, <4>3
    <3> QED
      BY <2>1, <3>1, <3>2
  <2>4. CASE p \in DOMAIN i.body.rel /\ ~ (Replaces(i) \/ ToOne(p))
    <3>1. Removed(i, seen)[p] = explicit(p) /\ Changed(i, seen)[p] = i.body.rel[p] \ before(p)
      BY <1>2, <1>3, <2>4
    <3>2. CASE p \in DOMAIN i.body.drop
      <4>1. after = (before(p) \ i.body.drop[p]) \union i.body.rel[p]
        BY <1>8, <2>1, <2>4, <3>2, PartnersAfterIs DEF before
      <4>2. i.body.rel[p] \cap i.body.drop[p] = {}
        BY <2>4, <3>2, MentionedFacts
      <4> QED
        BY <1>6, <2>1, <3>1, <3>2, <4>1, <4>2
    <3>3. CASE p \notin DOMAIN i.body.drop
      <4>1. after = before(p) \union i.body.rel[p]
        BY <1>8, <2>1, <2>4, <3>3, PartnersAfterIs DEF before
      <4> QED
        BY <1>5, <1>6, <2>1, <2>4, <3>1, <3>3, <4>1
    <3> QED
      BY <3>2, <3>3
  <2>5. CASE p \notin DOMAIN i.body.rel /\ p \in DOMAIN i.body.drop
    <3>1. after = before(p) \ i.body.drop[p] /\ Changed(i, seen)[p] = {}
      BY <1>2, <1>8, <2>1, <2>5, PartnersAfterIs DEF before
    <3>2. Removed(i, seen)[p] = i.body.drop[p] \cap before(p)
      BY <1>2, <1>3, <1>6, <2>5
    <3> QED
      BY <2>1, <3>1, <3>2
  <2> QED
    BY <1>8, <2>2, <2>3, <2>4, <2>5 DEF Atomic!Mentioned
<1>9. Removed(i, seen)[p] \subseteq before(p) /\ Changed(i, seen)[p] \cap before(p) = {}
  BY <1>2, <1>7
<1>10. p \notin Atomic!Mentioned(i) => Removed(i, seen)[p] = {} /\ Changed(i, seen)[p] = {}
  BY <1>2, <1>7
<1> QED
  BY <1>8, <1>9, <1>10

\* A new record: nothing is removed.
LEMMA CreateDifference ==
    ASSUME NEW i \in Inputs, \A p \in RelNames : Partners(graph, i.code, p) = {},
           NEW none, none = [p \in RelNames |-> {}]
    PROVE  Difference(graph, i.code, Atomic!Mentioned(i), After(i), none, GetWriteRelationships(i.body))
<1> DEFINE changed == GetWriteRelationships(i.body)
<1> SUFFICES ASSUME NEW p \in RelNames
             PROVE  /\ none[p] = {}
                    /\ p \notin Atomic!Mentioned(i) => changed[p] = {}
                    /\ p \in Atomic!Mentioned(i) => After(i)[p] = changed[p]
  BY DEF Difference
<1>1. changed[p] = IF p \in DOMAIN i.body.rel THEN i.body.rel[p] ELSE {}
  BY DEF GetWriteRelationships
<1>2. p \notin Atomic!Mentioned(i) => changed[p] = {}
  BY <1>1, MentionedFacts
<1>3. ASSUME p \in Atomic!Mentioned(i) PROVE After(i)[p] = changed[p]
  <2>1. After(i)[p] = Atomic!PartnersAfter(i, p)
    BY <1>3 DEF After
  <2>2. CASE p \in DOMAIN i.body.rel
    <3>1. PICK before : before = Partners(graph, i.code, p)
      OBVIOUS
    <3>2. \/ Atomic!PartnersAfter(i, p) = i.body.rel[p]
          \/ Atomic!PartnersAfter(i, p) = (before \ i.body.drop[p]) \union i.body.rel[p]
          \/ Atomic!PartnersAfter(i, p) = before \union i.body.rel[p]
      BY <1>3, <2>2, <3>1, PartnersAfterIs
    <3>3. before = {}
      BY <3>1
    <3> QED
      BY <1>1, <2>1, <2>2, <3>2, <3>3
  <2>3. CASE p \notin DOMAIN i.body.rel
    <3>1. p \in i.body.clear \/ p \in DOMAIN i.body.drop
      BY <1>3, <2>3 DEF Atomic!Mentioned
    <3>2. Atomic!PartnersAfter(i, p) = {}
      BY <1>3, <2>3, <3>1, PartnersAfterIs
    <3> QED
      BY <1>1, <2>1, <2>3, <3>2
  <2> QED
    BY <2>2, <2>3
<1> QED
  BY <1>2, <1>3

-----------------------------------------------------------------------------
(* A write, field by field.                                                *)
Row(g, code, properties) ==
    [p \in Plain |-> IF p \in DOMAIN properties THEN properties[p] ELSE g.prop[code][p]]

CreatedBeside(g, code, changed) ==
    (UNION {SharedParameter(changed)[p] : p \in RelNames}) \ (g.nodes \union {code})

WrittenInFull(g, code, properties, locks, removed, changed, w) ==
    /\ w \in Graphs
    /\ w.nodes = g.nodes \union {code} \union CreatedBeside(g, code, changed)
    /\ w.stamped = g.stamped \union CreatedBeside(g, code, changed)
    /\ w.prop = [g.prop EXCEPT ![code] = Row(g, code, properties)]
    /\ w.lock = [g.lock EXCEPT ![code] = locks]
    /\ w.edges = NewEdges(g, code, removed, changed)

LEMMA WriteFields ==
    ASSUME NEW g, g \in Graphs, NEW code \in Codes,
           NEW properties, PropertyChanges(properties), NEW locks \in LockTables,
           NEW removed \in Relations, NEW changed \in Relations
    PROVE  \A w : w = WriteRelationships(WriteNode(g, code, properties, locks), code, removed, changed)
                      => WrittenInFull(g, code, properties, locks, removed, changed, w)
<1> SUFFICES ASSUME NEW w, w = WriteRelationships(WriteNode(g, code, properties, locks), code, removed, changed)
             PROVE  WrittenInFull(g, code, properties, locks, removed, changed, w)
  OBVIOUS
<1>1. PICK n : n = WriteNode(g, code, properties, locks)
  OBVIOUS
<1>2. n \in Graphs /\ n.nodes = g.nodes \union {code} /\ n.stamped = g.stamped
  BY <1>1, WriteNodeType, WriteNodeFields
<1>3. n.lock = [g.lock EXCEPT ![code] = locks]
  BY <1>1, WriteNodeLocks
<1>4. n.prop = [g.prop EXCEPT ![code] = Row(g, code, properties)]
  <2>1. PICK row : row = Row(g, code, properties)
    OBVIOUS
  <2>2. n.prop = [g.prop EXCEPT ![code] = row]
    BY <1>1, <2>1 DEF WriteNode, Graphs, Row
  <2> QED
    BY <2>1, <2>2
<1>5. /\ w.nodes = n.nodes \union NewNodes(n, changed)
      /\ w.stamped = n.stamped \union NewNodes(n, changed)
      /\ w.prop = n.prop /\ w.lock = n.lock /\ w \in Graphs
  BY <1>1, <1>2, WriteRelationshipsFields, WriteRelationshipsType
<1>6. NewNodes(n, changed) = CreatedBeside(g, code, changed)
  BY <1>2 DEF NewNodes, CreatedBeside
<1>7. w.edges = NewEdges(g, code, removed, changed)
  BY WriteEdges
<1> QED
  BY <1>2, <1>3, <1>4, <1>5, <1>6, <1>7 DEF WrittenInFull

LEMMA GraphsOfFields ==
    ASSUME NEW g \in Graphs
    PROVE  g = [nodes |-> g.nodes, stamped |-> g.stamped, prop |-> g.prop, lock |-> g.lock, edges |-> g.edges]
BY DEF Graphs

\* The relationships of an atomic write.
LEMMA AtomicEdges ==
    ASSUME NEW i
    PROVE  Atomic!Others(i) \union Atomic!After(i) =
               (graph.edges \ (Takes(graph, i.code, Atomic!Mentioned(i), After(i))
                                  \union UNION {Shows(graph, i.code, p) : p \in Atomic!Mentioned(i)}))
                   \union Ends(i.code, Atomic!Mentioned(i), After(i))
<1>1. Atomic!TakenAway(i) = Takes(graph, i.code, Atomic!Mentioned(i), After(i))
  BY AtomicOperators DEF Atomic!TakenAway, Takes, After
<1>2. \A p : Atomic!ShownBy(i.code, p) = Shows(graph, i.code, p)
  BY AtomicOperators DEF Atomic!ShownBy, Shows
<1>3. Atomic!After(i) = Ends(i.code, Atomic!Mentioned(i), After(i))
  BY AtomicOperators DEF Atomic!After, Ends, After
<1> QED
  BY <1>1, <1>2, <1>3 DEF Atomic!Others

LEMMA KeysKnown ==
    ASSUME NEW i \in Inputs
    PROVE  Keys(i.body) \subseteq LockNames /\ LockFieldList(i.lock, Keys(i.body)) \subseteq LockNames
<1>1. IsBody(TypeOf[i.code], i.body) /\ i.lock \in FieldLists
  BY InputAssumption DEF IsInput
<1>2. Keys(i.body) \subseteq LockNames
  BY <1>1 DEF Keys, LockNames, IsBody, IsPartial, PropertiesOf
<1> QED
  BY <1>1, <1>2 DEF LockFieldList, NormalizeFields, FieldLists

\* An update that has not been refused is permitted, and sets the locks.
LEMMA MergeSetsLocks ==
    ASSUME NEW i \in Inputs, i.method = "PATCH", i.code \in graph.nodes, graph \in Graphs,
           NEW seen, seen.lock = graph.lock[i.code], Refusal(i, seen) = 0
    PROVE  Atomic!Permitted(i) /\ Locks(i, seen) = Atomic!LocksAfter(i)
<1>1. ~ Anonymous(i.client, i.lock, Keys(i.body)) /\ ~ Clashes(i.client, i.lock, i.unlock, Keys(i.body), seen.lock)
  BY DEF Refusal
<1>2. Atomic!ToLock(i) = LockFieldList(i.lock, Keys(i.body))
  BY AtomicOperators DEF Atomic!ToLock, LockFieldList
<1>3. seen.lock \in LockTables
  <2>1. graph.lock \in [Codes -> LockTables] /\ i.code \in Codes
    BY InputType DEF Graphs
  <2> QED
    BY <2>1
<1>4. ASSUME NEW k \in LockNames, Atomic!Forbidden(i, k)
      PROVE  k \notin Keys(i.body) /\ k \notin LockFieldList(i.lock, Keys(i.body))
  <2>1. /\ seen.lock[k] \notin {NoClient, i.client}
        /\ i.unlock # AllFields /\ k \notin NormalizeFields(i.unlock, {})
    BY <1>4, AtomicOperators DEF Atomic!Forbidden
  <2>2. k \notin Keys(i.body)
    BY <1>1, <1>3, <2>1, ForeignLocksKept
  <2>3. RemoveLockedFields(i.unlock, seen.lock)[k] = seen.lock[k]
    BY <2>1 DEF RemoveLockedFields
  <2> QED
    BY <1>1, <2>1, <2>2, <2>3 DEF Clashes, TakenBy
<1>5. Atomic!Permitted(i)
  BY <1>1, <1>2, <1>4, KeysKnown, AtomicOperators DEF Atomic!Permitted, Anonymous
<1>6. Locks(i, seen) = Atomic!LocksAfter(i)
  <2>1. \A k \in LockNames : RemoveLockedFields(i.unlock, seen.lock)[k] =
            IF i.unlock = AllFields \/ k \in NormalizeFields(i.unlock, {}) THEN NoClient ELSE seen.lock[k]
    BY DEF RemoveLockedFields
  <2> QED
    BY <1>2, <2>1, AtomicOperators DEF Locks, MergeLockedFields, SetLockedFields, Atomic!LocksAfter
<1> QED
  BY <1>5, <1>6

LEMMA CreateSetsLocks ==
    ASSUME NEW i \in Inputs, i.code \notin graph.nodes, graph.lock[i.code] = NoLocks,
           ~ Anonymous(i.client, i.lock, Keys(i.body))
    PROVE  /\ Atomic!Permitted(i)
           /\ CreateLockedFields(i.client, i.lock, Keys(i.body)) = Atomic!LocksAfter(i)
<1>1. Atomic!ToLock(i) = NormalizeFields(i.lock, Keys(i.body))
  BY AtomicOperators DEF Atomic!ToLock
<1>2. NormalizeFields(i.lock, Keys(i.body)) \subseteq LockNames
  <2>1. i.lock \in FieldLists
    BY InputAssumption DEF IsInput
  <2> QED
    BY <2>1, KeysKnown DEF NormalizeFields, FieldLists
<1>3. \A k \in LockNames : graph.lock[i.code][k] = NoClient
  BY DEF NoLocks
<1>4. Atomic!Permitted(i)
  BY <1>1, <1>2, <1>3, KeysKnown, AtomicOperators DEF Atomic!Permitted, Atomic!Forbidden, Anonymous
<1>5. CreateLockedFields(i.client, i.lock, Keys(i.body)) = Atomic!LocksAfter(i)
  BY <1>1, <1>3, AtomicOperators DEF CreateLockedFields, SetLockedFields, Atomic!LocksAfter, NoLocks
<1> QED
  BY <1>4, <1>5

\* Only what differs is written, which is all that there is to write.
LEMMA RowIsSame ==
    ASSUME NEW new, NEW old
    PROVE  [p \in Plain |-> IF p \in DOMAIN DiffProperties(new, old) THEN DiffProperties(new, old)[p] ELSE old[p]] =
               [p \in Plain |-> IF p \in DOMAIN new THEN new[p] ELSE old[p]]
BY DEF DiffProperties

-----------------------------------------------------------------------------
(* The two writes are atomic ones.                                         *)

\* The partners that a write creates.
LEMMA NewPartnersAre ==
    ASSUME NothingMentionedTwice, NEW i \in Inputs, NEW changed \in Relations,
           \A p \in RelNames \ Atomic!Mentioned(i) : changed[p] = {},
           \A p \in RelNames : changed[p] \subseteq GetWriteRelationships(i.body)[p],
           \A p \in RelNames : GetWriteRelationships(i.body)[p] \ graph.nodes \subseteq changed[p]
    PROVE  /\ (UNION {SharedParameter(changed)[p] : p \in RelNames}) \ (graph.nodes \union {i.code})
                  = Atomic!NewPartners(i)
           /\ PartnersExist(graph, changed) => Atomic!NewPartners(i) = {}
<1>1. SharedParameter(changed) = changed
  BY NothingShared, MentionedFacts DEF NothingMentionedTwice
<1>2. \A p \in RelNames : GetWriteRelationships(i.body)[p] = IF p \in DOMAIN i.body.rel THEN i.body.rel[p] ELSE {}
  BY DEF GetWriteRelationships
<1>3. \A p \in DOMAIN i.body.rel : p \in RelNames
  BY MentionedFacts
<1>4. \A m : m \in Atomic!NewPartners(i) <=>
          m \notin graph.nodes \union {i.code} /\ \E p \in RelNames : m \in GetWriteRelationships(i.body)[p]
  BY <1>2, <1>3 DEF Atomic!NewPartners
<1>5. \A m : m \notin graph.nodes =>
          ((\E p \in RelNames : m \in GetWriteRelationships(i.body)[p]) <=> \E p \in RelNames : m \in changed[p])
  OBVIOUS
<1>6. \A m : m \in Atomic!NewPartners(i) <=>
          m \notin graph.nodes \union {i.code} /\ \E p \in RelNames : m \in changed[p]
  BY <1>4, <1>5
<1> QED
  BY <1>1, <1>6 DEF PartnersExist

(* And every relationship is one that a property shows, of two records.    *)
ShownBy(p, c, m, e) == e = Edge(c, p, m) /\ Def[p].of = TypeOf[c] /\ Def[p].type = TypeOf[m] /\ c # m

EdgesShown(g) == \A e \in g.edges : \E p \in RelNames, c \in Codes, m \in Codes : ShownBy(p, c, m, e)

LEMMA ShownEnds ==
    ASSUME NEW p \in RelNames, NEW c \in Codes, NEW m \in Codes, NEW e, ShownBy(p, c, m, e)
    PROVE  {e[1], e[3]} = {c, m} /\ c # m
BY EdgeType DEF ShownBy

LEMMA WriteShows ==
    ASSUME SameKind, NEW g, EdgesShown(g), NEW code \in Codes,
           NEW removed \in Relations, NEW changed \in Relations, Writable(code, changed),
           NEW w, w.edges = NewEdges(g, code, removed, changed)
    PROVE  EdgesShown(w)
<1> SUFFICES ASSUME NEW e \in w.edges
             PROVE  \E p \in RelNames, c \in Codes, m \in Codes : ShownBy(p, c, m, e)
  BY DEF EdgesShown
<1>1. CASE e \in g.edges
  BY <1>1 DEF EdgesShown
<1>2. CASE e \in Edges(code, SharedParameter(changed))
  <2>1. PICK p \in RelNames : \E m \in SharedParameter(changed)[p] : e = Edge(code, p, m)
    BY <1>2 DEF Edges
  <2>2. PICK m \in SharedParameter(changed)[p] : e = Edge(code, p, m)
    BY <2>1
  <2>3. Def[p].of = TypeOf[code] /\ code # m /\ m \in Codes /\ TypeOf[m] = Def[p].type
    BY <2>2, AddedFacts
  <2> QED
    BY <2>2, <2>3 DEF ShownBy
<1> QED
  BY <1>1, <1>2 DEF NewEdges

LEMMA MergeIsAtomic ==
    ASSUME SameKind, OneSided, NobodyRelatesToItself, NothingMentionedTwice, RemovesOrReplaces,
           StampInv, ReadIsCurrent, OnePartner(graph), EdgesShown(graph),
           NEW r \in Requests, MergeCommits(r)
    PROVE  Atomic!Write(req[r].input) /\ EdgesShown(graph')
<1>1. TypeInv /\ FoundIsThere /\ EveryRecordStamped
  BY DEF StampInv
<1>2. PICK i \in Inputs : i = req[r].input
  BY <1>1 DEF TypeInv, TypeOK, Request
<1>3. PICK seen \in Contents : seen = req[r].seen
  BY <1>1 DEF TypeInv, TypeOK, Request
<1>4. PICK changed \in Relations : changed = Changed(i, seen)
  BY <1>2, ChangedType
<1>5. PICK removed \in Relations : removed = Removed(i, seen)
  BY <1>2, <1>3, RemovedType
<1>6. PICK properties : properties = Diff(i, seen)
  OBVIOUS
<1>7. /\ PropertyChanges(properties) /\ i.code \in Codes /\ graph \in Graphs
      /\ i.method = "PATCH" /\ i.code \in graph.nodes /\ i.code \in graph.stamped
      /\ ~ MergeFails(i, seen)
  BY <1>1, <1>2, <1>3, <1>6, InputType, DiffType
  DEF Diff, TypeInv, TypeOK, ShapeOK, FoundIsThere, EveryRecordStamped, MergeCommits
<1>8. PICK locks \in LockTables : locks = Locks(i, seen)
  BY <1>2, <1>3, InputType, MergeLockedFieldsType DEF Locks, Contents
<1>9. seen = Content(graph, i.code) /\ Refusal(i, seen) = 0
  BY <1>2, <1>3 DEF ReadIsCurrent, MergeCommits
<1>10. seen.prop = graph.prop[i.code] /\ seen.lock = graph.lock[i.code] /\ seen.rel = Content(graph, i.code).rel
  BY <1>9 DEF Content
<1>11. PICK w : w = graph' /\ w = WriteRelationships(WriteNode(graph, i.code, properties, locks), i.code, removed, changed)
  BY <1>2, <1>3, <1>4, <1>5, <1>6, <1>8 DEF MergeCommits, Commit, MergeQuery
<1>12. Difference(graph, i.code, Atomic!Mentioned(i), After(i), removed, changed)
  BY <1>4, <1>5, <1>10, MergeDifference
<1>13. \A p \in RelNames : changed[p] = GetWriteRelationships(i.body)[p] \ seen.rel[p]
  BY <1>4 DEF Changed, GetChangedRelationships, GetDiffs
<1>14. PICK new : new = CreatedBeside(graph, i.code, changed)
  OBVIOUS
<1>15. new = Atomic!NewPartners(i) /\ (PartnersExist(graph, changed) => new = {})
  <2>1. \A p \in RelNames : seen.rel[p] \subseteq graph.nodes
    <3>1. \A p \in RelNames : seen.rel[p] = Partners(graph, i.code, p)
      BY <1>7, <1>9, OneIsRead DEF Content
    <3>2. \A e \in graph.edges : {e[1], e[3]} \subseteq graph.nodes
      BY <1>1 DEF TypeInv, TypeOK
    <3>3. \A p \in RelNames : \A m \in Partners(graph, i.code, p) :
              m \in {Edge(i.code, p, m)[1], Edge(i.code, p, m)[3]} /\ Edge(i.code, p, m) \in graph.edges
      BY <1>7, EdgeType DEF Partners
    <3> QED
      BY <3>1, <3>2, <3>3
  <2>2. \A p \in RelNames \ Atomic!Mentioned(i) : changed[p] = {}
    BY <1>12 DEF Difference
  <2> QED
    BY <1>13, <1>14, <2>1, <2>2, NewPartnersAre DEF CreatedBeside
<1>16. PICK row : row = Row(graph, i.code, properties)
  OBVIOUS
<1>17. /\ w \in Graphs
       /\ w.nodes = graph.nodes \union {i.code} \union new
       /\ w.stamped = graph.stamped \union new
       /\ w.prop = [graph.prop EXCEPT ![i.code] = row]
       /\ w.lock = [graph.lock EXCEPT ![i.code] = locks]
       /\ w.edges = NewEdges(graph, i.code, removed, changed)
  <2>1. locks \in LockTables /\ removed \in Relations /\ changed \in Relations
    OBVIOUS
  <2>2. WrittenInFull(graph, i.code, properties, locks, removed, changed, w)
    BY <1>7, <1>11, <2>1, WriteFields
  <2> QED
    BY <1>14, <1>16, <2>2 DEF WrittenInFull
<1>18. row = Atomic!PropertiesAfter(i)
  BY <1>6, <1>10, <1>16, RowIsSame DEF Row, Diff, Atomic!PropertiesAfter
<1>19. Atomic!Permitted(i) /\ locks = Atomic!LocksAfter(i)
  BY <1>7, <1>8, <1>9, <1>10, MergeSetsLocks
<1>20. w.edges = Atomic!Others(i) \union Atomic!After(i) /\ EdgesShown(w)
  <2>1. \A p \in RelNames : changed[p] \subseteq GetWriteRelationships(i.body)[p]
    BY <1>13
  <2>2. Writable(i.code, changed)
    BY <2>1, InputWritable
  <2>3. \A p \in RelNames : i.code \notin changed[p]
    BY <2>2 DEF Writable
  <2>4. NoSynonyms(Atomic!Mentioned(i)) /\ Atomic!Mentioned(i) \in SUBSET RelNames
    BY MentionedFacts DEF NothingMentionedTwice
  <2>5. PICK after : after = After(i)
    OBVIOUS
  <2>6. PICK mentioned \in SUBSET RelNames : mentioned = Atomic!Mentioned(i)
    BY <2>4
  <2>7. NewEdges(graph, i.code, removed, changed) =
            (graph.edges \ (Takes(graph, i.code, mentioned, after)
                               \union UNION {Shows(graph, i.code, p) : p \in mentioned}))
                \union Ends(i.code, mentioned, after)
    BY <1>7, <1>12, <2>3, <2>4, <2>5, <2>6, DifferenceIsWritten
  <2>8. removed \in Relations /\ changed \in Relations
    OBVIOUS
  <2>9. EdgesShown(w)
    BY <1>7, <1>17, <2>2, <2>8, WriteShows
  <2> QED
    BY <1>17, <2>5, <2>6, <2>7, <2>9, AtomicEdges
<1>21. new # {} => "upsert" \in i.flags
  BY <1>4, <1>7, <1>15 DEF MergeFails
<1>22. w.stamped = graph.stamped \union {i.code} \union new
  BY <1>7, <1>17
<1>23. graph' = [nodes |-> w.nodes, stamped |-> w.stamped, prop |-> w.prop, lock |-> w.lock, edges |-> w.edges]
  BY <1>11, <1>17, GraphsOfFields
<1>24. Atomic!Write(i)
  BY <1>7, <1>15, <1>17, <1>18, <1>19, <1>20, <1>21, <1>22, <1>23 DEF Atomic!Write
<1> QED
  BY <1>2, <1>11, <1>20, <1>24

LEMMA CreateIsAtomic ==
    ASSUME SameKind, OneSided, NobodyRelatesToItself, NothingMentionedTwice, TypeInv, EdgesShown(graph),
           NEW r \in Requests, CreateCommits(r)
    PROVE  Atomic!Write(req[r].input) /\ EdgesShown(graph')
<1>1. PICK i \in Inputs : i = req[r].input
  BY DEF TypeInv, TypeOK, Request
<1>2. PICK changed \in Relations : changed = GetWriteRelationships(i.body)
  BY <1>1, InputType
<1>3. PICK properties : properties = NewProperties(i)
  OBVIOUS
<1>4. /\ PropertyChanges(properties) /\ i.code \in Codes /\ graph \in Graphs
      /\ i.method \in {"POST", "PATCH"} /\ i.code \notin graph.nodes /\ ~ CreateFails(i)
      /\ ~ Anonymous(i.client, i.lock, Keys(i.body))
  BY <1>1, <1>3, InputType, DiffType DEF NewProperties, TypeInv, TypeOK, ShapeOK, CreateCommits, CreateFails
<1>5. graph.prop[i.code] = NoProperties /\ graph.lock[i.code] = NoLocks
  BY <1>4 DEF TypeInv, TypeOK
<1>6. PICK locks \in LockTables : locks = CreateLockedFields(i.client, i.lock, Keys(i.body))
  BY <1>1, InputType, CreateLockedFieldsType
<1>7. PICK created : created = [graph EXCEPT !.stamped = @ \union {i.code}]
  OBVIOUS
<1>8. /\ created \in Graphs /\ created.stamped = graph.stamped \union {i.code}
      /\ created.nodes = graph.nodes /\ created.edges = graph.edges
      /\ created.prop = graph.prop /\ created.lock = graph.lock
  BY <1>4, <1>7 DEF Graphs
<1>9. PICK none \in Relations : none = [p \in RelNames |-> {}]
  BY NoRelations
<1>10. PICK w : w = graph' /\ w = WriteRelationships(WriteNode(created, i.code, properties, locks), i.code, none, changed)
  BY <1>1, <1>2, <1>3, <1>6, <1>7, <1>9 DEF CreateCommits, Commit, CreateQuery
<1>11. \A p \in RelNames : Partners(graph, i.code, p) = {}
  <2>1. \A e \in graph.edges : {e[1], e[3]} \subseteq graph.nodes
    BY DEF TypeInv, TypeOK
  <2>2. \A p \in RelNames, m \in Codes : i.code \in {Edge(i.code, p, m)[1], Edge(i.code, p, m)[3]}
    <3>1. i.code \in Codes
      BY <1>4
    <3> QED
      BY <3>1, EdgeType
  <2> QED
    BY <1>4, <2>1, <2>2 DEF Partners
<1>12. Difference(graph, i.code, Atomic!Mentioned(i), After(i), none, changed)
  BY <1>2, <1>9, <1>11, CreateDifference
<1>13. PICK new : new = CreatedBeside(graph, i.code, changed)
  OBVIOUS
<1>14. new = Atomic!NewPartners(i) /\ (PartnersExist(graph, changed) => new = {})
  <2>1. \A p \in RelNames \ Atomic!Mentioned(i) : changed[p] = {}
    BY <1>12 DEF Difference
  <2> QED
    BY <1>2, <1>13, <2>1, NewPartnersAre DEF CreatedBeside
<1>15. PICK row : row = Row(graph, i.code, properties)
  OBVIOUS
<1>16. /\ w \in Graphs
       /\ w.nodes = graph.nodes \union {i.code} \union new
       /\ w.stamped = graph.stamped \union {i.code} \union new
       /\ w.prop = [graph.prop EXCEPT ![i.code] = row]
       /\ w.lock = [graph.lock EXCEPT ![i.code] = locks]
       /\ w.edges = NewEdges(graph, i.code, none, changed)
  <2>1. locks \in LockTables /\ none \in Relations /\ changed \in Relations
    OBVIOUS
  <2>2. WrittenInFull(created, i.code, properties, locks, none, changed, w)
    BY <1>4, <1>8, <1>10, <2>1, WriteFields
  <2>3. CreatedBeside(created, i.code, changed) = new /\ Row(created, i.code, properties) = row
    BY <1>8, <1>13, <1>15 DEF CreatedBeside, Row
  <2>4. NewEdges(created, i.code, none, changed) = NewEdges(graph, i.code, none, changed)
    BY <1>8 DEF NewEdges, Conflicting
  <2> QED
    BY <1>8, <2>2, <2>3, <2>4 DEF WrittenInFull
<1>17. row = Atomic!PropertiesAfter(i)
  <2>1. properties = DiffProperties(i.body.prop, graph.prop[i.code])
    BY <1>3, <1>5 DEF NewProperties
  <2> QED
    BY <1>15, <2>1, RowIsSame DEF Row, Atomic!PropertiesAfter
<1>18. Atomic!Permitted(i) /\ locks = Atomic!LocksAfter(i)
  BY <1>4, <1>5, <1>6, CreateSetsLocks
<1>19. w.edges = Atomic!Others(i) \union Atomic!After(i) /\ EdgesShown(w)
  <2>1. Writable(i.code, changed) /\ \A p \in RelNames : i.code \notin changed[p]
    BY <1>2, InputWritable DEF Writable
  <2>2. PICK after : after = After(i)
    OBVIOUS
  <2>3. PICK mentioned \in SUBSET RelNames : mentioned = Atomic!Mentioned(i)
    BY MentionedFacts
  <2>4. NoSynonyms(mentioned)
    BY <2>3 DEF NothingMentionedTwice
  <2>5. Difference(graph, i.code, mentioned, after, none, changed)
    BY <1>12, <2>2, <2>3
  <2>6. none \in Relations /\ changed \in Relations
    OBVIOUS
  <2>7. NewEdges(graph, i.code, none, changed) =
            (graph.edges \ (Takes(graph, i.code, mentioned, after)
                               \union UNION {Shows(graph, i.code, p) : p \in mentioned}))
                \union Ends(i.code, mentioned, after)
    BY <1>4, <2>1, <2>4, <2>5, <2>6, DifferenceIsWritten
  <2>8. EdgesShown(w)
    BY <1>4, <1>16, <2>1, <2>6, WriteShows
  <2> QED
    BY <1>16, <2>2, <2>3, <2>7, <2>8, AtomicEdges
<1>20. new # {} => "upsert" \in i.flags
  BY <1>2, <1>4, <1>14 DEF CreateFails
<1>21. graph' = [nodes |-> w.nodes, stamped |-> w.stamped, prop |-> w.prop, lock |-> w.lock, edges |-> w.edges]
  BY <1>10, <1>16, GraphsOfFields
<1>22. Atomic!Write(i)
  BY <1>4, <1>14, <1>16, <1>17, <1>18, <1>19, <1>20, <1>21 DEF Atomic!Write
<1> QED
  BY <1>1, <1>10, <1>19, <1>22

LEMMA DeleteIsAtomic ==
    ASSUME TypeInv, NEW r \in Requests, DeleteCommits(r)
    PROVE  Atomic!Erase(req[r].input)
<1>1. \A code : Atomic!DeleteQuery(graph, code) = DeleteQuery(graph, code)
  BY AtomicOperators DEF Atomic!DeleteQuery, DeleteQuery
<1> QED
  BY <1>1 DEF DeleteCommits, Commit, TypeInv, ShapeOK, Atomic!Erase, Atomic!HasRelationships, HasRelationships

-----------------------------------------------------------------------------
(* An ABSORB.  Relationships between records of one type are shown by both  *)
(* ends.                                                                    *)
ShownBothWays ==
    \A p \in RelNames : Def[p].of = Def[p].type => FindInversePropertyNames(p) # {}

\* What is collected from the absorbed record.
Collected(g, code, other, removed) ==
    \A p \in RelNames :
        removed[p] = (IF ToOne(p) /\ Partners(g, code, p) # {}
                      THEN Partners(g, other, p) \ Partners(g, code, p) ELSE {})
                         \union (Partners(g, other, p) \cap {code})

LEMMA CollectedIsSent ==
    ASSUME SameKind, NEW g, NEW code \in Codes, NEW other \in Codes, NEW removed \in Relations,
           Collected(g, code, other, removed), NEW p \in RelNames
    PROVE  SharedParameter(removed)[p] = removed[p]
<1>1. \A q \in FindPropertyNames(p) : removed[q] = removed[p]
  <2> SUFFICES ASSUME NEW q \in FindPropertyNames(p) PROVE removed[q] = removed[p]
    OBVIOUS
  <2>1. /\ q \in RelNames /\ (ToOne(q) <=> ToOne(p))
        /\ Partners(g, code, q) = Partners(g, code, p) /\ Partners(g, other, q) = Partners(g, other, p)
    BY ClassFacts DEF SameKind
  <2> QED
    BY <2>1 DEF Collected
<1>2. CASE removed[p] = {}
  BY <1>2, SharedFacts
<1>3. CASE removed[p] # {}
  BY <1>1, <1>3, SharedFacts
<1> QED
  BY <1>2, <1>3

\* Relationships between the two records go.
LEMMA BetweenIsRemoved ==
    ASSUME SameKind, ShownBothWays, NEW g, EdgesShown(g),
           NEW code \in Codes, NEW other \in Codes, code # other, TypeOf[code] = TypeOf[other],
           NEW removed \in Relations, Collected(g, code, other, removed),
           NEW e \in g.edges, {e[1], e[3]} = {code, other}
    PROVE  e \in Edges(other, SharedParameter(removed))
<1>1. PICK p \in RelNames, c \in Codes, m \in Codes : ShownBy(p, c, m, e)
  BY DEF EdgesShown
<1>2. {c, m} = {code, other} /\ c # m
  <2>1. {e[1], e[3]} = {c, m} /\ c # m
    BY <1>1, ShownEnds
  <2> QED
    BY <2>1
<1>3. \E q \in RelNames : Edge(other, q, code) = e /\ Def[q].of = TypeOf[other] /\ Def[q].type = TypeOf[code]
  <2>1. CASE c = other
    BY <1>1, <1>2, <2>1 DEF ShownBy
  <2>2. CASE c = code
    <3>1. PICK q \in FindInversePropertyNames(p) : TRUE
      BY <1>1, <1>2, <2>2 DEF ShownBy, ShownBothWays
    <3>2. /\ q \in RelNames /\ Def[q].relationship = Def[p].relationship
          /\ Def[q].direction = InvertDirection(Def[p].direction)
          /\ Def[q].of = Def[p].type /\ Def[q].type = Def[p].of
      BY <3>1 DEF FindInversePropertyNames, FindPropertyNamesFromPropertyDef, PropertiesOf
    <3>3. Edge(other, q, code) = Edge(code, p, other)
      BY <3>2, OppositeEdge
    <3> QED
      BY <1>1, <1>2, <2>2, <3>2, <3>3 DEF ShownBy
  <2> QED
    BY <1>2, <2>1, <2>2
<1>4. PICK q \in RelNames : Edge(other, q, code) = e /\ Def[q].of = TypeOf[other] /\ Def[q].type = TypeOf[code]
  BY <1>3
<1>5. code \in Partners(g, other, q)
  <2>1. Edge(other, q, code) \in g.edges
    BY <1>4
  <2> QED
    BY <1>4, <2>1 DEF Partners
<1>6. code \in removed[q]
  <2>1. removed[q] = (IF ToOne(q) /\ Partners(g, code, q) # {}
                      THEN Partners(g, other, q) \ Partners(g, code, q) ELSE {})
                         \union (Partners(g, other, q) \cap {code})
    BY DEF Collected
  <2> QED
    BY <1>5, <2>1
<1>7. SharedParameter(removed)[q] = removed[q]
  BY CollectedIsSent
<1> QED
  BY <1>4, <1>6, <1>7 DEF Edges

\* What the main record already has its own relationship for.
GivesPlace(g, code, other, e) ==
    \E p \in PropertiesOf(TypeOf[code]) : ToOne(p) /\ Partners(g, code, p) # {} /\ e \in Shows(g, other, p)

Stays(g, code, other) ==
    {e \in g.edges : {e[1], e[3]} # {code, other} /\ ~ GivesPlace(g, code, other, e)}

LEMMA MovedIsKept ==
    ASSUME SameKind, ShownBothWays, NEW g, g \in Graphs, EdgesShown(g),
           NEW code \in Codes, NEW other \in Codes, code # other, TypeOf[code] = TypeOf[other],
           NEW removed \in Relations, Collected(g, code, other, removed)
    PROVE  MovedEdges(g, code, other, removed) = {Moved(e, other, code) : e \in Stays(g, code, other)}
<1>1. ASSUME NEW e \in Stays(g, code, other) PROVE e \in g.edges \ Edges(other, SharedParameter(removed))
  <2> SUFFICES ASSUME NEW p \in RelNames, NEW m \in SharedParameter(removed)[p], e = Edge(other, p, m)
               PROVE  FALSE
    BY DEF Stays, Edges
  <2>1. m \in removed[p] /\ m \in Codes
    BY CollectedIsSent DEF Relations
  <2>2. CASE m = code
    BY <2>2, EdgeType DEF Stays
  <2>3. CASE m # code
    <3>1. ToOne(p) /\ Partners(g, code, p) # {} /\ m \in Partners(g, other, p)
      BY <2>1, <2>3 DEF Collected
    <3>2. p \in PropertiesOf(TypeOf[code])
      BY <3>1 DEF Partners, PropertiesOf
    <3> QED
      BY <3>1, <3>2 DEF Stays, GivesPlace, Shows
  <2> QED
    BY <2>2, <2>3
<1>2. ASSUME NEW e \in g.edges, e \notin Edges(other, SharedParameter(removed)), e \notin Stays(g, code, other)
      PROVE  \E d \in Stays(g, code, other) : Moved(d, other, code) = Moved(e, other, code)
  <2>1. {e[1], e[3]} # {code, other}
    BY <1>2, BetweenIsRemoved
  <2>2. PICK p \in PropertiesOf(TypeOf[code]) :
            ToOne(p) /\ Partners(g, code, p) # {} /\ e \in Shows(g, other, p)
    BY <1>2, <2>1 DEF Stays, GivesPlace
  <2>3. PICK m \in Partners(g, other, p) : e = Edge(other, p, m)
    BY <2>2 DEF Shows
  <2>4. p \in RelNames /\ m \in Codes
    BY <2>2 DEF PropertiesOf, Partners
  <2>5. m \notin removed[p]
    BY <1>2, <2>3, <2>4, CollectedIsSent DEF Edges
  <2>6. m \in Partners(g, code, p)
    BY <2>2, <2>3, <2>4, <2>5 DEF Collected
  <2>7. m # code /\ m # other
    <3>1. {e[1], e[3]} = {other, m}
      BY <2>3, <2>4, EdgeType
    <3>2. e[1] # e[3]
      <4>1. PICK q \in RelNames, c \in Codes, n \in Codes : ShownBy(q, c, n, e)
        BY DEF EdgesShown
      <4> QED
        BY <4>1 DEF ShownBy, Edge
    <3> QED
      BY <2>1, <3>1, <3>2
  <2>8. PICK d : d = Edge(code, p, m)
    OBVIOUS
  <2>9. d \in g.edges /\ {d[1], d[3]} = {code, m}
    BY <2>4, <2>6, <2>8, EdgeType DEF Partners
  <2>10. \A q \in RelNames : d \notin Shows(g, other, q)
    <3> SUFFICES ASSUME NEW q \in RelNames, NEW n \in Partners(g, other, q), d = Edge(other, q, n)
                 PROVE  FALSE
      BY DEF Shows
    <3>1. other \in {d[1], d[3]}
      BY EdgeType DEF Partners
    <3> QED
      BY <2>7, <2>9, <3>1
  <2>11. d \in Stays(g, code, other)
    BY <2>7, <2>9, <2>10 DEF Stays, GivesPlace, PropertiesOf
  <2>12. Moved(d, other, code) = Moved(e, other, code)
    BY <2>3, <2>7, <2>8 DEF Moved, Edge
  <2> QED
    BY <2>11, <2>12
<1>3. ASSUME NEW x \in MovedEdges(g, code, other, removed)
      PROVE  x \in {Moved(e, other, code) : e \in Stays(g, code, other)}
  <2>1. PICK e \in g.edges \ Edges(other, SharedParameter(removed)) : x = Moved(e, other, code)
    BY DEF MovedEdges
  <2> QED
    BY <1>2, <2>1
<1>4. ASSUME NEW e \in Stays(g, code, other)
      PROVE  Moved(e, other, code) \in MovedEdges(g, code, other, removed)
  BY <1>1 DEF MovedEdges
<1> QED
  BY <1>3, <1>4

LEMMA AbsorbShows ==
    ASSUME NEW g, g \in Graphs, EdgesShown(g),
           NEW code \in Codes, NEW other \in Codes, code # other, TypeOf[code] = TypeOf[other],
           NEW w, w.edges = {Moved(e, other, code) : e \in Stays(g, code, other)}
    PROVE  EdgesShown(w)
<1> SUFFICES ASSUME NEW x \in w.edges
             PROVE  \E p \in RelNames, c \in Codes, m \in Codes : ShownBy(p, c, m, x)
  BY DEF EdgesShown
<1>1. PICK e \in g.edges : {e[1], e[3]} # {code, other} /\ x = Moved(e, other, code)
  BY DEF Stays
<1>2. PICK p \in RelNames, c \in Codes, m \in Codes : ShownBy(p, c, m, e)
  BY DEF EdgesShown
<1>3. PICK c1 \in Codes : c1 = IF c = other THEN code ELSE c
  OBVIOUS
<1>4. PICK m1 \in Codes : m1 = IF m = other THEN code ELSE m
  OBVIOUS
<1>5. x = Edge(c1, p, m1)
  <2>1. e = Edge(c, p, m)
    BY <1>2 DEF ShownBy
  <2>2. CASE Def[p].direction = "outgoing"
    <3>1. e = <<c, Def[p].relationship, m>> /\ Edge(c1, p, m1) = <<c1, Def[p].relationship, m1>>
      BY <2>1, <2>2 DEF Edge
    <3> QED
      BY <1>1, <1>3, <1>4, <3>1 DEF Moved
  <2>3. CASE Def[p].direction # "outgoing"
    <3>1. e = <<m, Def[p].relationship, c>> /\ Edge(c1, p, m1) = <<m1, Def[p].relationship, c1>>
      BY <2>1, <2>3 DEF Edge
    <3> QED
      BY <1>1, <1>3, <1>4, <3>1 DEF Moved
  <2> QED
    BY <2>2, <2>3
<1>6. {c, m} # {code, other} /\ c # m
  <2>1. {e[1], e[3]} = {c, m} /\ c # m
    BY <1>2, ShownEnds
  <2> QED
    BY <1>1, <2>1
<1>7. c1 # m1 /\ TypeOf[c1] = TypeOf[c] /\ TypeOf[m1] = TypeOf[m]
  BY <1>3, <1>4, <1>6
<1> QED
  BY <1>2, <1>5, <1>7 DEF ShownBy

\* What an ABSORB writes, from what it has read.
LEMMA AbsorbWrites ==
    ASSUME SameKind, ShownBothWays, TypeInv, OnePartner(graph), EdgesShown(graph),
           NEW r \in Requests, AbsorbCommits(r), BothRead(graph, req[r]),
           NEW i \in Inputs, i = req[r].input
    PROVE  /\ i.code \in graph.nodes /\ i.other \in graph.nodes /\ i.code # i.other /\ i.method = "ABSORB"
           /\ i.code \in Codes /\ i.other \in Codes /\ TypeOf[i.code] = TypeOf[i.other]
           /\ graph \in Graphs
           /\ \E removed \in Relations :
                 /\ graph' = DeleteQuery(Joined(graph, i.code, i.other, removed), i.other)
                 /\ MovedEdges(graph, i.code, i.other, removed) =
                        {Moved(e, i.other, i.code) : e \in Stays(graph, i.code, i.other)}
<1>1. PICK main \in Contents, absorbed \in Contents : main = req[r].seen /\ absorbed = req[r].seenOther
  BY DEF TypeInv, TypeOK, Request
<1>2. PICK removed : removed = CollectRemovedRelationships(i.code, main, absorbed)
  OBVIOUS
<1>3. removed \in Relations
  BY <1>1, <1>2 DEF CollectRemovedRelationships, Relations, Contents
<1>4. /\ i.code \in graph.nodes /\ i.other \in graph.nodes /\ i.code # i.other
      /\ req[r].pc = "absorb" /\ i.method = "ABSORB"
  BY DEF AbsorbCommits, TypeInv, ShapeOK
<1>5. i.code \in Codes /\ i.other \in Codes /\ TypeOf[i.code] = TypeOf[i.other] /\ graph \in Graphs
  BY InputAssumption DEF IsInput, TypeInv, TypeOK
<1>6. main.rel = Content(graph, i.code).rel /\ absorbed.rel = Content(graph, i.other).rel
  BY <1>1, <1>4 DEF BothRead
<1>7. Collected(graph, i.code, i.other, removed)
  <2> SUFFICES ASSUME NEW p \in RelNames
               PROVE  removed[p] = (IF ToOne(p) /\ Partners(graph, i.code, p) # {}
                                    THEN Partners(graph, i.other, p) \ Partners(graph, i.code, p) ELSE {})
                                       \union (Partners(graph, i.other, p) \cap {i.code})
    BY DEF Collected
  <2>1. main.rel[p] = Partners(graph, i.code, p) /\ absorbed.rel[p] = Partners(graph, i.other, p)
    BY <1>5, <1>6, OneIsRead DEF Content
  <2>2. removed[p] = (IF ToOne(p) /\ main.rel[p] # {} THEN absorbed.rel[p] \ main.rel[p] ELSE {})
                         \union (absorbed.rel[p] \cap {i.code})
    BY <1>2 DEF CollectRemovedRelationships
  <2> QED
    BY <2>1, <2>2
<1>8. graph' = DeleteQuery(Joined(graph, i.code, i.other, removed), i.other)
  BY <1>1, <1>2 DEF AbsorbCommits, Commit, AbsorbQuery, Joined, MovedEdges
<1>9. MovedEdges(graph, i.code, i.other, removed) =
          {Moved(e, i.other, i.code) : e \in Stays(graph, i.code, i.other)}
  BY <1>3, <1>4, <1>5, <1>7, MovedIsKept
<1> QED
  BY <1>3, <1>4, <1>5, <1>8, <1>9

LEMMA AbsorbIsAtomic ==
    ASSUME SameKind, ShownBothWays, TypeInv, EveryRecordStamped, OnePartner(graph), EdgesShown(graph),
           NEW r \in Requests, AbsorbCommits(r), BothRead(graph, req[r])
    PROVE  Atomic!Join(req[r].input) /\ EdgesShown(graph')
<1>1. PICK i \in Inputs : i = req[r].input
  BY DEF TypeInv, TypeOK, Request
<1>2. /\ i.code \in graph.nodes /\ i.other \in graph.nodes /\ i.code # i.other /\ i.method = "ABSORB"
      /\ i.code \in Codes /\ i.other \in Codes /\ TypeOf[i.code] = TypeOf[i.other]
      /\ graph \in Graphs
  BY <1>1, AbsorbWrites
<1>3. PICK removed \in Relations :
          /\ graph' = DeleteQuery(Joined(graph, i.code, i.other, removed), i.other)
          /\ MovedEdges(graph, i.code, i.other, removed) =
                 {Moved(e, i.other, i.code) : e \in Stays(graph, i.code, i.other)}
  BY <1>1, AbsorbWrites
<1>4. PICK m : m = Joined(graph, i.code, i.other, removed)
  OBVIOUS
<1>5. PICK w : w = graph' /\ w = DeleteQuery(m, i.other)
  BY <1>3, <1>4
<1>6. m \in Graphs /\ m.nodes = graph.nodes
  BY <1>2, <1>4, JoinedType, JoinedFields
<1>7. w \in Graphs /\ w.nodes = graph.nodes \ {i.other} /\ w.edges = m.edges /\ w.stamped = m.stamped \ {i.other}
  BY <1>2, <1>5, <1>6, DeleteFields, DeleteType
<1>8. w.stamped = graph.stamped \ {i.other}
  <2>1. i.code \in graph.stamped /\ i.other \in graph.stamped
    BY <1>2 DEF EveryRecordStamped
  <2>2. m.stamped = graph.stamped \union {i.code}
    BY <1>2, <1>4, <2>1, JoinedFields
  <2> QED
    BY <1>7, <2>1, <2>2
<1>9. PICK row : row = MergeProperties(graph.prop[i.code], graph.prop[i.other])
  OBVIOUS
<1>10. PICK locks : locks = MergeLocks(graph.lock[i.code], graph.lock[i.other])
  OBVIOUS
<1>11. w.prop = [graph.prop EXCEPT ![i.other] = NoProperties, ![i.code] = row]
  <2>1. m.prop = [graph.prop EXCEPT ![i.code] = row]
    BY <1>4, <1>9 DEF Joined, Graphs
  <2>2. w.prop = [m.prop EXCEPT ![i.other] = NoProperties]
    BY <1>5, <1>6 DEF DeleteQuery, Graphs
  <2> QED
    BY <1>2, <2>1, <2>2 DEF Graphs
<1>12. w.lock = [graph.lock EXCEPT ![i.other] = NoLocks, ![i.code] = locks]
  <2>1. m.lock = [graph.lock EXCEPT ![i.code] = locks]
    BY <1>4, <1>10 DEF Joined, Graphs
  <2>2. w.lock = [m.lock EXCEPT ![i.other] = NoLocks]
    BY <1>5, <1>6 DEF DeleteQuery, Graphs
  <2> QED
    BY <1>2, <2>1, <2>2 DEF Graphs
<1>13. w.edges = {Atomic!Moved(e, i.other, i.code) : e \in Atomic!Kept(i)} /\ EdgesShown(w)
  <2>1. \A e : Atomic!Moved(e, i.other, i.code) = Moved(e, i.other, i.code)
    BY DEF Atomic!Moved, Moved
  <2>2. \A p : Atomic!ShownBy(i.other, p) = Shows(graph, i.other, p)
    BY AtomicOperators DEF Atomic!ShownBy, Shows
  <2>3. Atomic!PropertiesOf(TypeOf[i.code]) = PropertiesOf(TypeOf[i.code])
    BY DEF Atomic!PropertiesOf, PropertiesOf
  <2>4. Atomic!Kept(i) = Stays(graph, i.code, i.other)
    BY <2>2, <2>3, AtomicOperators DEF Atomic!Kept, Stays, GivesPlace
  <2>5. w.edges = MovedEdges(graph, i.code, i.other, removed)
    BY <1>2, <1>4, <1>7, JoinedFields
  <2>6. EdgesShown(w)
    BY <1>2, <1>3, <2>5, AbsorbShows
  <2> QED
    BY <1>3, <2>1, <2>4, <2>5, <2>6
<1>14. graph' = [nodes |-> w.nodes, stamped |-> w.stamped, prop |-> w.prop, lock |-> w.lock, edges |-> w.edges]
  BY <1>5, <1>7, GraphsOfFields
<1>15. row = Atomic!MergeProperties(graph.prop[i.code], graph.prop[i.other])
  BY <1>9 DEF Atomic!MergeProperties, MergeProperties
<1>16. locks = Atomic!MergeLocks(graph.lock[i.code], graph.lock[i.other])
  BY <1>10, AtomicOperators DEF Atomic!MergeLocks, MergeLocks
<1>17. Atomic!NoProperties = NoProperties /\ Atomic!NoLocks = NoLocks
  BY AtomicOperators
<1>18. Atomic!Join(i)
  BY <1>2, <1>7, <1>8, <1>11, <1>12, <1>13, <1>14, <1>15, <1>16, <1>17 DEF Atomic!Join
<1> QED
  BY <1>1, <1>5, <1>13, <1>18

-----------------------------------------------------------------------------
(* Every step is an atomic one, or leaves graph and waiting requests.      *)
AtomicInv == StampInv /\ OneInv /\ EdgesShown(graph)

Waiting == [r \in {q \in Requests : Busy(q)} |-> req[r].input]

\* The graph after a step of a handler.
LEMMA GraphStepIsAtomic ==
    ASSUME SameKind, OneSided, ShownBothWays,
           NobodyRelatesToItself, NothingMentionedTwice, RemovesOrReplaces,
           AtomicInv, NEW r \in Requests, Handle(r)
    PROVE  /\ EdgesShown(graph')
           /\ \/ graph' = graph
              \/ /\ Answers(r)
                 /\ \/ Atomic!Write(req[r].input)
                    \/ Atomic!Erase(req[r].input)
                    \/ Atomic!Join(req[r].input)
<1>1. /\ TypeInv /\ StampInv /\ EveryRecordStamped /\ ReadIsCurrent
      /\ BothRead(graph, req[r]) /\ OnePartner(graph) /\ EdgesShown(graph)
  BY DEF AtomicInv, StampInv, OneInv, LockInv
<1>2. CASE Quiet
  BY <1>1, <1>2 DEF Quiet
<1>3. CASE CreateCommits(r)
  <2>1. Answers(r)
    BY <1>3 DEF CreateCommits, Answers
  <2> QED
    BY <1>1, <1>3, <2>1, CreateIsAtomic
<1>4. CASE MergeCommits(r)
  <2>1. Answers(r)
    BY <1>4 DEF MergeCommits, Answers
  <2> QED
    BY <1>1, <1>4, <2>1, MergeIsAtomic
<1>5. CASE DeleteCommits(r)
  <2>1. Answers(r)
    BY <1>5 DEF DeleteCommits, Answers
  <2>2. req[r].input.code \in Codes /\ graph \in Graphs
    BY <1>1, InputType DEF TypeInv, TypeOK, Request
  <2>3. graph'.edges = graph.edges
    BY <1>5, <2>2, DeleteFields DEF DeleteCommits, Commit
  <2> QED
    BY <1>1, <1>5, <2>1, <2>3, DeleteIsAtomic DEF EdgesShown
<1>6. CASE AbsorbCommits(r)
  <2>1. Answers(r)
    BY <1>6 DEF AbsorbCommits, Answers
  <2> QED
    BY <1>1, <1>6, <2>1, AbsorbIsAtomic
<1> QED
  BY <1>2, <1>3, <1>4, <1>5, <1>6, GraphSteps

\* Who waits after a step that makes k of handler r.
LEMMA WaitingAfter ==
    ASSUME TypeInv, NEW r \in Requests, NEW k, Becomes(r, k)
    PROVE  /\ DOMAIN Waiting = {q \in Requests : Busy(q)}
           /\ k.pc = "end" => Waiting' = [q \in DOMAIN Waiting \ {r} |-> Waiting[q]]
           /\ k.pc # "end" => Waiting' = [q \in DOMAIN Waiting \union {r} |->
                                             IF q = r THEN k.input ELSE Waiting[q]]
<1>1. req' = [req EXCEPT ![r] = k] /\ req \in [Requests -> Request] /\ k.pc # "idle"
  BY DEF Becomes, TypeInv, TypeOK
<1>2. req'[r] = k /\ \A q \in Requests \ {r} : req'[q] = req[q]
  BY <1>1
<1>3. \A q \in Requests : (req'[q].pc \notin {"idle", "end"}) <=> IF q = r THEN k.pc # "end" ELSE Busy(q)
  BY <1>1, <1>2 DEF Busy
<1>4. Waiting' = [q \in {s \in Requests : req'[s].pc \notin {"idle", "end"}} |-> req'[q].input]
  BY DEF Waiting, Busy
<1>5. DOMAIN Waiting = {q \in Requests : Busy(q)} /\ \A q \in DOMAIN Waiting : Waiting[q] = req[q].input
  BY DEF Waiting
<1>6. ASSUME k.pc = "end"
      PROVE  Waiting' = [q \in DOMAIN Waiting \ {r} |-> Waiting[q]]
  <2>1. {s \in Requests : req'[s].pc \notin {"idle", "end"}} = DOMAIN Waiting \ {r}
    BY <1>3, <1>5, <1>6
  <2> QED
    BY <1>2, <1>4, <1>5, <2>1
<1>7. ASSUME k.pc # "end"
      PROVE  Waiting' = [q \in DOMAIN Waiting \union {r} |-> IF q = r THEN k.input ELSE Waiting[q]]
  <2>1. {s \in Requests : req'[s].pc \notin {"idle", "end"}} = DOMAIN Waiting \union {r}
    BY <1>3, <1>5, <1>7
  <2> QED
    BY <1>2, <1>4, <1>5, <2>1
<1> QED
  BY <1>5, <1>6, <1>7

LEMMA HandlerStepIsAtomic ==
    ASSUME SameKind, OneSided, ShownBothWays,
           NobodyRelatesToItself, NothingMentionedTwice, RemovesOrReplaces,
           AtomicInv, NEW r \in Requests, Arrive(r) \/ Handle(r)
    PROVE  Atomic!Next \/ UNCHANGED <<graph, Waiting>>
<1>1. TypeInv
  BY DEF AtomicInv, StampInv
<1>2. DOMAIN Waiting = {q \in Requests : Busy(q)} /\ \A q \in DOMAIN Waiting : Waiting[q] = req[q].input
  BY DEF Waiting
<1>3. CASE Arrive(r)
  <2>1. PICK i \in workload.inputs, k \in Request : Becomes(r, k) /\ (k.pc = "end" \/ k.input = i)
    BY <1>1, <1>3, ArriveBecomes
  <2>2. i \in Inputs /\ ~ Busy(r) /\ graph' = graph
    BY <1>1, <1>3 DEF TypeInv, Inputs, Arrive, Quiet
  <2>3. CASE k.pc = "end"
    <3>1. Waiting' = [q \in DOMAIN Waiting \ {r} |-> Waiting[q]]
      BY <1>1, <2>1, <2>3, WaitingAfter
    <3>2. DOMAIN Waiting \ {r} = DOMAIN Waiting
      BY <1>2, <2>2
    <3>3. Waiting = [q \in DOMAIN Waiting |-> Waiting[q]]
      BY DEF Waiting
    <3> QED
      BY <2>2, <3>1, <3>2, <3>3
  <2>4. CASE k.pc # "end"
    <3>1. Waiting' = [q \in DOMAIN Waiting \union {r} |-> IF q = r THEN k.input ELSE Waiting[q]]
      BY <1>1, <2>1, <2>4, WaitingAfter
    <3>2. r \in Requests \ DOMAIN Waiting /\ k.input \in Inputs
      BY <1>2, <2>1, <2>2, <2>4
    <3>3. \A q \in DOMAIN Waiting : Waiting[q] \in Inputs
      BY <1>1, <1>2 DEF TypeInv, TypeOK, Request
    <3>4. /\ Waiting' \in [DOMAIN Waiting \union {r} -> Inputs]
          /\ \A q \in DOMAIN Waiting : Waiting'[q] = Waiting[q]
      BY <3>1, <3>2, <3>3
    <3>5. Atomic!Send(r)
      BY <2>2, <3>4 DEF Atomic!Send, Waiting
    <3> QED
      BY <3>2, <3>5 DEF Atomic!Next, Waiting
  <2> QED
    BY <2>3, <2>4
<1>4. CASE Handle(r)
  <2>1. PICK k \in Request : Becomes(r, k) /\ (k.pc = "end" \/ k.input = req[r].input)
    BY <1>1, <1>4, HandleBecomes
  <2>2. Busy(r) /\ r \in DOMAIN Waiting
    BY <1>2, <1>4, HandlerIsBusy
  <2>3. Answers(r) => k.pc = "end"
    BY <1>1, <2>1, AnsweredType DEF Answers, Answer, Become, Becomes, EndedOK, TypeInv, TypeOK
  <2>4. CASE k.pc = "end"
    <3>1. Atomic!Answer(r)
      <4>1. Waiting' = [q \in DOMAIN Waiting \ {r} |-> Waiting[q]]
        BY <1>1, <2>1, <2>4, WaitingAfter
      <4> QED
        BY <4>1 DEF Atomic!Answer, Waiting
    <3>2. CASE graph' = graph
      <4>1. Atomic!Refuse(r)
        BY <3>1, <3>2 DEF Atomic!Refuse
      <4> QED
        BY <2>2, <4>1 DEF Atomic!Next, Waiting
    <3>3. CASE graph' # graph
      <4>1. \/ Atomic!Write(req[r].input) \/ Atomic!Erase(req[r].input) \/ Atomic!Join(req[r].input)
        BY <1>4, <3>3, GraphStepIsAtomic
      <4>2. Waiting[r] = req[r].input
        BY <1>2, <2>2
      <4>3. Atomic!CarryOut(r)
        BY <3>1, <4>1, <4>2 DEF Atomic!CarryOut, Waiting
      <4> QED
        BY <2>2, <4>3 DEF Atomic!Next, Waiting
    <3> QED
      BY <3>2, <3>3
  <2>5. CASE k.pc # "end"
    <3>1. graph' = graph
      BY <1>4, <2>3, <2>5, GraphStepIsAtomic
    <3>2. Waiting' = [q \in DOMAIN Waiting \union {r} |-> IF q = r THEN k.input ELSE Waiting[q]]
      BY <1>1, <2>1, <2>5, WaitingAfter
    <3>3. DOMAIN Waiting \union {r} = DOMAIN Waiting /\ k.input = Waiting[r]
      BY <1>2, <2>1, <2>2, <2>5
    <3>4. Waiting = [q \in DOMAIN Waiting |-> Waiting[q]]
      BY DEF Waiting
    <3>5. Waiting' = [q \in DOMAIN Waiting |-> Waiting[q]]
      BY <3>2, <3>3
    <3> QED
      BY <3>1, <3>4, <3>5
  <2> QED
    BY <2>4, <2>5
<1> QED
  BY <1>3, <1>4

LEMMA NextAtomic ==
    ASSUME SameKind, OneSided, ShownBothWays,
           NobodyRelatesToItself, NothingMentionedTwice, RemovesOrReplaces,
           UpdatesRunAlone, AbsorbsKeepToAPair, AtomicInv, [Next]_vars
    PROVE  AtomicInv' /\ (Atomic!Next \/ UNCHANGED <<graph, Waiting>>)
<1>1. StampInv' /\ OneInv'
  <2>1. NoErasureDuringUpdates
    BY DEF UpdatesRunAlone, NoErasureDuringUpdates
  <2> QED
    BY <2>1, NextStamps, NextOne DEF AtomicInv
<1>2. CASE UNCHANGED vars
  <2>1. graph' = graph /\ req' = req
    BY <1>2 DEF vars
  <2>2. Waiting' = Waiting
    BY <2>1 DEF Waiting, Busy
  <2> QED
    BY <1>1, <2>1, <2>2 DEF AtomicInv
<1>3. CASE Next
  <2>1. PICK r \in Requests : Arrive(r) \/ Handle(r)
    BY <1>3 DEF Next
  <2>2. EdgesShown(graph')
    BY <2>1, GraphStepIsAtomic DEF AtomicInv, Arrive, Quiet
  <2> QED
    BY <1>1, <2>1, <2>2, HandlerStepIsAtomic DEF AtomicInv
<1> QED
  BY <1>2, <1>3

LEMMA InitAtomic == Init => AtomicInv
<1> SUFFICES ASSUME Init PROVE AtomicInv
  OBVIOUS
<1>1. StampInv
  BY InitType, InitExclusive, NoRequestType DEF Init, StampInv, FoundIsThere, EveryRecordStamped, EmptyGraph
<1>2. OneInv
  BY InitOne
<1>3. EdgesShown(graph)
  BY DEF Init, EmptyGraph, EdgesShown
<1> QED
  BY <1>1, <1>2, <1>3 DEF AtomicInv

\* Between its query and its write a handler lets others run, and yet every request
\* changes the graph in one step as the README of the package says, or not at all:
\* properties, locks and partners end as the body, the options and the record before
\* decide, others lose the partner that is taken from them, and of an absorbed record
\* nothing is left behind or lost.  That holds for every schema in which at most one
\* end has one value, synonyms agree and relationships within a type have both ends,
\* for requests that mention a relationship under one name, as long as nothing runs
\* beside an update, and beside an ABSORB only those of the same two records and
\* DELETEs.
THEOREM GraphRefinesAtomic ==
    ASSUME SameKind, OneSided, ShownBothWays,
           NobodyRelatesToItself, NothingMentionedTwice, RemovesOrReplaces,
           UpdatesRunAlone, AbsorbsKeepToAPair
    PROVE  Spec => ImplementsAtomicGraph
<1>1. Init => AtomicInv
  BY InitAtomic
<1>2. Init => graph = Atomic!EmptyGraph /\ Waiting = <<>>
  <2> SUFFICES ASSUME Init PROVE graph = EmptyGraph /\ Waiting = <<>>
    BY AtomicOperators
  <2>1. {q \in Requests : Busy(q)} = {}
    BY NoRequestType DEF Init, Busy
  <2>2. Waiting = [q \in {} |-> req[q].input]
    BY <2>1 DEF Waiting
  <2> QED
    BY <2>2 DEF Init
<1>3. AtomicInv /\ [Next]_vars => AtomicInv' /\ (Atomic!Next \/ UNCHANGED <<graph, Waiting>>)
  BY NextAtomic
<1> QED
  BY <1>1, <1>2, <1>3, PTL DEF Spec, ImplementsAtomicGraph, Atomic!Spec, Waiting

-----------------------------------------------------------------------------
(* Events.  What a set of events comes to when similar ones are combined.  *)
Tells(events, c, p) == \E e \in events : e.code = c /\ p \in e.props

Similar(events, e) == {f \in events : f.action = e.action /\ f.code = e.code}
Combined(events, e) ==
    Event(e.action, e.code, UNION {FindPropertyNames(p) : p \in UNION {f.props : f \in Similar(events, e)}})

LEMMA CombinedAre ==
    ASSUME NEW events
    PROVE  CombineSimilarEvents(events) = {Combined(events, e) : e \in events}
BY DEF CombineSimilarEvents, Combined, Similar

LEMMA CombinedTell ==
    ASSUME NEW events, NEW e \in events
    PROVE  \E f \in CombineSimilarEvents(events) :
               /\ f.action = e.action /\ f.code = e.code
               /\ \A p \in e.props : FindPropertyNames(p) \subseteq f.props
<1>1. e \in Similar(events, e)
  BY DEF Similar
<1>2. \A p \in e.props : p \in UNION {f.props : f \in Similar(events, e)}
  BY <1>1
<1>3. /\ Combined(events, e).action = e.action /\ Combined(events, e).code = e.code
      /\ Combined(events, e).props =
             UNION {FindPropertyNames(p) : p \in UNION {f.props : f \in Similar(events, e)}}
  BY DEF Combined, Event
<1>4. \A p \in e.props : FindPropertyNames(p) \subseteq Combined(events, e).props
  BY <1>2, <1>3
<1> QED
  BY <1>3, <1>4, CombinedAre

LEMMA CombinedOnlyTell ==
    ASSUME NEW events, NEW f \in CombineSimilarEvents(events), NEW p \in f.props
    PROVE  \E e \in events : /\ e.action = f.action /\ e.code = f.code
                             /\ \E q \in e.props : p \in FindPropertyNames(q)
<1>1. PICK d \in events : f = Combined(events, d)
  BY CombinedAre
<1>2. /\ f.action = d.action /\ f.code = d.code
      /\ f.props = UNION {FindPropertyNames(q) : q \in UNION {e.props : e \in Similar(events, d)}}
  BY <1>1 DEF Combined, Event
<1>3. PICK q \in UNION {e.props : e \in Similar(events, d)} : p \in FindPropertyNames(q)
  BY <1>2
<1>4. PICK e \in Similar(events, d) : q \in e.props
  BY <1>3
<1> QED
  BY <1>2, <1>3, <1>4 DEF Similar

LEMMA OwnNames ==
    /\ \A p : p \in FindPropertyNames(p)
    /\ \A p \in RelNames : \A q \in FindPropertyNames(p) : p \in FindPropertyNames(q)
<1>1. \A p : p \in FindPropertyNames(p)
  BY DEF FindPropertyNames, FindPropertyNamesFromPropertyDef, PropertiesOf
<1> QED
  BY <1>1, ClassFacts

\* The events of partners.
LEMMA RelatedAre ==
    ASSUME NEW relationships, NEW created
    PROVE  /\ \A p \in RelNames : \A m \in relationships[p] :
                 \E e \in GenerateRelatedEvents(relationships, created) :
                     /\ e.code = m /\ FindInversePropertyNames(p) \subseteq e.props
                     /\ m \in created => e.action = "CREATE"
           /\ \A e \in GenerateRelatedEvents(relationships, created) :
                 \E p \in RelNames : \E m \in relationships[p] :
                     /\ e.code = m
                     /\ e.action = "UPDATE" => e.props = FindInversePropertyNames(p)
<1> DEFINE of(p, m) == IF m \in created THEN Event("CREATE", m, FindInversePropertyNames(p) \union {Code})
                       ELSE Event("UPDATE", m, FindInversePropertyNames(p))
<1>1. \A p, m : /\ of(p, m).code = m /\ FindInversePropertyNames(p) \subseteq of(p, m).props
                /\ m \in created => of(p, m).action = "CREATE"
                /\ of(p, m).action = "UPDATE" => of(p, m).props = FindInversePropertyNames(p)
  BY DEF Event
<1>2. GenerateRelatedEvents(relationships, created) = UNION {{of(p, m) : m \in relationships[p]} : p \in RelNames}
  BY DEF GenerateRelatedEvents
<1> HIDE DEF of
<1>3. ASSUME NEW p \in RelNames, NEW m \in relationships[p]
      PROVE  of(p, m) \in GenerateRelatedEvents(relationships, created)
  BY <1>2
<1>4. ASSUME NEW e \in GenerateRelatedEvents(relationships, created)
      PROVE  \E p \in RelNames : \E m \in relationships[p] : e = of(p, m)
  BY <1>2
<1>5. ASSUME NEW p \in RelNames, NEW m \in relationships[p]
      PROVE  \E e \in GenerateRelatedEvents(relationships, created) :
                 /\ e.code = m /\ FindInversePropertyNames(p) \subseteq e.props
                 /\ m \in created => e.action = "CREATE"
  BY <1>1, <1>3
<1>6. ASSUME NEW e \in GenerateRelatedEvents(relationships, created)
      PROVE  \E p \in RelNames : \E m \in relationships[p] :
                 e.code = m /\ (e.action = "UPDATE" => e.props = FindInversePropertyNames(p))
  BY <1>1, <1>4
<1> QED
  BY <1>5, <1>6

\* Which partners a write may name: codes of the type that the property relates to.
Typed(code, relationships) ==
    \A p \in RelNames : \A m \in relationships[p] :
        m \in Codes /\ Def[p].of = TypeOf[code] /\ Def[p].type = TypeOf[m]

\* A relationship that a write sends or removes is one of a partner in its events.
LEMMA SentIsNamed ==
    ASSUME NEW code, NEW relationships \in Relations, Typed(code, relationships),
           NEW q \in RelNames, NEW m \in SharedParameter(relationships)[q]
    PROVE  \E n \in FindPropertyNames(q) :
               /\ n \in RelNames /\ m \in relationships[n] /\ m \in Codes
               /\ Def[n].of = TypeOf[code] /\ Def[n].type = TypeOf[m]
               /\ FindInversePropertyNames(n) = FindInversePropertyNames(q)
<1>1. PICK n \in FindPropertyNames(q) : SharedParameter(relationships)[q] = relationships[n]
  BY SharedFacts
<1>2. /\ n \in RelNames /\ Def[n].of = Def[q].of /\ Def[n].type = Def[q].type
      /\ Def[n].direction = Def[q].direction /\ Def[n].relationship = Def[q].relationship
  BY DEF FindPropertyNames, FindPropertyNamesFromPropertyDef, PropertiesOf
<1>3. FindInversePropertyNames(n) = FindInversePropertyNames(q)
  BY <1>2 DEF FindInversePropertyNames
<1> QED
  BY <1>1, <1>2, <1>3 DEF Typed

\* Property p of c shows a relationship that is sent or removed: c is the record
\* and a synonym of p is named, or c is the partner and p an inverse.
NamedFor(code, relationships, c, p) ==
    \E n \in RelNames :
        \/ c = code /\ p \in FindPropertyNames(n) /\ relationships[n] # {}
        \/ c \in relationships[n] /\ p \in FindInversePropertyNames(n)

LEMMA ShownIsNamed ==
    ASSUME NEW code, NEW relationships \in Relations, Typed(code, relationships),
           NEW c, NEW p \in RelNames, NEW x, Def[p].of = TypeOf[c], Def[p].type = TypeOf[x],
           Edge(c, p, x) \in Edges(code, SharedParameter(relationships))
    PROVE  NamedFor(code, relationships, c, p)
<1>1. PICK q \in RelNames : \E m \in SharedParameter(relationships)[q] : Edge(c, p, x) = Edge(code, q, m)
  BY DEF Edges
<1>2. PICK m \in SharedParameter(relationships)[q] : Edge(code, q, m) = Edge(c, p, x)
  BY <1>1
<1>3. PICK n \in FindPropertyNames(q) :
          /\ n \in RelNames /\ m \in relationships[n]
          /\ Def[n].of = TypeOf[code] /\ Def[n].type = TypeOf[m]
          /\ FindInversePropertyNames(n) = FindInversePropertyNames(q)
  BY SentIsNamed
<1>4. Edge(code, n, m) = Edge(c, p, x)
  BY <1>2, ClassFacts
<1>5. Def[n].relationship = Def[p].relationship
  BY <1>3, <1>4, SameEdge
<1>6. CASE Def[n].direction = Def[p].direction /\ c = code /\ x = m
  <2>1. p \in FindPropertyNames(n)
    BY <1>3, <1>5, <1>6 DEF FindPropertyNames, FindPropertyNamesFromPropertyDef, PropertiesOf
  <2> QED
    BY <1>3, <1>6, <2>1 DEF NamedFor
<1>7. CASE Def[n].direction = InvertDirection(Def[p].direction) /\ c = m /\ x = code
  <2>1. p \in FindInversePropertyNames(n)
    BY <1>3, <1>5, <1>7, InverseFacts
  <2> QED
    BY <1>3, <1>7, <2>1 DEF NamedFor
<1> QED
  BY <1>3, <1>4, <1>6, <1>7, SameEdge
-----------------------------------------------------------------------------
(* Everything that a write changes is told, unless a relationship is taken  *)
(* from a third record, which is told nothing.                              *)
CodeIsApart == Code \notin Plain \union RelNames

NobodyTakesOver == \A p \in RelNames : ~ ToOne(p) => \A q \in FindInversePropertyNames(p) : ~ ToOne(q)

LEMMA NothingConflicts ==
    ASSUME NobodyTakesOver, NEW g, NEW code, NEW changed
    PROVE  Conflicting(g, code, changed) = {}
BY DEF NobodyTakesOver, Conflicting, Named

\* What the record itself and its partners are told.
LEMMA OwnTell ==
    ASSUME CodeIsApart, NEW action, NEW code, NEW updated, NEW changed, NEW removed, NEW created,
           NEW n \in updated, n # Code, NEW p \in FindPropertyNames(n)
    PROVE  Tells(CombineSimilarEvents(MakeEvents(action, code, updated, changed, removed, created)), code, p)
<1>1. PICK all : all = MakeEvents(action, code, updated, changed, removed, created)
  OBVIOUS
<1>2. PICK e : e = Event(action, code, IF action = "UPDATE" THEN updated \ {Code} ELSE updated)
  OBVIOUS
<1>3. e \in all
  BY <1>1, <1>2 DEF MakeEvents, OwnEvents
<1>4. e.code = code /\ n \in e.props
  BY <1>2 DEF Event
<1>5. PICK f \in CombineSimilarEvents(all) :
          f.code = code /\ \A q \in e.props : FindPropertyNames(q) \subseteq f.props
  BY <1>3, <1>4, CombinedTell
<1>6. p \in f.props
  BY <1>4, <1>5
<1> QED
  BY <1>1, <1>5, <1>6 DEF Tells

LEMMA PartnersTell ==
    ASSUME NEW action, NEW code, NEW updated, NEW changed, NEW removed, NEW created,
           NEW n \in RelNames, NEW m, m \in changed[n] \/ m \in removed[n],
           NEW p \in FindInversePropertyNames(n)
    PROVE  Tells(CombineSimilarEvents(MakeEvents(action, code, updated, changed, removed, created)), m, p)
<1>1. PICK all : all = MakeEvents(action, code, updated, changed, removed, created)
  OBVIOUS
<1>2. GenerateRelatedEvents(changed, created) \subseteq all /\ GenerateRelatedEvents(removed, {}) \subseteq all
  BY <1>1 DEF MakeEvents, MakeAddedRelationshipEvents, MakeRemovedRelationshipEvents
<1>3. PICK e \in all : e.code = m /\ FindInversePropertyNames(n) \subseteq e.props
  BY <1>2, RelatedAre
<1>4. PICK f \in CombineSimilarEvents(all) :
          f.code = m /\ \A q \in e.props : FindPropertyNames(q) \subseteq f.props
  BY <1>3, CombinedTell
<1>5. p \in f.props
  BY <1>3, <1>4, OwnNames
<1> QED
  BY <1>1, <1>4, <1>5 DEF Tells

LEMMA ChangedEdge ==
    ASSUME NEW g, NEW w, NEW c, NEW p, Partners(w, c, p) # Partners(g, c, p)
    PROVE  \E x \in Codes : /\ Def[p].of = TypeOf[c] /\ Def[p].type = TypeOf[x]
                            /\ ~ (Edge(c, p, x) \in w.edges <=> Edge(c, p, x) \in g.edges)
BY DEF Partners

LEMMA WriteTells ==
    ASSUME CodeIsApart, NobodyTakesOver, NEW g \in Graphs, NEW code \in Codes, NEW action,
           NEW properties, NEW removed \in Relations, NEW changed \in Relations,
           Typed(code, removed), Typed(code, changed),
           NEW w, w.prop = [g.prop EXCEPT ![code] = Row(g, code, properties)],
           w.edges = NewEdges(g, code, removed, changed),
           NEW updated, DOMAIN properties \union Named(removed) \union Named(changed) \subseteq updated,
           NEW created, NEW c \in Codes, NEW p \in Plain \union PropertiesOf(TypeOf[c]),
           Shown(w, c, p) # Shown(g, c, p)
    PROVE  Tells(CombineSimilarEvents(MakeEvents(action, code, updated, changed, removed, created)), c, p)
<1>1. p # Code
  BY DEF CodeIsApart, PropertiesOf
<1>2. CASE p \in Plain
  <2>1. w.prop[c][p] # g.prop[c][p]
    BY <1>2 DEF Shown
  <2>2. PICK row : row = Row(g, code, properties)
    OBVIOUS
  <2>3. w.prop = [g.prop EXCEPT ![code] = row] /\ g.prop \in [Codes -> [Plain -> Values \union {Null}]]
    BY <2>2 DEF Graphs
  <2>4. c = code /\ row[p] # g.prop[code][p]
    BY <2>1, <2>3
  <2>5. p \in DOMAIN properties
    BY <1>2, <2>2, <2>4 DEF Row
  <2>6. p \in updated /\ p \in FindPropertyNames(p)
    BY <2>5, OwnNames
  <2> QED
    BY <1>1, <2>4, <2>6, OwnTell
<1>3. CASE p \notin Plain
  <2>1. p \in RelNames /\ Partners(w, c, p) # Partners(g, c, p)
    BY <1>3 DEF Shown, PropertiesOf
  <2>2. PICK x \in Codes : /\ Def[p].of = TypeOf[c] /\ Def[p].type = TypeOf[x]
                           /\ ~ (Edge(c, p, x) \in w.edges <=> Edge(c, p, x) \in g.edges)
    BY <2>1, ChangedEdge
  <2>3. w.edges = (g.edges \ Edges(code, SharedParameter(removed))) \union Edges(code, SharedParameter(changed))
    BY NothingConflicts DEF NewEdges
  <2>4. ASSUME NEW sent \in Relations, sent \in {removed, changed}, Typed(code, sent),
               Edge(c, p, x) \in Edges(code, SharedParameter(sent))
        PROVE  Tells(CombineSimilarEvents(MakeEvents(action, code, updated, changed, removed, created)), c, p)
    <3>1. NamedFor(code, sent, c, p)
      BY <2>1, <2>2, <2>4, ShownIsNamed
    <3>2. PICK n \in RelNames :
              \/ c = code /\ p \in FindPropertyNames(n) /\ sent[n] # {}
              \/ c \in sent[n] /\ p \in FindInversePropertyNames(n)
      BY <3>1 DEF NamedFor
    <3>3. CASE c = code /\ p \in FindPropertyNames(n) /\ sent[n] # {}
      <4>1. n \in updated /\ n # Code
        BY <2>4, <3>3 DEF Named, CodeIsApart
      <4> QED
        BY <3>3, <4>1, OwnTell
    <3>4. CASE c \in sent[n] /\ p \in FindInversePropertyNames(n)
      BY <2>4, <3>4, PartnersTell
    <3> QED
      BY <3>2, <3>3, <3>4
  <2> QED
    BY <2>2, <2>3, <2>4
<1> QED
  BY <1>2, <1>3
-----------------------------------------------------------------------------
(* Steps and their events.                                                 *)
AllAnnounced ==
    \A c \in Codes :
        /\ c \in graph'.nodes \ graph.nodes => \E e \in news' : e.action = "CREATE" /\ e.code = c
        /\ c \in graph.nodes \ graph'.nodes => \E e \in news' : e.action = "DELETE" /\ e.code = c
        /\ c \in graph'.nodes =>
              \A p \in Plain \union PropertiesOf(TypeOf[c]) :
                  Shown(graph', c, p) # Shown(graph, c, p) =>
                      \E e \in news' : e.code = c /\ p \in e.props

Updated(properties, removed, changed) == UNION {DOMAIN properties, {Code}, Named(removed), Named(changed)}

\* A step that writes a record with its relationships and tells of that.
WrittenAndTold(action, code, properties, removed, changed) ==
    /\ graph'.nodes = graph.nodes \union {code} \union CreatedBeside(graph, code, changed)
    /\ graph'.prop = [graph.prop EXCEPT ![code] = Row(graph, code, properties)]
    /\ graph'.edges = NewEdges(graph, code, removed, changed)
    /\ news' = CombineSimilarEvents(
                   MakeEvents(action, code, Updated(properties, removed, changed), changed, removed,
                              Created(graph, graph', code)))

LEMMA CreateWrites ==
    ASSUME TypeInv, NEW r \in Requests, CreateCommits(r), NEW i, i = req[r].input,
           NEW none, none = [p \in RelNames |-> {}]
    PROVE  /\ WrittenAndTold("CREATE", i.code, NewProperties(i), none, GetWriteRelationships(i.body))
           /\ i.code \notin graph.nodes /\ i \in Inputs
<1>1. i \in Inputs
  BY DEF TypeInv, TypeOK, Request
<1>2. PICK changed \in Relations : changed = GetWriteRelationships(i.body)
  BY <1>1, InputType
<1>3. PICK properties : properties = NewProperties(i)
  OBVIOUS
<1>4. PropertyChanges(properties) /\ i.code \in Codes /\ graph \in Graphs /\ i.code \notin graph.nodes
  BY <1>1, <1>3, InputType, DiffType DEF NewProperties, TypeInv, TypeOK, CreateCommits, CreateFails
<1>5. PICK locks \in LockTables : locks = CreateLockedFields(i.client, i.lock, Keys(i.body))
  BY <1>1, InputType, CreateLockedFieldsType
<1>6. PICK created : created = [graph EXCEPT !.stamped = @ \union {i.code}]
  OBVIOUS
<1>7. /\ created \in Graphs /\ created.nodes = graph.nodes /\ created.edges = graph.edges
      /\ created.prop = graph.prop /\ created.lock = graph.lock
  BY <1>4, <1>6 DEF Graphs
<1>8. none \in Relations
  BY NoRelations
<1>9. PICK w : w = WriteRelationships(WriteNode(created, i.code, properties, locks), i.code, none, changed)
  OBVIOUS
<1>10. w = CreateQuery(graph, i.code, properties, locks, changed)
  BY <1>6, <1>9 DEF CreateQuery
<1>11. graph' = w
  BY <1>2, <1>3, <1>5, <1>10 DEF CreateCommits, Commit
<1>12. PICK updated : updated = DOMAIN properties \union {Code} \union Named(changed)
  OBVIOUS
<1>13. news' = CombineSimilarEvents(MakeEvents("CREATE", i.code, updated, changed, none, Created(graph, graph', i.code)))
  BY <1>2, <1>3, <1>5, <1>10, <1>11, <1>12 DEF CreateCommits, Commit
<1>14. updated = Updated(properties, none, changed)
  BY <1>12 DEF Updated, Named
<1>15. WrittenInFull(created, i.code, properties, locks, none, changed, w)
  <2>1. locks \in LockTables /\ changed \in Relations
    OBVIOUS
  <2> QED
    BY <1>4, <1>7, <1>8, <1>9, <2>1, WriteFields
<1>16. /\ CreatedBeside(created, i.code, changed) = CreatedBeside(graph, i.code, changed)
       /\ Row(created, i.code, properties) = Row(graph, i.code, properties)
       /\ NewEdges(created, i.code, none, changed) = NewEdges(graph, i.code, none, changed)
  BY <1>7 DEF CreatedBeside, Row, NewEdges, Conflicting
<1>17. /\ graph'.nodes = graph.nodes \union {i.code} \union CreatedBeside(graph, i.code, changed)
       /\ graph'.prop = [graph.prop EXCEPT ![i.code] = Row(graph, i.code, properties)]
       /\ graph'.edges = NewEdges(graph, i.code, none, changed)
  BY <1>7, <1>11, <1>15, <1>16 DEF WrittenInFull
<1> QED
  BY <1>1, <1>2, <1>3, <1>4, <1>13, <1>14, <1>17 DEF WrittenAndTold

LEMMA MergeWrites ==
    ASSUME TypeInv, NEW r \in Requests, MergeCommits(r), NEW i, i = req[r].input, NEW seen, seen = req[r].seen
    PROVE  /\ WrittenAndTold("UPDATE", i.code, Diff(i, seen), Removed(i, seen), Changed(i, seen))
           /\ i \in Inputs /\ seen \in Contents
<1>1. i \in Inputs /\ seen \in Contents /\ graph \in Graphs /\ i.code \in Codes
  BY InputType DEF TypeInv, TypeOK, Request
<1>2. PICK changed \in Relations : changed = Changed(i, seen)
  BY <1>1, ChangedType
<1>3. PICK removed \in Relations : removed = Removed(i, seen)
  BY <1>1, RemovedType
<1>4. PICK properties : properties = Diff(i, seen)
  OBVIOUS
<1>5. PropertyChanges(properties)
  BY <1>1, <1>4, InputType, DiffType DEF Diff
<1>6. PICK locks \in LockTables : locks = Locks(i, seen)
  BY <1>1, InputType, MergeLockedFieldsType DEF Locks, Contents
<1>7. PICK w : w = WriteRelationships(WriteNode(graph, i.code, properties, locks), i.code, removed, changed)
  OBVIOUS
<1>8. w = MergeQuery(graph, i.code, properties, locks, removed, changed)
  BY <1>7 DEF MergeQuery
<1>9. graph' = w
  BY <1>2, <1>3, <1>4, <1>6, <1>8 DEF MergeCommits, Commit
<1>10. PICK updated : updated = Updated(properties, removed, changed)
  OBVIOUS
<1>11. updated = UNION {DOMAIN properties, {Code}, Named(removed), Named(changed)}
  BY <1>10 DEF Updated
<1>12. news' = CombineSimilarEvents(MakeEvents("UPDATE", i.code, updated, changed, removed, Created(graph, graph', i.code)))
  BY <1>2, <1>3, <1>4, <1>6, <1>8, <1>9, <1>11 DEF MergeCommits, Commit
<1>13. WrittenInFull(graph, i.code, properties, locks, removed, changed, w)
  <2>1. locks \in LockTables /\ removed \in Relations /\ changed \in Relations
    OBVIOUS
  <2> QED
    BY <1>1, <1>5, <1>7, <2>1, WriteFields
<1>14. /\ graph'.nodes = graph.nodes \union {i.code} \union CreatedBeside(graph, i.code, changed)
       /\ graph'.prop = [graph.prop EXCEPT ![i.code] = Row(graph, i.code, properties)]
       /\ graph'.edges = NewEdges(graph, i.code, removed, changed)
  BY <1>9, <1>13 DEF WrittenInFull
<1> QED
  BY <1>1, <1>2, <1>3, <1>4, <1>10, <1>12, <1>14 DEF WrittenAndTold

LEMMA WriteAnnounces ==
    ASSUME CodeIsApart, NobodyTakesOver, TypeInv, NEW action, NEW code \in Codes,
           NEW properties, NEW removed \in Relations, NEW changed \in Relations,
           Typed(code, removed), Typed(code, changed),
           action = "CREATE" \/ code \in graph.nodes,
           WrittenAndTold(action, code, properties, removed, changed)
    PROVE  AllAnnounced
<1>1. PICK created : created = Created(graph, graph', code)
  OBVIOUS
<1>2. PICK updated : updated = Updated(properties, removed, changed)
  OBVIOUS
<1>3. PICK all : all = MakeEvents(action, code, updated, changed, removed, created)
  OBVIOUS
<1>4. news' = CombineSimilarEvents(all)
  BY <1>1, <1>2, <1>3 DEF WrittenAndTold
<1>5. ASSUME NEW c \in graph'.nodes \ graph.nodes
      PROVE  \E e \in news' : e.action = "CREATE" /\ e.code = c
  <2>1. CASE c = code
    <3>1. PICK e : e = Event(action, code, IF action = "UPDATE" THEN updated \ {Code} ELSE updated)
      OBVIOUS
    <3>2. updated # {}
      BY <1>2 DEF Updated
    <3>3. e \in all
      BY <1>3, <3>1, <3>2 DEF MakeEvents, OwnEvents
    <3>4. e.code = c /\ e.action = "CREATE"
      BY <2>1, <3>1 DEF Event
    <3>5. \E f \in CombineSimilarEvents(all) : f.action = e.action /\ f.code = e.code
      BY <3>3, CombinedTell
    <3> QED
      BY <1>4, <3>4, <3>5
  <2>2. CASE c # code
    <3>1. c \in CreatedBeside(graph, code, changed) /\ c \in created
      BY <1>1, <2>2 DEF WrittenAndTold, Created
    <3>2. PICK q \in RelNames : c \in SharedParameter(changed)[q]
      BY <3>1 DEF CreatedBeside
    <3>3. PICK n \in RelNames : c \in changed[n]
      BY <3>2, SentIsNamed
    <3>4. PICK e \in GenerateRelatedEvents(changed, created) : e.code = c /\ e.action = "CREATE"
      BY <3>1, <3>3, RelatedAre
    <3>5. e \in all
      BY <1>3, <3>4 DEF MakeEvents, MakeAddedRelationshipEvents
    <3>6. \E f \in CombineSimilarEvents(all) : f.action = e.action /\ f.code = e.code
      BY <3>5, CombinedTell
    <3> QED
      BY <1>4, <3>4, <3>6
  <2> QED
    BY <2>1, <2>2
<1>6. graph.nodes \ graph'.nodes = {}
  BY DEF WrittenAndTold
<1>7. ASSUME NEW c \in Codes, NEW p \in Plain \union PropertiesOf(TypeOf[c]), Shown(graph', c, p) # Shown(graph, c, p)
      PROVE  \E e \in news' : e.code = c /\ p \in e.props
  <2>1. graph \in Graphs
    BY DEF TypeInv, TypeOK
  <2>2. PICK w : w = graph'
    OBVIOUS
  <2>3. w.prop = [graph.prop EXCEPT ![code] = Row(graph, code, properties)] /\ w.edges = NewEdges(graph, code, removed, changed)
    BY <2>2 DEF WrittenAndTold
  <2>4. DOMAIN properties \union Named(removed) \union Named(changed) \subseteq updated
    BY <1>2 DEF Updated
  <2>5. Tells(CombineSimilarEvents(MakeEvents(action, code, updated, changed, removed, created)), c, p)
    BY <1>7, <2>1, <2>2, <2>3, <2>4, WriteTells
  <2> QED
    BY <1>3, <1>4, <2>5 DEF Tells
<1> QED
  BY <1>5, <1>6, <1>7 DEF AllAnnounced

-----------------------------------------------------------------------------
(* What a handler that is going to merge has read are partners of the type  *)
(* that their property relates to; records are neither absorbed nor, while  *)
(* an update runs, deleted.                                                 *)
NobodyAbsorbs == \A i \in workload.inputs : i.method # "ABSORB"

SeenTyped == \A r \in Requests : req[r].pc = "merge" => Typed(req[r].input.code, req[r].seen.rel)

NewsInv == StampInv /\ InputsKnown /\ SeenTyped /\ NobodyAbsorbs

LEMMA ContentTyped ==
    ASSUME NEW g, NEW code
    PROVE  Typed(code, Content(g, code).rel)
<1>1. \A p \in RelNames : Content(g, code).rel[p] \subseteq Partners(g, code, p)
  BY DEF Content, FirstOf
<1> QED
  BY <1>1 DEF Typed, Partners

LEMMA WriteTyped ==
    ASSUME NEW i \in Inputs
    PROVE  Typed(i.code, GetWriteRelationships(i.body))
<1>1. IsBody(TypeOf[i.code], i.body)
  BY InputAssumption DEF IsInput
<1> QED
  BY <1>1 DEF IsBody, IsPartial, PropertiesOf, PartnersFor, GetWriteRelationships, Typed

LEMMA LessIsTyped ==
    ASSUME NEW code, NEW more, Typed(code, more), NEW less, \A p \in RelNames : less[p] \subseteq more[p]
    PROVE  Typed(code, less)
BY DEF Typed

LEMMA NextNews ==
    ASSUME NoErasureDuringUpdates, NewsInv, [Next]_vars
    PROVE  NewsInv'
<1>1. StampInv'
  BY NextStamps DEF NewsInv
<1>2. CASE UNCHANGED vars
  <2>1. graph' = graph /\ req' = req /\ workload' = workload
    BY <1>2 DEF vars
  <2> QED
    BY <1>1, <2>1 DEF NewsInv, InputsKnown, SeenTyped, NobodyAbsorbs, Busy
<1>3. CASE Next
  <2>1. PICK r \in Requests : Arrive(r) \/ Handle(r)
    BY <1>3 DEF Next
  <2>2. TypeInv /\ UNCHANGED workload
    BY <1>3 DEF Next, NewsInv, StampInv
  <2>3. InputsKnown' /\ NobodyAbsorbs'
    BY <2>1, <2>2, HandlerStepInputs DEF NewsInv, NobodyAbsorbs
  <2>4. PICK k \in Request : Becomes(r, k)
    BY <2>1, <2>2, ArriveBecomes, HandleBecomes
  <2>5. /\ req' = [req EXCEPT ![r] = k] /\ req \in [Requests -> Request]
        /\ k.pc = "merge" => k.seen = Content(graph, k.input.code)
    BY <2>2, <2>4 DEF Becomes, TypeInv, TypeOK
  <2>6. req'[r] = k /\ \A q \in Requests \ {r} : req'[q] = req[q]
    BY <2>5
  <2>7. k.pc = "merge" => Typed(k.input.code, k.seen.rel)
    BY <2>5, ContentTyped
  <2>8. ASSUME NEW q \in Requests, req'[q].pc = "merge"
        PROVE  Typed(req'[q].input.code, req'[q].seen.rel)
    BY <2>6, <2>7, <2>8 DEF NewsInv, SeenTyped
  <2>9. SeenTyped'
    BY <2>8 DEF SeenTyped
  <2> QED
    BY <1>1, <2>3, <2>9 DEF NewsInv
<1> QED
  BY <1>2, <1>3

LEMMA HandlerStepAnnounces ==
    ASSUME CodeIsApart, NobodyTakesOver, NewsInv, NEW r \in Requests, Handle(r)
    PROVE  AllAnnounced
<1>1. TypeInv /\ FoundIsThere /\ Busy(r)
  BY HandlerIsBusy DEF NewsInv, StampInv
<1>2. PICK i \in Inputs : i = req[r].input
  BY <1>1 DEF TypeInv, TypeOK, Request
<1>3. i.method # "ABSORB" /\ i.code \in Codes
  BY <1>1, <1>2, InputType DEF NewsInv, InputsKnown, NobodyAbsorbs
<1>4. CASE Quiet
  BY <1>4 DEF Quiet, AllAnnounced
<1>5. CASE CreateCommits(r)
  <2>1. PICK none : none = [p \in RelNames |-> {}]
    OBVIOUS
  <2>2. PICK changed \in Relations : changed = GetWriteRelationships(i.body)
    BY InputType
  <2>3. Typed(i.code, changed) /\ Typed(i.code, none) /\ none \in Relations
    BY <2>1, <2>2, WriteTyped, NoRelations DEF Typed
  <2>4. WrittenAndTold("CREATE", i.code, NewProperties(i), none, changed)
    BY <1>1, <1>2, <1>5, <2>1, <2>2, CreateWrites
  <2> QED
    BY <1>1, <1>3, <2>3, <2>4, WriteAnnounces
<1>6. CASE MergeCommits(r)
  <2>1. PICK seen \in Contents : seen = req[r].seen
    BY <1>1 DEF TypeInv, TypeOK, Request
  <2>2. PICK changed \in Relations : changed = Changed(i, seen)
    BY ChangedType
  <2>3. PICK removed \in Relations : removed = Removed(i, seen)
    BY <2>1, RemovedType
  <2>4. WrittenAndTold("UPDATE", i.code, Diff(i, seen), removed, changed)
    BY <1>1, <1>2, <1>6, <2>1, <2>2, <2>3, MergeWrites
  <2>5. Typed(i.code, changed)
    <3>1. \A p \in RelNames : changed[p] \subseteq GetWriteRelationships(i.body)[p]
      BY <2>2 DEF Changed, GetChangedRelationships, GetDiffs
    <3> QED
      BY <3>1, WriteTyped, LessIsTyped
  <2>6. req[r].pc = "merge"
    BY <1>6 DEF MergeCommits
  <2>7. Typed(i.code, removed)
    <3>1. Typed(i.code, seen.rel)
      BY <1>2, <2>1, <2>6 DEF NewsInv, SeenTyped
    <3>2. \A p \in RelNames : removed[p] \subseteq seen.rel[p]
      BY <2>3 DEF Removed, GetRemovedRelationships, FindActualDeletions, FindImplicitDeletions
    <3> QED
      BY <3>1, <3>2, LessIsTyped
  <2>8. i.code \in graph.nodes
    BY <1>1, <1>2, <2>6 DEF FoundIsThere
  <2> QED
    BY <1>1, <1>3, <2>4, <2>5, <2>7, <2>8, WriteAnnounces
<1>7. CASE DeleteCommits(r)
  <2>1. graph \in Graphs
    BY <1>1 DEF TypeInv, TypeOK
  <2>2. PICK w : w = graph' /\ w = DeleteQuery(graph, i.code)
    BY <1>2, <1>7 DEF DeleteCommits, Commit
  <2>3. /\ w.nodes = graph.nodes \ {i.code} /\ w.edges = graph.edges
        /\ \A c \in Codes \ {i.code} : w.prop[c] = graph.prop[c]
    BY <1>3, <2>1, <2>2, DeleteFields, DeleteRows
  <2>4. DeleteEvent(i.code) \in news' /\ DeleteEvent(i.code).action = "DELETE" /\ DeleteEvent(i.code).code = i.code
    BY <1>2, <1>7 DEF DeleteCommits, Commit, DeleteEvent, Event
  <2>5. \A c \in Codes \ {i.code} : \A p : Shown(w, c, p) = Shown(graph, c, p)
    BY <2>3 DEF Shown, Partners
  <2> QED
    BY <2>2, <2>3, <2>4, <2>5 DEF AllAnnounced
<1>8. ~ AbsorbCommits(r)
  BY <1>1, <1>2, <1>3, AbsorbEffect
<1> QED
  BY <1>4, <1>5, <1>6, <1>7, <1>8, GraphSteps

\* broadcast tells of every record that is created or deleted and of every property
\* whose value or partners change, at both ends of a relationship, however POSTs
\* and PATCHes overlap: in behaviours without ABSORB, where no relationship with
\* one value at the other end can be taken over, and no DELETE runs beside an
\* update.
THEOREM ChangesTold ==
    ASSUME CodeIsApart, NobodyTakesOver, NoErasureDuringUpdates
    PROVE  Spec /\ NobodyAbsorbs => ChangesAreAnnounced
<1>1. Init /\ NobodyAbsorbs => NewsInv
  <2> SUFFICES ASSUME Init, NobodyAbsorbs PROVE NewsInv
    OBVIOUS
  <2>1. StampInv
    BY InitType, InitExclusive, NoRequestType DEF Init, StampInv, FoundIsThere, EveryRecordStamped, EmptyGraph
  <2>2. InputsKnown
    BY InitOne DEF OneInv
  <2>3. SeenTyped
    BY NoRequestType DEF Init, SeenTyped
  <2> QED
    BY <2>1, <2>2, <2>3 DEF NewsInv
<1>2. NewsInv /\ [Next]_vars => NewsInv'
  BY NextNews
<1>3. NewsInv /\ [Next]_vars => [AllAnnounced]_vars
  <2> SUFFICES ASSUME NewsInv, Next PROVE AllAnnounced
    OBVIOUS
  <2>1. PICK r \in Requests : Arrive(r) \/ Handle(r)
    BY DEF Next
  <2>2. CASE Arrive(r)
    BY <2>2 DEF Arrive, Quiet, AllAnnounced
  <2> QED
    BY <2>1, <2>2, HandlerStepAnnounces
<1> QED
  BY <1>1, <1>2, <1>3, PTL DEF Spec, ChangesAreAnnounced, AllAnnounced

-----------------------------------------------------------------------------
(* And nothing else is told: an UPDATE names what has changed.             *)
NamesApart == CodeIsApart /\ Plain \cap RelNames = {}

OnlyChangesTold ==
    \A e \in news' : e.action = "UPDATE" =>
        \A p \in e.props : Shown(graph', e.code, p) # Shown(graph, e.code, p)

\* What the queries of a write do, seen from the record that was read.
Differs(code, removed, changed) ==
    \A p \in RelNames :
        /\ removed[p] \subseteq Partners(graph, code, p)
        /\ changed[p] \cap Partners(graph, code, p) = {}
        /\ code \notin removed[p] /\ code \notin changed[p]

\* A partner of another record is shown by the relationship alone.
LEMMA PartnerIsEdge ==
    ASSUME NEW g, NEW c, NEW p, NEW m \in Codes, c # m,
           Def[p].of = TypeOf[c], Def[p].type = TypeOf[m]
    PROVE  m \in Partners(g, c, p) <=> Edge(c, p, m) \in g.edges
BY DEF Partners

\* A relationship that a query sends, or removes, is there afterwards, or is not,
\* contrary to before.
LEMMA EdgesDiffer ==
    ASSUME NEW code \in Codes, NEW removed \in Relations, NEW changed \in Relations,
           NEW mentioned \in SUBSET RelNames, NoSynonyms(mentioned),
           \A p \in RelNames \ mentioned : removed[p] = {} /\ changed[p] = {},
           Typed(code, removed), Typed(code, changed), Differs(code, removed, changed),
           NEW w, w.edges = NewEdges(graph, code, removed, changed),
           NEW n \in RelNames, NEW m, m \in removed[n] \/ m \in changed[n]
    PROVE  /\ m \in Codes /\ m # code /\ Def[n].of = TypeOf[code] /\ Def[n].type = TypeOf[m]
           /\ ~ (Edge(code, n, m) \in w.edges <=> Edge(code, n, m) \in graph.edges)
<1>1. m \in Codes /\ m # code /\ Def[n].of = TypeOf[code] /\ Def[n].type = TypeOf[m]
  BY DEF Typed, Differs
<1>2. SharedParameter(removed) = removed /\ SharedParameter(changed) = changed
  BY NothingShared
<1>3. w.edges = ((graph.edges \ Edges(code, removed)) \ Conflicting(graph, code, changed)) \union Edges(code, changed)
  BY <1>2 DEF NewEdges
<1>4. CASE m \in changed[n]
  <2>1. Edge(code, n, m) \in Edges(code, changed)
    BY <1>4 DEF Edges
  <2>2. m \notin Partners(graph, code, n)
    BY <1>4 DEF Differs
  <2>3. Edge(code, n, m) \notin graph.edges
    BY <1>1, <2>2, PartnerIsEdge
  <2> QED
    BY <1>1, <1>3, <2>1, <2>3
<1>5. CASE m \in removed[n]
  <2>1. Edge(code, n, m) \in Edges(code, removed) /\ m \in Partners(graph, code, n)
    BY <1>5 DEF Edges, Differs
  <2>2. Edge(code, n, m) \in graph.edges
    BY <2>1 DEF Partners
  <2>3. ASSUME NEW q \in RelNames, NEW y \in changed[q], Edge(code, n, m) = Edge(code, q, y)
        PROVE  FALSE
    <3>1. Def[q].of = TypeOf[code] /\ Def[q].type = TypeOf[y] /\ y # code
      BY DEF Typed, Differs
    <3>2. Def[n].relationship = Def[q].relationship /\ Def[n].direction = Def[q].direction /\ y = m
      BY <1>1, <2>3, <3>1, SameEdge
    <3>3. q \in FindPropertyNames(n)
      BY <1>1, <3>1, <3>2 DEF FindPropertyNames, FindPropertyNamesFromPropertyDef, PropertiesOf
    <3>4. q \in mentioned /\ n \in mentioned
      BY <1>5, <2>3
    <3>5. q = n
      BY <3>3, <3>4 DEF NoSynonyms
    <3> QED
      BY <2>1, <2>3, <3>2, <3>5 DEF Differs
  <2>4. Edge(code, n, m) \notin Edges(code, changed)
    BY <2>3 DEF Edges
  <2> QED
    BY <1>1, <1>3, <2>1, <2>2, <2>4
<1> QED
  BY <1>4, <1>5

\* Both ends show it.
LEMMA EndsDiffer ==
    ASSUME NamesApart, NEW g, NEW w, NEW code \in Codes, NEW n \in RelNames, NEW m \in Codes, m # code,
           Def[n].of = TypeOf[code], Def[n].type = TypeOf[m],
           ~ (Edge(code, n, m) \in w.edges <=> Edge(code, n, m) \in g.edges)
    PROVE  /\ \A p \in FindPropertyNames(n) : Shown(w, code, p) # Shown(g, code, p)
           /\ \A p \in FindInversePropertyNames(n) : Shown(w, m, p) # Shown(g, m, p)
<1>1. ASSUME NEW p \in FindPropertyNames(n)
      PROVE  Shown(w, code, p) # Shown(g, code, p)
  <2>1. p \in RelNames /\ Partners(w, code, p) = Partners(w, code, n) /\ Partners(g, code, p) = Partners(g, code, n)
    BY ClassFacts
  <2>2. ~ (m \in Partners(w, code, n) <=> m \in Partners(g, code, n))
    BY PartnerIsEdge
  <2> QED
    BY <2>1, <2>2 DEF Shown, NamesApart
<1>2. ASSUME NEW p \in FindInversePropertyNames(n)
      PROVE  Shown(w, m, p) # Shown(g, m, p)
  <2>1. /\ p \in RelNames /\ Def[p].relationship = Def[n].relationship
        /\ Def[p].direction = InvertDirection(Def[n].direction)
        /\ Def[p].of = TypeOf[m] /\ Def[p].type = TypeOf[code]
    BY DEF FindInversePropertyNames, FindPropertyNamesFromPropertyDef, PropertiesOf
  <2>2. Edge(m, p, code) = Edge(code, n, m)
    BY <2>1, OppositeEdge
  <2>3. ~ (code \in Partners(w, m, p) <=> code \in Partners(g, m, p))
    BY <2>1, <2>2, PartnerIsEdge
  <2> QED
    BY <2>1, <2>3 DEF Shown, NamesApart
<1> QED
  BY <1>1, <1>2

LEMMA OnlyWritesTold ==
    ASSUME NamesApart, NEW action, NEW code \in Codes, NEW properties, PropertyChanges(properties),
           NEW removed \in Relations, NEW changed \in Relations,
           NEW mentioned \in SUBSET RelNames, NoSynonyms(mentioned),
           \A p \in RelNames \ mentioned : removed[p] = {} /\ changed[p] = {},
           Typed(code, removed), Typed(code, changed), Differs(code, removed, changed),
           graph \in Graphs, \A p \in DOMAIN properties : properties[p] # graph.prop[code][p],
           WrittenAndTold(action, code, properties, removed, changed)
    PROVE  OnlyChangesTold
<1>1. PICK w : w = graph'
  OBVIOUS
<1>2. /\ w.edges = NewEdges(graph, code, removed, changed)
      /\ w.prop = [graph.prop EXCEPT ![code] = Row(graph, code, properties)]
  BY <1>1 DEF WrittenAndTold
<1>3. ASSUME NEW n \in RelNames, NEW m, m \in removed[n] \/ m \in changed[n]
      PROVE  /\ \A p \in FindPropertyNames(n) : Shown(w, code, p) # Shown(graph, code, p)
             /\ \A p \in FindInversePropertyNames(n) : Shown(w, m, p) # Shown(graph, m, p)
  <2>1. /\ m \in Codes /\ m # code /\ Def[n].of = TypeOf[code] /\ Def[n].type = TypeOf[m]
        /\ ~ (Edge(code, n, m) \in w.edges <=> Edge(code, n, m) \in graph.edges)
    BY <1>2, <1>3, EdgesDiffer
  <2> QED
    BY <2>1, EndsDiffer
<1>4. ASSUME NEW p \in DOMAIN properties
      PROVE  p \in Plain /\ Shown(w, code, p) # Shown(graph, code, p)
  <2>1. p \in Plain
    BY DEF PropertyChanges, IsPartial
  <2>2. PICK row : row = Row(graph, code, properties)
    OBVIOUS
  <2>3. row[p] = properties[p]
    BY <2>1, <2>2 DEF Row
  <2>4. w.prop = [graph.prop EXCEPT ![code] = row] /\ graph.prop \in [Codes -> [Plain -> Values \union {Null}]]
    BY <1>2, <2>2 DEF Graphs
  <2>5. w.prop[code] = row
    BY <2>4
  <2> QED
    BY <2>1, <2>3, <2>5 DEF Shown
<1>5. PICK created : created = Created(graph, graph', code)
  OBVIOUS
<1>6. PICK updated : updated = Updated(properties, removed, changed)
  OBVIOUS
<1>7. PICK all : all = MakeEvents(action, code, updated, changed, removed, created)
  OBVIOUS
<1>8. news' = CombineSimilarEvents(all)
  BY <1>5, <1>6, <1>7 DEF WrittenAndTold
<1>9. ASSUME NEW e \in all, e.action = "UPDATE", NEW q \in e.props, NEW p \in FindPropertyNames(q)
      PROVE  Shown(w, e.code, p) # Shown(graph, e.code, p)
  <2>1. CASE e \in OwnEvents(action, code, updated)
    <3>1. e.code = code /\ q \in updated \ {Code}
      BY <1>9, <2>1 DEF OwnEvents, Event
    <3>2. CASE q \in DOMAIN properties
      <4>1. q \notin RelNames /\ Shown(w, code, q) # Shown(graph, code, q)
        BY <1>4, <3>2 DEF NamesApart
      <4>2. p = q
        BY <1>9, <4>1 DEF FindPropertyNames
      <4> QED
        BY <3>1, <4>1, <4>2
    <3>3. CASE q \in Named(removed) \union Named(changed)
      BY <1>3, <1>9, <3>1, <3>3 DEF Named
    <3> QED
      BY <1>6, <3>1, <3>2, <3>3 DEF Updated
  <2>2. ASSUME NEW sent \in {removed, changed}, NEW more, e \in GenerateRelatedEvents(sent, more)
        PROVE  Shown(w, e.code, p) # Shown(graph, e.code, p)
    <3>1. PICK n \in RelNames : \E m \in sent[n] :
              e.code = m /\ (e.action = "UPDATE" => e.props = FindInversePropertyNames(n))
      BY <2>2, RelatedAre
    <3>2. q \in FindInversePropertyNames(n) /\ (e.code \in removed[n] \/ e.code \in changed[n])
      BY <1>9, <3>1
    <3>3. p \in FindInversePropertyNames(n)
      <4>1. q \in RelNames
        BY <3>2 DEF FindInversePropertyNames, FindPropertyNamesFromPropertyDef, PropertiesOf
      <4> QED
        BY <1>9, <3>2, <4>1
        DEF FindPropertyNames, FindInversePropertyNames, FindPropertyNamesFromPropertyDef, PropertiesOf
    <3> QED
      BY <1>3, <3>2, <3>3
  <2> QED
    BY <1>7, <2>1, <2>2 DEF MakeEvents, MakeAddedRelationshipEvents, MakeRemovedRelationshipEvents
<1>10. ASSUME NEW f \in news', f.action = "UPDATE", NEW p \in f.props
       PROVE  Shown(w, f.code, p) # Shown(graph, f.code, p)
  <2>1. f \in CombineSimilarEvents(all)
    BY <1>8
  <2>2. PICK e \in all : /\ e.action = f.action /\ e.code = f.code
                         /\ \E q \in e.props : p \in FindPropertyNames(q)
    BY <1>10, <2>1, CombinedOnlyTell
  <2> QED
    BY <1>9, <1>10, <2>2
<1> QED
  BY <1>1, <1>10 DEF OnlyChangesTold

LEMMA NoSelfPartner ==
    ASSUME EdgesShown(graph), NEW code \in Codes, NEW p \in RelNames
    PROVE  code \notin Partners(graph, code, p)
<1> SUFFICES ASSUME Edge(code, p, code) \in graph.edges PROVE FALSE
  BY DEF Partners
<1>1. PICK q \in RelNames, c \in Codes, m \in Codes : ShownBy(q, c, m, Edge(code, p, code))
  BY DEF EdgesShown
<1>2. {Edge(code, p, code)[1], Edge(code, p, code)[3]} = {c, m} /\ c # m
  BY <1>1, ShownEnds
<1> QED
  BY <1>2, EdgeType

LEMMA DifferenceDiffers ==
    ASSUME EdgesShown(graph), NEW code \in Codes, NEW mentioned, NEW becomes, NEW removed, NEW changed,
           Difference(graph, code, mentioned, becomes, removed, changed),
           \A p \in RelNames : code \notin changed[p]
    PROVE  /\ Differs(code, removed, changed)
           /\ \A p \in RelNames \ mentioned : removed[p] = {} /\ changed[p] = {}
BY NoSelfPartner DEF Difference, Differs

LEMMA HandlerStepOnlyTells ==
    ASSUME NamesApart, NobodyRelatesToItself, NothingMentionedTwice, RemovesOrReplaces,
           AtomicInv, NobodyAbsorbs, NEW r \in Requests, Handle(r), ~ Quiet
    PROVE  OnlyChangesTold
<1>1. /\ TypeInv /\ Busy(r) /\ ReadIsCurrent /\ OnePartner(graph) /\ EdgesShown(graph)
      /\ graph \in Graphs
  BY HandlerIsBusy DEF AtomicInv, StampInv, OneInv, LockInv, TypeInv, TypeOK
<1>2. PICK i \in Inputs : i = req[r].input
  BY <1>1 DEF TypeInv, TypeOK, Request
<1>3. i.method # "ABSORB" /\ i.code \in Codes
  BY <1>1, <1>2, InputType DEF AtomicInv, OneInv, InputsKnown, NobodyAbsorbs
<1>4. PICK mentioned \in SUBSET RelNames : mentioned = Atomic!Mentioned(i)
  BY MentionedFacts
<1>5. NoSynonyms(mentioned)
  BY <1>4 DEF NothingMentionedTwice
<1>6. CASE CreateCommits(r)
  <2>1. PICK none \in Relations : none = [p \in RelNames |-> {}]
    BY NoRelations
  <2>2. PICK changed \in Relations : changed = GetWriteRelationships(i.body)
    BY InputType
  <2>3. PICK properties : properties = NewProperties(i)
    OBVIOUS
  <2>4. PropertyChanges(properties)
    BY <2>3, InputType, DiffType DEF NewProperties
  <2>5. WrittenAndTold("CREATE", i.code, properties, none, changed) /\ i.code \notin graph.nodes
    BY <1>1, <1>2, <1>6, <2>1, <2>2, <2>3, CreateWrites
  <2>6. Typed(i.code, changed) /\ Typed(i.code, none)
    BY <2>1, <2>2, WriteTyped DEF Typed
  <2>7. \A p \in RelNames : Partners(graph, i.code, p) = {}
    <3>1. \A e \in graph.edges : {e[1], e[3]} \subseteq graph.nodes
      BY <1>1 DEF TypeInv, TypeOK
    <3>2. \A p \in RelNames, m \in Codes : i.code \in {Edge(i.code, p, m)[1], Edge(i.code, p, m)[3]}
      <4>1. i.code \in Codes
        BY <1>3
      <4> QED
        BY <4>1, EdgeType
    <3> QED
      BY <2>5, <3>1, <3>2 DEF Partners
  <2>8. Difference(graph, i.code, mentioned, After(i), none, changed)
    BY <1>4, <2>1, <2>2, <2>7, CreateDifference
  <2>9. \A p \in RelNames : i.code \notin changed[p]
    BY <2>2, InputWritable DEF Writable
  <2>10. /\ Differs(i.code, none, changed)
         /\ \A p \in RelNames \ mentioned : none[p] = {} /\ changed[p] = {}
    BY <1>1, <1>3, <2>8, <2>9, DifferenceDiffers
  <2>11. \A p \in DOMAIN properties : properties[p] # graph.prop[i.code][p]
    <3>1. graph.prop[i.code] = NoProperties
      BY <1>1, <1>3, <2>5 DEF TypeInv, TypeOK
    <3> QED
      BY <2>3, <3>1 DEF NewProperties, DiffProperties
  <2> QED
    BY <1>1, <1>3, <1>5, <2>4, <2>5, <2>6, <2>10, <2>11, OnlyWritesTold
<1>7. CASE MergeCommits(r)
  <2>1. PICK seen \in Contents : seen = req[r].seen
    BY <1>1 DEF TypeInv, TypeOK, Request
  <2>2. PICK changed \in Relations : changed = Changed(i, seen)
    BY ChangedType
  <2>3. PICK removed \in Relations : removed = Removed(i, seen)
    BY <2>1, RemovedType
  <2>4. PICK properties : properties = Diff(i, seen)
    OBVIOUS
  <2>5. PropertyChanges(properties)
    BY <2>4, InputType, DiffType DEF Diff
  <2>6. WrittenAndTold("UPDATE", i.code, properties, removed, changed)
    BY <1>1, <1>2, <1>7, <2>1, <2>2, <2>3, <2>4, MergeWrites
  <2>7. seen = Content(graph, i.code)
    BY <1>1, <1>2, <1>7, <2>1 DEF ReadIsCurrent, MergeCommits
  <2>8. seen.rel = Content(graph, i.code).rel /\ seen.prop = graph.prop[i.code]
    BY <2>7 DEF Content
  <2>9. Difference(graph, i.code, mentioned, After(i), removed, changed)
    BY <1>1, <1>4, <2>2, <2>3, <2>8, MergeDifference
  <2>10. Typed(i.code, changed) /\ \A p \in RelNames : i.code \notin changed[p]
    <3>1. \A p \in RelNames : changed[p] \subseteq GetWriteRelationships(i.body)[p]
      BY <2>2 DEF Changed, GetChangedRelationships, GetDiffs
    <3> QED
      BY <3>1, WriteTyped, LessIsTyped, InputWritable DEF Writable
  <2>11. Typed(i.code, removed)
    <3>1. Typed(i.code, seen.rel)
      BY <2>8, ContentTyped
    <3>2. \A p \in RelNames : removed[p] \subseteq seen.rel[p]
      BY <2>3 DEF Removed, GetRemovedRelationships, FindActualDeletions, FindImplicitDeletions
    <3> QED
      BY <3>1, <3>2, LessIsTyped
  <2>12. /\ Differs(i.code, removed, changed)
         /\ \A p \in RelNames \ mentioned : removed[p] = {} /\ changed[p] = {}
    BY <1>1, <1>3, <2>9, <2>10, DifferenceDiffers
  <2>13. \A p \in DOMAIN properties : properties[p] # graph.prop[i.code][p]
    BY <2>4, <2>8 DEF Diff, DiffProperties
  <2> QED
    BY <1>1, <1>3, <1>5, <2>5, <2>6, <2>10, <2>11, <2>12, <2>13, OnlyWritesTold
<1>8. CASE DeleteCommits(r)
  BY <1>8 DEF DeleteCommits, Commit, DeleteEvent, Event, OnlyChangesTold
<1>9. ~ AbsorbCommits(r)
  BY <1>1, <1>2, <1>3, AbsorbEffect
<1> QED
  BY <1>6, <1>7, <1>8, <1>9, GraphSteps

\* And broadcast announces no update that did not happen: a property that an UPDATE
\* names has another value or other partners than before, at the record and at the
\* other ends.  The hypotheses are those under which requests are atomic, and
\* behaviours have no ABSORB: absorbHandler names properties of the main record
\* that have not changed when it has two partners.
THEOREM OnlyChangesAreTold ==
    ASSUME NamesApart, SameKind, OneSided, ShownBothWays,
           NobodyRelatesToItself, NothingMentionedTwice, RemovesOrReplaces,
           UpdatesRunAlone, AbsorbsKeepToAPair
    PROVE  Spec /\ NobodyAbsorbs => OnlyChangesAreAnnounced
<1>1. Init /\ NobodyAbsorbs => AtomicInv /\ NobodyAbsorbs
  BY InitAtomic
<1>2. AtomicInv /\ NobodyAbsorbs /\ [Next]_vars => AtomicInv' /\ NobodyAbsorbs'
  BY NextAtomic DEF Next, vars, NobodyAbsorbs
<1>3. AtomicInv /\ NobodyAbsorbs /\ [Next]_vars => [OnlyChangesTold]_vars
  <2> SUFFICES ASSUME AtomicInv, NobodyAbsorbs, Next PROVE OnlyChangesTold
    OBVIOUS
  <2>1. PICK r \in Requests : Arrive(r) \/ Handle(r)
    BY DEF Next
  <2>2. CASE Quiet
    BY <2>2 DEF Quiet, OnlyChangesTold
  <2> QED
    BY <2>1, <2>2, HandlerStepOnlyTells DEF Arrive
<1> QED
  BY <1>1, <1>2, <1>3, PTL DEF Spec, OnlyChangesAreAnnounced, OnlyChangesTold

=============================================================================
