---------------------------- MODULE RelatedEvents ----------------------------
(***************************************************************************)
(* packages/tc-api-rest-handlers/lib/events: the events that broadcast     *)
(* makes of a write.  An event has the action, the code and the properties *)
(* it names; timestamps, and types, which go with the codes, are left out. *)
(* Unnamed is a code that is undefined.                                    *)
(***************************************************************************)
EXTENDS GraphQueries

CONSTANT Unnamed

Actions == {"CREATE", "UPDATE", "DELETE"}

Event(action, code, props) == [action |-> action, code |-> code, props |-> props]

Events ==
    [action: Actions, code: Codes \union {Unnamed}, props: SUBSET ({Code} \union Plain \union RelNames)]

\* One event for each partner in a set of relationships.
GenerateRelatedEvents(relationships, created) ==
    UNION {{IF m \in created
            THEN Event("CREATE", m, FindInversePropertyNames(p) \union {Code})
            ELSE Event("UPDATE", m, FindInversePropertyNames(p)) :
                m \in relationships[p]} : p \in RelNames}

\* A slip: records that upsert creates are updates.
AddedAreUpdates(changed, created) == GenerateRelatedEvents(changed, {})

MakeAddedRelationshipEvents(changed, created) == GenerateRelatedEvents(changed, created)

MakeRemovedRelationshipEvents(removed) == GenerateRelatedEvents(removed, {})

\* The event of the record itself; an update does not name the code.
OwnEvents(action, code, updated) ==
    IF updated = {} THEN {}
    ELSE {Event(action, code, IF action = "UPDATE" THEN updated \ {Code} ELSE updated)}

MakeEvents(action, code, updated, changed, removed, created) ==
    UNION {OwnEvents(action, code, updated), MakeAddedRelationshipEvents(changed, created),
           MakeRemovedRelationshipEvents(removed)}

\* Events of the same action and record become one, which names every property
\* that shows the same data.
CombineSimilarEvents(events) ==
    {LET same == {f \in events : f.action = e.action /\ f.code = e.code}
     IN  Event(e.action, e.code, UNION {FindPropertyNames(p) : p \in UNION {f.props : f \in same}}) :
        e \in events}

DeleteEvent(code) == Event("DELETE", code, {})

\* A slip: the partners of an absorbed record are not told.
NoPeers(content) == [p \in RelNames |-> {}]

\* The partners of an absorbed record.
GetAlteredPeers(content) == content.rel

\* absorbHandler compares lists of strings as if they were lists of objects: if
\* there were partners before, each one is compared with the first of them and a
\* difference becomes an entry without a code.
AbsorbedChanges(before, after) ==
    [p \in RelNames |->
        CASE before.rel[p] = {}                        -> after.rel[p]
          [] after.rel[p] \subseteq FirstOf(before.rel[p]) -> {}
          [] OTHER                                     -> {Unnamed}]

==============================================================================
