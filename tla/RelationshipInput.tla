-------------------------- MODULE RelationshipInput --------------------------
(***************************************************************************)
(* packages/tc-api-rest-handlers/lib/relationships/input.js and            *)
(* lib/diff-properties.js: what a body changes in a record.                *)
(*                                                                         *)
(* A body has ordinary properties (prop, with Null to remove one),         *)
(* relationship properties with the codes to relate to (rel), "!p" with    *)
(* the codes to remove (drop), relationship properties that are null       *)
(* (clear), and perhaps the code.  normaliseRelationshipProps makes lists  *)
(* of objects of all relationship values; lists are sets here and the      *)
(* properties of a relationship are left out.  A body that relates to and  *)
(* removes the same code is refused before anything else and is no body    *)
(* here, nor is one with both p: null and "!p", where the order of its     *)
(* keys decides.                                                           *)
(*                                                                         *)
(* The content of a record is prop, lock and rel: the codes it is related  *)
(* to by each property.                                                    *)
(***************************************************************************)
EXTENDS Schema

CONSTANTS Values, Null, Code

ASSUME NullAssumption == Null \notin Values

Not(p) == <<"!", p>>

IsPartial(f, S, T) == DOMAIN f \subseteq S /\ \A p \in DOMAIN f : f[p] \in T

\* Codes that property p may hold.
PartnersFor(p) == {s \in SUBSET {c \in Codes : TypeOf[c] = Def[p].type} :
                     ToOne(p) => \A c, d \in s : c = d}

IsBody(type, b) ==
    /\ IsPartial(b.prop, Plain, Values \union {Null})
    /\ IsPartial(b.rel, PropertiesOf(type), SUBSET Codes)
    /\ IsPartial(b.drop, PropertiesOf(type), SUBSET Codes)
    /\ b.clear \subseteq PropertiesOf(type) \ (DOMAIN b.rel \union DOMAIN b.drop)
    /\ b.code \subseteq {Code}
    /\ \A p \in DOMAIN b.rel : b.rel[p] \in PartnersFor(p)
    /\ \A p \in DOMAIN b.rel \cap DOMAIN b.drop : b.rel[p] \cap b.drop[p] = {}

Keys(body) ==
    UNION {DOMAIN body.prop, DOMAIN body.rel, body.clear, body.code, {Not(p) : p \in DOMAIN body.drop}}

DiffProperties(new, initial) ==
    [p \in {q \in DOMAIN new : new[q] # initial[q]} |-> new[p]]

\* A slip: "replace" is forgotten for properties that have many values.
DeletionsOfToOne(content, body, replace, p) ==
    IF p \in DOMAIN body.rel /\ ToOne(p) THEN content.rel[p] \ body.rel[p] ELSE {}

\* Removed because of "replace" or because the property has one value.
FindImplicitDeletions(content, body, replace, p) ==
    IF p \in DOMAIN body.rel /\ (replace \/ ToOne(p)) THEN content.rel[p] \ body.rel[p] ELSE {}

\* Removed because the body says so, with null or "!".
FindActualDeletions(content, body, p) ==
    CASE p \in body.clear       -> content.rel[p]
      [] p \in DOMAIN body.drop -> body.drop[p] \cap content.rel[p]
      [] OTHER                  -> {}

\* Entries without codes are filtered out; of two for a property the explicit
\* one comes last and wins.
GetRemovedRelationships(content, body, replace) ==
    [p \in RelNames |->
        LET explicit == FindActualDeletions(content, body, p)
        IN  IF explicit # {} THEN explicit ELSE FindImplicitDeletions(content, body, replace, p)]

GetWriteRelationships(body) ==
    [p \in RelNames |-> IF p \in DOMAIN body.rel THEN body.rel[p] ELSE {}]

\* Relationships with other properties than before would be among them.
GetDiffs(new, initial) == new \ initial

\* A slip: relationships that are there already count as changed.
NothingKnown(content, body) == GetWriteRelationships(body)

GetChangedRelationships(content, body) ==
    [p \in RelNames |-> GetDiffs(GetWriteRelationships(body)[p], content.rel[p])]

\* The properties that have codes in a set like the ones above.
Named(relationships) == {p \in RelNames : relationships[p] # {}}

==============================================================================
