------------------------------- MODULE Schema --------------------------------
(***************************************************************************)
(* What the handlers of packages/tc-api-rest-handlers ask                  *)
(* packages/tc-schema-sdk about the types of a schema.                     *)
(*                                                                         *)
(* A record is named by its code; codes of different types are different   *)
(* elements.  Ordinary properties are the same for every type and have one *)
(* value; their types and formats are left out.  A relationship property   *)
(* belongs to the type Def[p].of.                                          *)
(***************************************************************************)
CONSTANTS
    Codes,      \* the codes of all records there may be
    TypeOf,     \* the type of the record with a code
    Plain,      \* ordinary properties
    RelNames,   \* relationship properties
    Def         \* their definitions

Types == {TypeOf[c] : c \in Codes}

Definition ==
    [of: Types, type: Types, relationship: {Def[p].relationship : p \in RelNames},
     direction: {"incoming", "outgoing"}, hasMany: {"one", "many"}]

ASSUME SchemaAssumption ==
    /\ TypeOf \in [Codes -> Types]
    /\ Def \in [RelNames -> Definition]

ToOne(p) == Def[p].hasMany = "one"

PropertiesOf(type) == {p \in RelNames : Def[p].of = type}

InvertDirection(direction) == IF direction = "incoming" THEN "outgoing" ELSE "incoming"

FindPropertyNamesFromPropertyDef(rootType, direction, relationship, destinationType) ==
    {p \in PropertiesOf(rootType) :
        /\ Def[p].type = destinationType
        /\ Def[p].relationship = relationship
        /\ Def[p].direction = direction}

\* The properties that show the relationships of p from the other end.
FindInversePropertyNames(p) ==
    FindPropertyNamesFromPropertyDef(Def[p].type, InvertDirection(Def[p].direction),
                                     Def[p].relationship, Def[p].of)

\* All the properties that show the same relationships as p.
FindPropertyNames(p) ==
    IF p \in RelNames
    THEN FindPropertyNamesFromPropertyDef(Def[p].of, Def[p].direction,
                                          Def[p].relationship, Def[p].type)
    ELSE {p}

==============================================================================
