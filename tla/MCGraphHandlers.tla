--------------------------- MODULE MCGraphHandlers ---------------------------
(***************************************************************************)
(* Schemas and inputs for model checking GraphHandlers.                    *)
(***************************************************************************)
EXTENDS GraphHandlers, TLC

CONSTANTS m1, m2, c1, c2, x, y, v1, s1, s2,
          children, deprecatedChildren, isChildOf, favouriteChild, isFavouriteChildOf,
          youngerSiblings, olderSiblings

TypeOfCode == [c \in Codes |-> IF c \in {m1, m2} THEN "MainType" ELSE "ChildType"]

Property(of, type, relationship, direction, hasMany) ==
    [of |-> of, type |-> type, relationship |-> relationship, direction |-> direction,
     hasMany |-> hasMany]

\* Of example-schema/types/MainType.yaml and ChildType.yaml.
ExampleSchema ==
    children           :> Property("MainType", "ChildType", "HAS_CHILD", "outgoing", "many") @@
    deprecatedChildren :> Property("MainType", "ChildType", "HAS_CHILD", "outgoing", "many") @@
    isChildOf          :> Property("ChildType", "MainType", "HAS_CHILD", "incoming", "many") @@
    favouriteChild     :> Property("MainType", "ChildType", "HAS_FAVOURITE_CHILD", "outgoing", "one") @@
    isFavouriteChildOf :> Property("ChildType", "MainType", "HAS_FAVOURITE_CHILD", "incoming", "many") @@
    youngerSiblings    :> Property("MainType", "MainType", "HAS_YOUNGER_SIBLING", "outgoing", "many") @@
    olderSiblings      :> Property("MainType", "MainType", "HAS_YOUNGER_SIBLING", "incoming", "many")

SchemaOf(names) == [p \in names |-> ExampleSchema[p]]
RelSchema == SchemaOf(RelNames)

NoBody == [prop |-> <<>>, rel |-> <<>>, drop |-> <<>>, clear |-> {}, code |-> {}]
Sets(p, v) == [NoBody EXCEPT !.prop = p :> v]
Relates(p, codes) == [NoBody EXCEPT !.rel = p :> codes]
Drops(p, codes) == [NoBody EXCEPT !.drop = p :> codes]
Clears(p) == [NoBody EXCEPT !.clear = {p}]

Send(method, code, body) ==
    [method |-> method, code |-> code, other |-> code, body |-> body, lock |-> {}, unlock |-> {},
     flags |-> {}, client |-> NoClient]

Remove(code) == Send("DELETE", code, NoBody)
Absorb(code, other) == [Send("ABSORB", code, NoBody) EXCEPT !.other = other]
From(i, client) == [i EXCEPT !.client = client]
Locking(i, lock, unlock) == [i EXCEPT !.lock = lock, !.unlock = unlock]
With(i, flag) == [i EXCEPT !.flags = @ \union {flag}]

-----------------------------------------------------------------------------

\* One record, two fields, two clients and none; a POST does not unlock.
LockBodies == {NoBody} \union {Sets(p, v) : p \in Plain, v \in Values \union {Null}}
LockInputs ==
    LET sends(method, bodies, choices) ==
            {Locking(From(Send(method, m1, body), client), choice[1], choice[2]) :
                body \in bodies, client \in Clients \union {NoClient}, choice \in choices}
        locks   == {{}, {s1}, AllFields} \X {{}}
        unlocks == ({{}} \X {{s1}, AllFields}) \union {<<{s1}, AllFields>>, <<{s2}, {s1}>>}
    IN  UNION {sends("POST", {NoBody, Sets(s1, v1)}, locks),
               sends("PATCH", LockBodies, locks \union unlocks),
               {Remove(m1)}}

\* Relationships of records of two types, written from both sides, with at most
\* one query option.
Family == {m1, c1, c2}
RelBodies(code) ==
    UNION {{Relates(p, codes) : codes \in PartnersFor(p) \cap SUBSET Family}
           \union {Drops(p, {c}) : c \in {c \in Family : TypeOf[c] = Def[p].type}}
           \union {Clears(p)} : p \in PropertiesOf(TypeOf[code]) \cap {children, favouriteChild, isFavouriteChildOf}}

RelationshipInputs ==
    UNION {{Remove(code)}
           \union {With(Send("POST", code, body), "upsert") :
                      body \in {b \in RelBodies(code) : b.drop = <<>> /\ b.clear = {}} \union {NoBody}}
           \union {[Send("PATCH", code, body) EXCEPT !.flags = flags] :
                      body \in RelBodies(code), flags \in {{}, {"replace"}, {"upsert"}}} :
           code \in Family}

Symmetry == Permutations(Requests)

\* One client locks a field, another writes it.
RacingLockInputs ==
    {Send("POST", m1, NoBody), Locking(From(Send("PATCH", m1, NoBody), x), {s1}, {}),
     From(Send("PATCH", m1, Sets(s1, v1)), y), From(Send("PATCH", m1, Sets(s2, v1)), y)}

\* Siblings and favourite children, and absorbing one sibling into the other.
AbsorbInputs ==
    {With(Send("PATCH", c, Relates(favouriteChild, {d})), "upsert") : c \in {m1, m2}, d \in {c1, c2}}
    \union {With(Send("PATCH", m1, Relates(youngerSiblings, {m2})), "upsert"),
            Locking(From(Send("PATCH", m2, Sets(s1, v1)), x), {s1}, {})}
    \union {Absorb(m1, m2), Absorb(m2, m1), Remove(m1), Remove(m2)}

\* Updates of a record and its children that may overlap.
EventInputs ==
    {With(Send("PATCH", m1, b), flag) :
        b \in {Relates(children, {c1}), Relates(children, {c1, c2}), Relates(children, {}),
              Drops(children, {c1}), Clears(children), Sets(s1, v1), Sets(s1, Null)},
        flag \in {"replace", "upsert"}}
    \union {With(Send("PATCH", c1, b), "upsert") : b \in {Relates(isChildOf, {m1}), Clears(isChildOf)}}
    \union {Send("POST", m1, Sets(s1, v1)), With(Send("POST", c1, Relates(isChildOf, {m1})), "upsert")}

Workload(inputs, overlap) == [inputs |-> inputs, overlap |-> overlap]

\* Handlers that do not overlap, or that do not decide from what they have read.
AtomicWorkloads ==
    {Workload(LockInputs, {}),
     Workload(RelationshipInputs, {{"POST", "DELETE"}}),
     Workload(AbsorbInputs, {{"ABSORB", "DELETE"}})}

OverlappingUpdates == {Workload(EventInputs, {{"POST", "PATCH"}})}
RacingLocks == {Workload(RacingLockInputs, {{"PATCH"}})}

==============================================================================
