---------------------------- MODULE LockedFields -----------------------------
(***************************************************************************)
(* packages/tc-api-rest-handlers/lib/locked-fields.js: how the options     *)
(* lockFields and unlockFields of a request change the locks of a record,  *)
(* and which requests the locks refuse.  A lock table maps the name of a   *)
(* field to the client that has locked it, or to NoClient; a list of       *)
(* fields in a query is a set of names or AllFields.                       *)
(***************************************************************************)
EXTENDS RelationshipInput

CONSTANTS Clients, NoClient, AllFields

\* Any name may be locked; these are the ones a body may contain.
LockNames == {Code} \union Plain \union RelNames \union {Not(p) : p \in RelNames}

ASSUME ClientAssumption == NoClient \notin Clients
ASSUME FieldAssumption == \A names \in SUBSET LockNames : AllFields # names

LockTables == [LockNames -> Clients \union {NoClient}]
NoLocks == [k \in LockNames |-> NoClient]
FieldLists == {AllFields} \union SUBSET LockNames

\* keys are the names in the body of the request
NormalizeFields(fields, keys) == IF fields = AllFields THEN keys ELSE fields

RemoveLockedFields(unlock, existing) ==
    [k \in LockNames |->
        IF unlock = AllFields \/ k \in NormalizeFields(unlock, {}) THEN NoClient ELSE existing[k]]

TakenBy(client, names, locks) == \E k \in names : locks[k] \notin {NoClient, client}

SetLockedFields(client, names, existing) ==
    [k \in LockNames |-> IF k \in names THEN client ELSE existing[k]]

\* What an update may lock: a code never changes.
LockFieldList(lock, keys) == NormalizeFields(lock, keys) \ {Code}

\* A slip: unlockFields does nothing.
NothingUnlocked(client, lock, unlock, keys, existing) ==
    SetLockedFields(client, LockFieldList(lock, keys), existing)

MergeLockedFields(client, lock, unlock, keys, existing) ==
    SetLockedFields(client, LockFieldList(lock, keys), RemoveLockedFields(unlock, existing))

\* The locks of a record that is created.
CreateLockedFields(client, lock, keys) ==
    SetLockedFields(client, NormalizeFields(lock, keys), NoLocks)

\* Locking needs a client, whatever becomes of the fields.
Anonymous(client, lock, keys) == client = NoClient /\ NormalizeFields(lock, keys) # {}

\* A slip: the fields of the body are not compared with the locks.
ClashesOnLocking(client, lock, unlock, keys, existing) ==
    TakenBy(client, LockFieldList(lock, keys), RemoveLockedFields(unlock, existing))

\* Somebody else has locked a field that is to be locked or written.
Clashes(client, lock, unlock, keys, existing) ==
    \/ TakenBy(client, LockFieldList(lock, keys), RemoveLockedFields(unlock, existing))
    \/ TakenBy(client, keys, MergeLockedFields(client, lock, unlock, keys, existing))

==============================================================================
