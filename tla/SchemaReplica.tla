----------------------------- MODULE SchemaReplica -----------------------------
(***************************************************************************)
(* What the README of packages/tc-schema-sdk promises of an application:   *)
(* when the remote schema changes the local one follows, and the change    *)
(* reaches every part of the application.  A version is any that has been  *)
(* published; the GraphQL API follows in the same step, or stays as it is  *)
(* when the version cannot be built.                                       *)
(***************************************************************************)
EXTENDS Integers

CONSTANTS LastVersion, Buildable, NoData, Nothing

VARIABLES published, schema, served

Serve(version, old) == IF version \in Buildable THEN version ELSE old

Publish == published' = published + 1 /\ UNCHANGED <<schema, served>>

Follow ==
    /\ schema' \in 1..published
    /\ schema' # schema
    /\ served' = Serve(schema', served)
    /\ UNCHANGED published

Init ==
    /\ published = 1
    /\ \/ schema = NoData /\ served = Nothing
       \/ schema = 1 /\ served = Serve(1, Nothing)

Next == Publish \/ Follow

Spec == Init /\ [][Next]_<<published, schema, served>>

=============================================================================
