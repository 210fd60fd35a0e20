--------------------------- MODULE MCSchemaConsumers ---------------------------
(* A small instance of SchemaConsumers. *)
EXTENDS SchemaConsumers

CONSTANTS app, types, primitives, index, unique, broken

WantedBy == [v \in Versions |-> IF v = 1 THEN {unique, broken} ELSE {index}]
=============================================================================
