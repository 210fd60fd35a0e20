--------------------------- MODULE MCRecordHandlers ---------------------------
(* Small instances of RecordHandlers. *)
EXTENDS RecordHandlers, TLC

CONSTANTS d1, d2, t1, t2

Symmetry == Permutations(Requests)

\* Overlap for the runs: everything at once, nothing, or the named methods.
AllTogether == {Methods}
PostsTogether == {{"POST"}}
Alone == {}

OneText == {[n \in DocNames |-> t1]}
\* One body with both properties and one with a text that differs.
TwoDrafts == {[n \in DocNames |-> IF n = d1 THEN t1 ELSE NoText],
              [n \in DocNames |-> IF n = d1 THEN t2 ELSE t1]}
=============================================================================
