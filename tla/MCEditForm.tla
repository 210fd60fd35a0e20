------------------------------ MODULE MCEditForm ------------------------------
(* Small instances of EditForm: one or two plain properties, or a picker.  *)
EXTENDS EditForm

CONSTANTS r1, self

Two(first, second) == [f \in {"first", "second"} |-> IF f = "first" THEN first ELSE second]
Anybody == Clients \union {Nobody}

Open2(first, second) ==
    [kind |-> Two(first, second), lockedBy |-> Two({}, {}), sameType |-> FALSE,
     owners |-> Anybody, others |-> 1]

\* A property that the schema reserves for some clients, next to one that is free.
Reserved(first, clients, second) == [Open2(first, second) EXCEPT !.lockedBy = Two(clients, {})]

Single(only) ==
    [kind |-> [f \in {"only"} |-> only], lockedBy |-> [f \in {"only"} |-> {}], sameType |-> FALSE,
     owners |-> Anybody, others |-> 1]

\* The picker of many records is used by one client alone.
SampleLayouts ==
    {Open2("Text", "Date"), Open2("Boolean", "Number"), Open2("Enum", "MultipleChoice"),
     Reserved("MultipleChoice", {ClientId}, "Boolean"), Reserved("Text", {"importer"}, "Boolean"),
     Single("Time"), Single("DateTime"), Single("One"),
     [Single("Many") EXCEPT !.sameType = TRUE, !.owners = {Nobody}, !.others = 0]}

SampleTexts == {"", "rec"}
SampleFound == [text \in SampleTexts |-> {r1, self}]
SampleExact == [text \in SampleTexts |-> IF text = "rec" THEN {r1} ELSE {}]
==============================================================================
