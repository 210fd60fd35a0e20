-------------------------------- MODULE EditForm --------------------------------
(***************************************************************************)
(* tc-ui: one user edits or creates a record with the form of pages/edit,  *)
(* while other clients write, lock or delete it.  The page is a picture of *)
(* the record when it was opened; saving it sends every field it shows,    *)
(* and a save that fails shows the form again, made from what was posted.  *)
(* PropertyValues has what happens to a value on the way, and              *)
(* RelationshipPicker the one component with a life of its own.  The write *)
(* handlers of the API are one step here; their own modules split them.    *)
(***************************************************************************)
EXTENDS RelationshipPicker

CONSTANTS
    Self,       \* the code of the record
    CodeEntries,    \* what the user may put into the input of the code
    Layouts,    \* types: the kinds of their properties and what the schema says of them,
                \* with bounds: whose locks there are at first, and how often others act
    ClientId,   \* the client id of the user interface
    Others      \* the other client ids

Nobody == "nobody"
AdminId == "biz-ops-admin"      \* the client id in edit/template.jsx
Clients == Others \union {ClientId}

ASSUME FormAssumption ==
    /\ Self \in Codes /\ CodeEntries \subseteq Codes \union {""} /\ Codes \intersect {"", NotSent} = {}
    /\ \A layout \in Layouts :
          /\ \A f \in DOMAIN layout.kind : layout.kind[f] \in Kinds
          /\ layout.lockedBy \in [DOMAIN layout.kind -> SUBSET Clients]
          /\ layout.sameType \in BOOLEAN
          /\ layout.owners \subseteq Clients \union {Nobody} /\ layout.others \in Nat
          \* A form is modelled with one picker: two are independent of each other.
          /\ \A f, g \in DOMAIN layout.kind :
                 {layout.kind[f], layout.kind[g]} \subseteq Relationships => f = g
    /\ ClientId \notin Others /\ Nobody \notin Clients

VARIABLES
    kind,       \* the kinds of the properties
    lockedBy,   \* their lockedBy in the schema: the clients that may write them, {} for all
    record,     \* the values of the record, blank when there is none
    exists,
    locks,      \* _lockedFields of the record
    page,       \* the page of the user
    others      \* how often other clients may still act

schema == <<kind, lockedBy>>
vars == <<schema, record, exists, locks, page, others, pickerVars>>

Fields == DOMAIN kind
Locks == [Fields -> Clients \union {Nobody}]

HasLayout ==
    \E layout \in Layouts :
        /\ kind = layout.kind
        /\ lockedBy = layout.lockedBy
        /\ sameType = layout.sameType

IsPicker(f) == kind[f] \in Relationships

\* pc       whether there is a form, and whether it has been sent
\* fields   the fields that are shown: a page may be for some properties only
\* inputs   their inputs; the one of a picker is in selected
\* locks    what the page knows of locks
\* entered  the fields that the user has changed since the page was opened
\* since    those that others have changed since then
\* code     the input of the code, or NotSent when the page does not show it
\* failed   the page is one that a failed save has shown
Page ==
    [pc: {"closed", "open", "sent", "saved"}, creates: BOOLEAN, failed: BOOLEAN,
     fields: SUBSET Fields, entered: SUBSET Fields, since: SUBSET Fields, locks: Locks,
     code: Codes \union {"", NotSent}, inputs: {page.inputs}]     \* see TypeOK

IsInput(k, input) == input \in Entries(k) \/ \E value \in Values(k) : input = Input(k, value)

TypeOK ==
    /\ HasLayout
    /\ DOMAIN record = Fields /\ \A f \in Fields : ~IsPicker(f) => record[f] \in Values(kind[f])
    /\ exists \in BOOLEAN
    /\ locks \in Locks
    /\ page \in Page /\ \A f \in page.fields : IsPicker(f) \/ IsInput(kind[f], page.inputs[f])
    /\ PickerTypeOK

\* Every record with this layout; a value goes with its kind.
KindsAndValues == UNION {{kind[f]} \X Values(kind[f]) : f \in Fields}
Records ==
    {[f \in Fields |-> r[f][2]] :
        r \in {r \in [Fields -> KindsAndValues] : \A f \in Fields : r[f][1] = kind[f]}}

BlankRecord == [f \in Fields |-> Blank(kind[f])]
NoLocks == [f \in Fields |-> Nobody]
BlankInputs == [f \in Fields |-> Empty(kind[f])]

ClosedPage ==
    [pc |-> "closed", creates |-> FALSE, failed |-> FALSE, fields |-> {}, entered |-> {},
     since |-> {}, locks |-> NoLocks, code |-> "", inputs |-> BlankInputs]

Init ==
    /\ HasLayout
    /\ exists \in BOOLEAN
    /\ record \in IF exists THEN Records ELSE {BlankRecord}
    /\ page = ClosedPage
    /\ \E layout \in {l \in Layouts : l.kind = kind} :
          /\ locks \in IF exists THEN [Fields -> layout.owners] ELSE {NoLocks}
          /\ others = layout.others
    /\ term = "" /\ due = NoText /\ asked = NoText /\ suggestions = {}
    /\ selected = <<>> /\ parentCode = NoCode

-----------------------------------------------------------------------------
(* The page.                                                               *)

Shown(f) == IF IsPicker(f) THEN {selected[i] : i \in DOMAIN selected} ELSE page.inputs[f]

\* PropertyInputs: the field is locked by another client, or has a lock in the
\* schema, whose clients it does not look at.
Disabled(f) == lockedBy[f] # {} \/ page.locks[f] \notin {Nobody, AdminId}

\* What formDataToRest and validateBody ask of the lock in the schema.
MayWrite(f, client) == lockedBy[f] = {} \/ client \in lockedBy[f]

\* A new page replaces the old one, with a picker of its own.
Render(newPage, code) ==
    /\ page' = newPage
    /\ Mount(UNION {newPage.inputs[f] : f \in {g \in newPage.fields : IsPicker(g)}}, code)

\* displayForm of a record, for all its properties or for the ones of a query.
Open(fields, code) ==
    /\ page.pc = "closed"
    /\ exists
    /\ Render([ClosedPage EXCEPT !.pc = "open", !.fields = fields, !.code = code, !.locks = locks,
                                 !.inputs = [f \in Fields |-> Input(kind[f], record[f])]], Self)
    /\ UNCHANGED <<schema, record, exists, locks, others>>

\* displayForm for /create
OpenNew ==
    /\ page.pc = "closed"
    /\ Render([ClosedPage EXCEPT !.pc = "open", !.creates = TRUE, !.fields = Fields], NoCode)
    /\ UNCHANGED <<schema, record, exists, locks, others>>

Enter(f, entry) ==
    /\ page.pc = "open"
    /\ ~IsPicker(f) /\ ~Disabled(f)
    /\ page.inputs[f] # entry
    /\ page' = [page EXCEPT !.inputs[f] = entry, !.entered = @ \union {f}]
    /\ UNCHANGED <<schema, record, exists, locks, others, pickerVars>>

\* A record that is created is the one with the code Self.
EnterCode(code) ==
    /\ page.pc = "open"
    /\ page.code \notin {NotSent, code}
    /\ page.creates => code \in {"", Self}
    /\ page' = [page EXCEPT !.code = code]
    /\ UNCHANGED <<schema, record, exists, locks, others, pickerVars>>

\* initRelationshipSelectors brings the pickers to life that are not disabled.
UsePicker(f) ==
    /\ page.pc = "open"
    /\ IsPicker(f) /\ ~Disabled(f)
    /\ \/ Search(kind[f] = "Many") /\ UNCHANGED page
       \/ /\ Pick(kind[f] = "Many")
          /\ page' = IF selected' = selected THEN page ELSE [page EXCEPT !.entered = @ \union {f}]
    /\ UNCHANGED <<schema, record, exists, locks, others>>

\* preventBadSubmission: not while there is text in a picker.  The user can
\* overrule preventIncompleteSubmission.
Submit ==
    /\ page.pc = "open"
    /\ ~IsUnresolved
    /\ page' = [page EXCEPT !.pc = "sent"]
    /\ StopSearch
    /\ UNCHANGED <<schema, record, exists, locks, others>>

Leave ==
    /\ page.pc \in {"open", "saved"}
    /\ Render(ClosedPage, NoCode)
    /\ UNCHANGED <<schema, record, exists, locks, others>>

-----------------------------------------------------------------------------
(* handleForm and the API.                                                 *)

PostedBy(f) == Posted(kind[f], Shown(f), Disabled(f))

\* formDataToRest: what has not been sent is left out, and what another client
\* has locked, if the page knew, or the schema reserves for others.
Sent ==
    {f \in page.fields :
        /\ page.locks[f] \in {Nobody, ClientId}
        /\ MayWrite(f, ClientId)
        /\ kind[f] \in SetKinds \/ PostedBy(f) # NotSent}

Body(f) == Coerced(kind[f], Parsed(kind[f], PostedBy(f)))

\* postHandler and patchHandler refuse: a value, another code or one that is taken,
\* a lock.
Refusal ==
    \/ \E f \in Sent : ~Valid(kind[f], Body(f)) \/ ~MayWrite(f, ClientId)
    \/ \E f \in Sent : ~IsConvertible(kind[f], record[f], Body(f))
    \/ IF page.creates THEN exists \/ page.code # Self
       ELSE \/ page.code \notin {NotSent, "", Self}
            \/ \E f \in Sent : locks[f] \notin {Nobody, ClientId}

\* The API carries the request out; a PATCH creates a record that has been deleted.
Write ==
    /\ ~Refusal
    /\ record' = [f \in Fields |-> IF f \in Sent THEN Stored(kind[f], record[f], Body(f)) ELSE record[f]]
    /\ exists' = TRUE

\* A slip: the record is shown again.
DisplayRecord ==
    Render([page EXCEPT !.pc = "open", !.failed = TRUE, !.fields = Fields, !.locks = NoLocks,
                !.code = Self, !.inputs = [f \in Fields |-> Input(kind[f], record[f])]], Self)

\* The form again, with what was posted, the code too.  It has no query any more, so
\* it shows every property, and formDataToGraphQL does not carry _lockedFields over.
DisplayError ==
    LET blank == page.code \in {NotSent, ""}
    IN  Render([page EXCEPT !.pc = "open", !.failed = TRUE, !.fields = Fields, !.locks = NoLocks,
                    !.code = IF blank THEN "" ELSE @,
                    !.inputs = [f \in Fields |-> IF f \in page.fields THEN Redisplayed(kind[f], PostedBy(f))
                                                                      ELSE Empty(kind[f])]],
               IF blank THEN NoCode ELSE page.code)

\* The user is sent to the page that shows the record, with a message of success.
Save ==
    /\ page.pc = "sent"
    /\ Write
    /\ Render([ClosedPage EXCEPT !.pc = "saved"], NoCode)
    /\ UNCHANGED <<schema, locks, others>>

\* The API refuses, or fails, before it has written.
SaveFails ==
    /\ page.pc = "sent"
    /\ DisplayError
    /\ UNCHANGED <<schema, record, exists, locks, others>>

\* It has written, but the answer is that it took too long.
SaveTimesOut ==
    /\ page.pc = "sent"
    /\ Write
    /\ DisplayError
    /\ UNCHANGED <<schema, locks, others>>

-----------------------------------------------------------------------------
(* Other clients, and deletePage.                                          *)

OthersAct ==
    /\ others > 0
    /\ others' = others - 1
    /\ page' = [page EXCEPT !.since = IF page.pc \in {"open", "sent"}
                                      THEN @ \union {f \in Fields : record'[f] # record[f]} ELSE @]
    /\ UNCHANGED <<schema, pickerVars>>

OtherWrites(f, value) ==
    /\ exists
    /\ \E client \in Clients : locks[f] \in {Nobody, client} /\ MayWrite(f, client)
    /\ record' = [record EXCEPT ![f] = value]
    /\ OthersAct
    /\ UNCHANGED <<exists, locks>>

\* Any client may lock a free field, and unlock any.
OtherLocks(f, client) ==
    /\ exists
    /\ locks[f] = Nobody \/ client = Nobody
    /\ locks' = [locks EXCEPT ![f] = client]
    /\ UNCHANGED <<record, exists>>
    /\ OthersAct

\* deleteHandler of the API refuses when the record has relationships.
Deleted ==
    /\ exists
    /\ \A f \in Fields : IsPicker(f) => record[f] = {}
    /\ exists' = FALSE
    /\ record' = BlankRecord
    /\ locks' = NoLocks

OtherDeletes == Deleted /\ OthersAct

DeletePage ==
    /\ page.pc = "closed"
    /\ Deleted
    /\ UNCHANGED <<schema, page, others, pickerVars>>

Next ==
    \/ \E fields \in (SUBSET Fields) \ {{}}, code \in {Self, NotSent} : Open(fields, code)
    \/ OpenNew
    \/ \E f \in page.fields : \E entry \in Entries(kind[f]) : Enter(f, entry)
    \/ \E code \in CodeEntries : EnterCode(code)
    \/ \E f \in page.fields : UsePicker(f)
    \/ Submit
    \/ Leave
    \/ Save
    \/ SaveFails
    \/ SaveTimesOut
    \/ \E f \in Fields : \E value \in Values(kind[f]) : OtherWrites(f, value)
    \/ \E f \in Fields, client \in Others \union {Nobody} : OtherLocks(f, client)
    \/ OtherDeletes
    \/ DeletePage

Spec == Init /\ [][Next]_vars

-----------------------------------------------------------------------------
\* No record is picked twice, or suggested when it has been picked, however an answer
\* that is late, the keyboard, the mouse and removals follow each other
\* (addRelationship and fetchSuggestions); and a page that has been opened for a
\* record does not suggest the record to itself until a save fails.
PickedOnce ==
    /\ IsInjective([i \in DOMAIN selected |-> selected[i].code])
    /\ suggestions \intersect SelectedCodes = {}
    /\ sameType /\ ~page.creates /\ ~page.failed => Self \notin suggestions

-----------------------------------------------------------------------------
(* What gets lost on the way, in the exceptions of the properties.         *)

\* An annotation that is false counts as none in the parser of relationships.
HasFalseNote(f) == IsPicker(f) /\ \E link \in record[f] : link.note = "no"
ShowsFalseNote(f) == IsPicker(f) /\ \E i \in DOMAIN selected : selected[i].note = "no"

\* The default parser turns a text that happens to be "null" into nothing.
ShowsNull(f) == kind[f] = "Text" /\ Shown(f) = "null"

\* formDataToGraphQL drops every value that is "Don't know".
ShowsDontKnow(f) == kind[f] = "Text" /\ Shown(f) = "Don't know"

\* The form has cut off a zone that is not the one the API adds.
MisreadsZone(f) ==
    \/ kind[f] = "DateTime" /\ ApiZone # "Z"
    \/ /\ kind[f] = "Time" /\ record[f] # NoValue
       /\ At(Clock(record[f]), ApiZone) # record[f]

\* Choices that cannot be edited are sent as none by their hidden input.
ErasesChoices(f) == kind[f] = "MultipleChoice" /\ Disabled(f) /\ f \in Sent

FormWrites == page.pc = "sent" /\ page'.pc # "sent"
Saves == page.pc = "sent" /\ page'.pc = "saved"
Fails == page.pc = "sent" /\ page'.pc = "open"

\* A form that has been opened and sent changes no field but those its user has
\* changed, although it sends them all: the way of a value into an input and back
\* (getValue, the EditComponents, the parsers, the conversion and the difference)
\* ends where it began.  What others have changed since is overwritten, and four
\* kinds of values do not find their way back.
UntouchedFieldsKept ==
    [][FormWrites /\ ~page.failed =>
          \A f \in Fields : record'[f] # record[f] =>
              \/ f \in page.entered \union page.since
              \/ HasFalseNote(f) \/ ShowsNull(f) \/ MisreadsZone(f) \/ ErasesChoices(f)]_vars

\* When the page says that the record was successfully updated, every field that
\* was open to the user has the value it showed, whatever has happened to the
\* record and its locks in the meantime.  A date cannot be removed, and three kinds
\* of values are stored as something else.
SavedIsStored ==
    [][Saves =>
          \A f \in page.fields :
              \/ Disabled(f)
              \/ Trimmed(kind[f], record'[f]) = Meaning(kind[f], Shown(f))
              \/ kind[f] \in {"Boolean", "Date", "DateTime"} /\ Shown(f) = ""
              \/ ShowsFalseNote(f) \/ ShowsNull(f) \/ MisreadsZone(f)]_vars

\* A save that fails shows the user the values that were entered, also when it is
\* not the first to fail (handler.js: "Persist any unsaved changes").  Dates and
\* times, annotations that are false and two texts do get lost.
ErrorKeepsEntries ==
    [][Fails =>
          \A f \in page.fields :
              \/ Disabled(f)
              \/ Meaning(kind[f], Shown(f)') = Meaning(kind[f], Shown(f))
              \/ kind[f] \in Temporal
              \/ ShowsFalseNote(f) \/ ShowsNull(f) \/ ShowsDontKnow(f)]_vars

==============================================================================
