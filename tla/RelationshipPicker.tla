-------------------------- MODULE RelationshipPicker --------------------------
(***************************************************************************)
(* primitives/relationship of tc-ui: the React component that looks up     *)
(* records while the user types, and keeps the ones that were picked.  The *)
(* input and its list belong to react-autosuggest: it asks for suggestions *)
(* when the text changes or gets the focus, has them cleared when the text *)
(* is empty or loses the focus, and shows them only below a text.          *)
(***************************************************************************)
EXTENDS PropertyValues, Sequences, FiniteSetsExt, SequencesExt

CONSTANTS
    Texts,      \* what can be typed, "" included
    ShortTexts, \* the ones shorter than MIN_QUERY_LENGTH
    Found,      \* the codes the search returns, up to MAX_SUGGESTIONS_LENGTH
    Exact,      \* the codes that have a text as their name or code
    NoCode      \* no parentCode

NoText == "no text"

ASSUME PickerAssumption ==
    /\ "" \in Texts /\ NoText \notin Texts /\ ShortTexts \subseteq Texts \ {""}
    /\ NoCode \notin Codes
    /\ Found \in [Texts -> SUBSET Codes] /\ Exact \in [Texts -> SUBSET Codes]

VARIABLES
    term,           \* the text of the input
    due,            \* the text of the call that debounce holds back, or NoText
    asked,          \* the text of the fetch that is running, or NoText
    suggestions,
    selected,       \* selectedRelationships
    parentCode,     \* of the record the page shows, as far as it is known
    sameType        \* parentType = type

props == <<parentCode, sameType>>
pickerVars == <<term, due, asked, suggestions, selected, props>>

PickerTypeOK ==
    /\ term \in Texts
    /\ due \in Texts \union {NoText}
    /\ asked \in Texts \union {NoText}
    /\ suggestions \subseteq Codes
    /\ selected \in Seq(Link)
    /\ parentCode \in Codes \union {NoCode}
    /\ sameType \in BOOLEAN

SelectedCodes == {selected[i].code : i \in DOMAIN selected}

\* isUnresolved is set and reset together with the text.
IsUnresolved == term # ""

IsFull(hasMany) == ~hasMany /\ selected # <<>>

\* The constructor; its setTimeout and its fetch, if the page is another one, are
\* gone with the page.  getValue has sorted the relationships.
Mount(links, code) ==
    /\ term' = ""
    /\ due' = NoText
    /\ asked' = NoText
    /\ suggestions' = {}
    /\ selected' = SetToSeq(links)
    /\ parentCode' = code
    /\ UNCHANGED sameType

\* The form has been sent: what the search still does is lost with the page.
StopSearch ==
    /\ due' = NoText
    /\ asked' = NoText
    /\ suggestions' = {}
    /\ UNCHANGED <<term, selected, props>>

-----------------------------------------------------------------------------
(* Searching.                                                              *)

Type(hasMany, text) ==
    /\ ~IsFull(hasMany)
    /\ text # term
    /\ term' = text
    /\ IF text = "" THEN suggestions' = {} /\ UNCHANGED due
                    ELSE due' = text /\ UNCHANGED suggestions
    /\ UNCHANGED <<asked, selected, props>>

Focus(hasMany) ==
    /\ ~IsFull(hasMany)
    /\ term # ""
    /\ due' = term
    /\ UNCHANGED <<term, asked, suggestions, selected, props>>

\* clearSuggestions
Blur ==
    /\ suggestions' = {}
    /\ UNCHANGED <<term, due, asked, selected, props>>

\* fetchSuggestions, when the delay of debounce is over: while a fetch is running
\* no other is made, and the text is forgotten.
FetchSuggestions ==
    /\ due # NoText
    /\ due' = NoText
    /\ asked' = IF due \in ShortTexts \/ asked # NoText THEN asked ELSE due
    /\ UNCHANGED <<term, suggestions, selected, props>>

\* The record itself is not suggested, when the page knows its code.
Parent == IF sameType THEN {parentCode} ELSE {}

\* A slip: the records that have been picked are suggested again.
OfferedWithPicked(codes) == codes \ Parent

Offered(codes) == codes \ (SelectedCodes \union Parent)

\* The answer is shown whatever has been typed or picked in the meantime.
SuggestionsArrive ==
    /\ asked # NoText
    /\ suggestions' = Offered(Found[asked])
    /\ asked' = NoText
    /\ UNCHANGED <<term, due, selected, props>>

FetchFails ==
    /\ asked # NoText
    /\ asked' = NoText
    /\ UNCHANGED <<term, due, suggestions, selected, props>>

-----------------------------------------------------------------------------
(* Picking.                                                                *)

AddRelationship(hasMany, code) ==
    /\ selected' = (IF hasMany THEN selected ELSE <<>>) \o <<[code |-> code, note |-> "none"]>>
    /\ term' = ""
    /\ suggestions' = {}
    /\ UNCHANGED <<due, asked, props>>

\* A click, or ENTER on a suggestion that is highlighted.
Choose(hasMany, code) ==
    /\ term # ""
    /\ code \in suggestions
    /\ AddRelationship(hasMany, code)

\* maybeSelectIfOnlyOneSuggestion; otherwise the user is told about the mistake.
SelectOnly(hasMany, codes) ==
    IF Cardinality(suggestions) = 1 /\ suggestions \subseteq codes
    THEN AddRelationship(hasMany, CHOOSE code \in suggestions : TRUE)
    ELSE /\ suggestions' = {}
         /\ UNCHANGED <<term, due, asked, selected, props>>

\* onUserMisconception
PressTab(hasMany) == term # "" /\ SelectOnly(hasMany, Exact[term])
PressEnter(hasMany) == term # "" /\ suggestions # {} /\ SelectOnly(hasMany, Codes)

OnRelationshipRemove(i) ==
    /\ selected' = RemoveAt(selected, i)
    /\ UNCHANGED <<term, due, asked, suggestions, props>>

\* onChange from the editor of the annotation.
Annotate(i, note) ==
    /\ selected[i].note # note
    /\ selected' = [j \in DOMAIN selected |->
                       IF selected[j].code = selected[i].code THEN [selected[j] EXCEPT !.note = note]
                                                               ELSE selected[j]]
    /\ UNCHANGED <<term, due, asked, suggestions, props>>

\* The text of the input may change, or the search go on.
Search(hasMany) ==
    \/ \E text \in Texts : Type(hasMany, text)
    \/ Focus(hasMany)
    \/ Blur
    \/ FetchSuggestions
    \/ SuggestionsArrive
    \/ FetchFails

\* What is picked may change.
Pick(hasMany) ==
    \/ \E code \in suggestions : Choose(hasMany, code)
    \/ PressTab(hasMany)
    \/ PressEnter(hasMany)
    \/ \E i \in DOMAIN selected : OnRelationshipRemove(i)
    \/ \E i \in DOMAIN selected, note \in {"yes", "picked no"} : Annotate(i, note)

=============================================================================
