----------------------------- MODULE EditFormProofs -----------------------------
(***************************************************************************)
(* Theorems about EditForm and the picker of related records in it.  The   *)
(* state has its type and no record is picked twice: both follow from one  *)
(* inductive invariant, FormInv, because a picker starts with the links of *)
(* the record, or with those that were posted when a save has failed.      *)
(* What a save does to the record, and what a page shows after it, follows *)
(* from lemmas about the way of a value into an input and back, one kind   *)
(* of value after the other, and from two more invariants: Untouched, and  *)
(* ParentKnown, what the picker knows of the record it is shown for.       *)
(***************************************************************************)
EXTENDS EditForm, FiniteSetTheorems, SequenceTheorems, TLAPS

\* No two of the links lead to one record.
OnePerCode(links) == \A one, two \in links : one.code = two.code => one = two

\* What a picker can show.
Links == {links \in SUBSET Link : OnePerCode(links)}

\* What a record can have: no note that comes from the picker.
RecordLinks == {links \in Links : \A link \in links : link.note \in Notes}

Timed == {"Time", "DateTime"}

\* What an input can hold: never a value that is blank, or has a zone, but how it is
\* shown.
CanHold(k, input) ==
    \/ input \in Entries(k) \/ input = Empty(k)
    \/ input \in Values(k) /\ input # Blank(k) /\ k \notin Timed

\* PickedOnce for given links and suggestions.
Apart(links, codes) ==
    /\ \A i, j \in DOMAIN links : links[i].code = links[j].code => i = j
    /\ \A code \in codes : \A i \in DOMAIN links : links[i].code # code

PickerInv ==
    /\ PickerTypeOK
    /\ Apart(selected, suggestions)
    /\ suggestions \intersect Parent = {}

RecordTypeOK ==
    /\ DOMAIN record = Fields
    /\ \A f \in Fields : IF IsPicker(f) THEN record[f] \in RecordLinks ELSE record[f] \in Values(kind[f])

\* The inputs of a page that is about to be shown.
InputsOK(fields, inputs) ==
    \A f \in fields : IF IsPicker(f) THEN inputs[f] \in Links ELSE CanHold(kind[f], inputs[f])

FormInv ==
    /\ HasLayout
    /\ RecordTypeOK
    /\ exists \in BOOLEAN
    /\ locks \in Locks
    /\ page \in Page /\ \A f \in page.fields : IsPicker(f) \/ CanHold(kind[f], page.inputs[f])
    /\ PickerInv

-----------------------------------------------------------------------------
(* Sets and sequences.                                                     *)

LEMMA LinksAreFinite ==
    ASSUME NEW links \in Links
    PROVE  IsFiniteSet(links)
<1> DEFINE code == [link \in links |-> link.code]
<1>1. code \in Injection(links, Codes)
  BY DEF Links, Link, OnePerCode, Injection, IsInjective
<1> QED
  BY <1>1, FS_Injection, ValuesAssumption

LEMMA SetToSeqIsInjective ==
    ASSUME NEW S, IsFiniteSet(S)
    PROVE  /\ SetToSeq(S) \in Seq(S)
           /\ IsInjective(SetToSeq(S))
           /\ S = {SetToSeq(S)[i] : i \in DOMAIN SetToSeq(S)}
<1>1. Cardinality(S) \in Nat /\ \E f \in [1 .. Cardinality(S) -> S] : IsInjective(f)
  BY FS_CardinalityType DEF ExistsBijection, Bijection, Injection
<1>2. SetToSeq(S) \in [1 .. Cardinality(S) -> S] /\ IsInjective(SetToSeq(S))
  BY <1>1 DEF SetToSeq
<1>3. SetToSeq(S) \in Surjection(1 .. Cardinality(S), S)
  <2>1. IsFiniteSet(1 .. Cardinality(S)) /\ Cardinality(1 .. Cardinality(S)) = Cardinality(S)
    BY <1>1, FS_Interval
  <2>2. SetToSeq(S) \in Injection(1 .. Cardinality(S), S)
    BY <1>2 DEF Injection
  <2> QED
    BY <2>1, <2>2, FS_Injection
<1>4. S = {SetToSeq(S)[i] : i \in DOMAIN SetToSeq(S)}
  BY <1>2, <1>3 DEF Surjection
<1>5. SetToSeq(S) \in Seq(S)
  BY <1>1, <1>2, SeqDef
<1> QED
  BY <1>2, <1>4, <1>5

LEMMA RemoveAtKeeps ==
    ASSUME NEW S, NEW s \in Seq(S), NEW i \in 1 .. Len(s)
    PROVE  /\ RemoveAt(s, i) \in Seq(S)
           /\ Len(RemoveAt(s, i)) = Len(s) - 1
           /\ \A j \in 1 .. Len(s) - 1 : RemoveAt(s, i)[j] = IF j < i THEN s[j] ELSE s[j + 1]
<1>1. /\ SubSeq(s, 1, i - 1) \in Seq(S)
      /\ Len(SubSeq(s, 1, i - 1)) = i - 1
      /\ \A j \in 1 .. i - 1 : SubSeq(s, 1, i - 1)[j] = s[j]
  OBVIOUS
<1>2. /\ SubSeq(s, i + 1, Len(s)) \in Seq(S)
      /\ Len(SubSeq(s, i + 1, Len(s))) = Len(s) - i
      /\ \A j \in 1 .. Len(s) - i : SubSeq(s, i + 1, Len(s))[j] = s[i + j]
  OBVIOUS
<1> DEFINE before == SubSeq(s, 1, i - 1)
           after == SubSeq(s, i + 1, Len(s))
<1> HIDE DEF before, after
<1>3. /\ before \o after \in Seq(S)
      /\ Len(before \o after) = Len(before) + Len(after)
      /\ \A j \in 1 .. Len(before) + Len(after) :
            (before \o after)[j] = IF j <= Len(before) THEN before[j] ELSE after[j - Len(before)]
  BY <1>1, <1>2, ConcatProperties DEF before, after
<1>4. RemoveAt(s, i) = before \o after
  BY DEF RemoveAt, before, after
<1>5. Len(before) = i - 1 /\ Len(after) = Len(s) - i /\ Len(s) \in Nat
  BY <1>1, <1>2 DEF before, after
<1>6. ASSUME NEW j \in 1 .. Len(s) - 1
      PROVE  RemoveAt(s, i)[j] = IF j < i THEN s[j] ELSE s[j + 1]
  <2>1. CASE j < i
    <3>1. j \in 1 .. i - 1 /\ j <= Len(before)
      BY <1>5, <2>1
    <3>2. before[j] = s[j]
      BY <1>1, <3>1 DEF before
    <3> QED
      BY <1>3, <1>4, <1>5, <2>1, <3>1, <3>2
  <2>2. CASE ~ (j < i)
    <3>1. /\ j - Len(before) \in 1 .. Len(s) - i
          /\ ~ (j <= Len(before))
          /\ i + (j - Len(before)) = j + 1
      BY <1>5, <2>2
    <3>2. after[j - Len(before)] = s[j + 1]
      BY <1>2, <3>1 DEF after
    <3> QED
      BY <1>3, <1>4, <1>5, <2>2, <3>1, <3>2
  <2> QED
    BY <2>1, <2>2
<1>7. RemoveAt(s, i) \in Seq(S)
  BY <1>3, <1>4
<1>8. Len(RemoveAt(s, i)) = Len(s) - 1
  <2>1. Len(RemoveAt(s, i)) = (i - 1) + (Len(s) - i)
    BY <1>3, <1>4, <1>5
  <2> QED
    BY <1>5, <2>1
<1> QED
  BY <1>6, <1>7, <1>8

-----------------------------------------------------------------------------
(* The picker.                                                             *)

LEMMA ApartIsPickedOnce ==
    ASSUME PickerInv,
           sameType /\ ~ page.creates /\ ~ page.failed => parentCode = Self \/ suggestions = {}
    PROVE  PickedOnce
BY DEF PickedOnce, PickerInv, Apart, Parent, IsInjective, SelectedCodes

\* Fewer suggestions, on the same page.
LEMMA SamePage ==
    ASSUME UNCHANGED props, suggestions' \subseteq suggestions, PickerInv
    PROVE  /\ suggestions' \intersect Parent' = {}
           /\ parentCode' \in Codes \union {NoCode} /\ sameType' \in BOOLEAN
BY DEF props, PickerInv, PickerTypeOK, Parent

LEMMA MountIsApart ==
    ASSUME NEW links \in Links, NEW code \in Codes \union {NoCode}, Mount(links, code),
           sameType \in BOOLEAN
    PROVE  PickerInv'
<1> DEFINE s == SetToSeq(links)
<1>1. s \in Seq(links) /\ IsInjective(s) /\ links \in SUBSET Link
  BY LinksAreFinite, SetToSeqIsInjective DEF Links
<1> HIDE DEF s
<1>2. s \in Seq(Link) /\ \A i \in DOMAIN s : s[i] \in links
  BY <1>1, SeqMonotonic
<1>3. \A i, j \in DOMAIN s : s[i].code = s[j].code => i = j
  BY <1>1, <1>2 DEF Links, OnePerCode, IsInjective
<1> QED
  BY <1>2, <1>3, PickerAssumption DEF Mount, props, s, PickerInv, PickerTypeOK, Apart, Parent

LEMMA AddRelationshipIsApart ==
    ASSUME PickerInv, NEW hasMany \in BOOLEAN, NEW code \in suggestions,
           AddRelationship(hasMany, code)
    PROVE  PickerInv'
<1> DEFINE old == IF hasMany THEN selected ELSE <<>>
           new == <<[code |-> code, note |-> "none"]>>
<1>1. /\ code \in Codes
      /\ \A i \in DOMAIN selected : selected[i].code # code
      /\ \A i, j \in DOMAIN selected : selected[i].code = selected[j].code => i = j
  BY DEF PickerInv, PickerTypeOK, Apart
<1>2. /\ old \in Seq(Link)
      /\ \A i \in 1 .. Len(old) : old[i].code # code
      /\ \A i, j \in 1 .. Len(old) : old[i].code = old[j].code => i = j
  BY <1>1 DEF PickerInv, PickerTypeOK
<1>3. new \in Seq(Link) /\ Len(new) = 1 /\ new[1].code = code
  BY <1>1 DEF Link, Notes
<1>4. selected' = old \o new
  BY DEF AddRelationship
<1> HIDE DEF old, new
<1>5. /\ selected' \in Seq(Link)
      /\ DOMAIN selected' = 1 .. Len(old) + 1
      /\ \A i \in 1 .. Len(old) : selected'[i] = old[i]
      /\ selected'[Len(old) + 1].code = code
  BY <1>2, <1>3, <1>4, ConcatProperties
<1>6. \A i, j \in DOMAIN selected' : selected'[i].code = selected'[j].code => i = j
  BY <1>2, <1>5
<1> QED
  BY <1>5, <1>6, PickerAssumption, SamePage DEF AddRelationship, PickerInv, PickerTypeOK, Apart

LEMMA SelectOnlyIsApart ==
    ASSUME PickerInv, NEW hasMany \in BOOLEAN, NEW codes, SelectOnly(hasMany, codes)
    PROVE  PickerInv'
<1>1. CASE Cardinality(suggestions) = 1 /\ suggestions \subseteq codes
  <2>1. suggestions # {}
    BY <1>1, FS_EmptySet
  <2>2. (CHOOSE code \in suggestions : TRUE) \in suggestions
    BY <2>1
  <2> QED
    BY <1>1, <2>2, AddRelationshipIsApart DEF SelectOnly
<1>2. CASE ~ (Cardinality(suggestions) = 1 /\ suggestions \subseteq codes)
  BY <1>2, SamePage DEF SelectOnly, PickerInv, PickerTypeOK, Apart
<1> QED
  BY <1>1, <1>2

LEMMA RemoveIsApart ==
    ASSUME PickerInv, NEW i \in DOMAIN selected, OnRelationshipRemove(i)
    PROVE  PickerInv'
<1>1. selected \in Seq(Link) /\ i \in 1 .. Len(selected) /\ Len(selected) \in Nat
  BY DEF PickerInv, PickerTypeOK
<1>2. /\ selected' \in Seq(Link)
      /\ DOMAIN selected' = 1 .. Len(selected) - 1
      /\ \A j \in 1 .. Len(selected) - 1 :
            selected'[j] = IF j < i THEN selected[j] ELSE selected[j + 1]
  <2>1. selected' = RemoveAt(selected, i)
    BY DEF OnRelationshipRemove
  <2>2. /\ selected' \in Seq(Link)
        /\ Len(selected') = Len(selected) - 1
        /\ \A j \in 1 .. Len(selected) - 1 :
              selected'[j] = IF j < i THEN selected[j] ELSE selected[j + 1]
    BY <1>1, <2>1, RemoveAtKeeps
  <2> QED
    BY <2>2
<1>3. \A j \in DOMAIN selected' : \E k \in DOMAIN selected :
          selected'[j] = selected[k] /\ k = IF j < i THEN j ELSE j + 1
  BY <1>1, <1>2
<1>4. Apart(selected', suggestions)
  BY <1>1, <1>2, <1>3 DEF PickerInv, Apart
<1> QED
  BY <1>2, <1>4, SamePage DEF OnRelationshipRemove, PickerInv, PickerTypeOK

LEMMA AnnotateIsApart ==
    ASSUME PickerInv, NEW i \in DOMAIN selected, NEW note \in {"yes", "picked no"},
           Annotate(i, note)
    PROVE  PickerInv'
<1> DEFINE noted == [j \in DOMAIN selected |->
                       IF selected[j].code = selected[i].code THEN [selected[j] EXCEPT !.note = note]
                                                              ELSE selected[j]]
<1>1. selected \in Seq(Link)
  BY DEF PickerInv, PickerTypeOK
<1>2. Len(selected) \in Nat /\ DOMAIN selected = 1 .. Len(selected)
  BY <1>1, LenProperties
<1>3. ASSUME NEW j \in 1 .. Len(selected)
      PROVE  noted[j] \in Link /\ noted[j].code = selected[j].code
  <2>1. selected[j] \in Link
    BY <1>1, ElementOfSeq
  <2>2. /\ [selected[j] EXCEPT !.note = note] \in Link
        /\ [selected[j] EXCEPT !.note = note].code = selected[j].code
    BY <2>1 DEF Link, Notes
  <2> QED
    BY <1>2, <2>1, <2>2
<1>4. selected' = noted
  BY DEF Annotate
<1> HIDE DEF noted
<1>5. /\ selected' \in [1 .. Len(selected) -> Link]
      /\ \A j \in 1 .. Len(selected) : selected'[j].code = selected[j].code
  BY <1>2, <1>3, <1>4 DEF noted
<1>6. selected' \in Seq(Link) /\ DOMAIN selected' = DOMAIN selected
  BY <1>2, <1>5, SeqDef
<1>7. Apart(selected', suggestions)
  BY <1>2, <1>5, <1>6 DEF PickerInv, Apart
<1> QED
  BY <1>6, <1>7, SamePage DEF Annotate, PickerInv, PickerTypeOK

\* An answer that is late is held against what has been picked by then.
LEMMA SearchIsApart ==
    ASSUME PickerInv, NEW hasMany \in BOOLEAN, Search(hasMany)
    PROVE  PickerInv'
<1>1. CASE \E text \in Texts : Type(hasMany, text)
  <2>1. UNCHANGED <<selected, props>> /\ suggestions' \in {suggestions, {}}
    BY <1>1 DEF Type
  <2>2. PickerTypeOK'
    BY <1>1, <2>1, SamePage DEF Type, PickerInv, PickerTypeOK
  <2> QED
    BY <2>1, <2>2, SamePage DEF PickerInv, Apart
<1>2. CASE Focus(hasMany) \/ Blur \/ FetchSuggestions \/ FetchFails
  <2>1. UNCHANGED <<selected, props>> /\ suggestions' \in {suggestions, {}}
    BY <1>2 DEF Focus, Blur, FetchSuggestions, FetchFails
  <2>2. PickerTypeOK'
    BY <1>2, <2>1, SamePage DEF Focus, Blur, FetchSuggestions, FetchFails, PickerInv, PickerTypeOK
  <2> QED
    BY <2>1, <2>2, SamePage DEF PickerInv, Apart
<1>3. CASE SuggestionsArrive
  <2>1. Found[asked] \subseteq Codes
    BY <1>3, PickerAssumption DEF SuggestionsArrive, PickerInv, PickerTypeOK
  <2> QED
    BY <1>3, <2>1
    DEF SuggestionsArrive, Offered, Parent, SelectedCodes, props, PickerInv, PickerTypeOK, Apart
<1> QED
  BY <1>1, <1>2, <1>3 DEF Search

LEMMA PickIsApart ==
    ASSUME PickerInv, NEW hasMany \in BOOLEAN, Pick(hasMany)
    PROVE  PickerInv'
<1>1. CASE \E code \in suggestions : Choose(hasMany, code)
  BY <1>1, AddRelationshipIsApart DEF Choose
<1>2. CASE PressTab(hasMany) \/ PressEnter(hasMany)
  BY <1>2, SelectOnlyIsApart DEF PressTab, PressEnter
<1>3. CASE \E i \in DOMAIN selected : OnRelationshipRemove(i)
  BY <1>3, RemoveIsApart
<1>4. CASE \E i \in DOMAIN selected, note \in {"yes", "picked no"} : Annotate(i, note)
  BY <1>4, AnnotateIsApart
<1> QED
  BY <1>1, <1>2, <1>3, <1>4 DEF Pick

-----------------------------------------------------------------------------
(* The values on their way.                                                *)

LEMMA NoLinks == {} \in RecordLinks /\ RecordLinks \subseteq Links
BY DEF Links, RecordLinks, OnePerCode

LEMMA ValuesAreLinks ==
    ASSUME NEW k \in Relationships, NEW value \in Values(k)
    PROVE  value \in RecordLinks
<1>1. /\ value \subseteq [code : Codes, note : {"no"}]
      /\ \A one, two \in value : one.code = two.code => one = two
  BY DEF Relationships, Values
<1>2. [code : Codes, note : {"no"}] \subseteq Link
  BY DEF Link, Notes
<1> QED
  BY <1>1, <1>2 DEF Links, RecordLinks, OnePerCode, Notes

LEMMA ParsedAreLinks ==
    ASSUME NEW k \in Relationships, NEW links \in Links
    PROVE  Parsed(k, links) \in RecordLinks
<1>1. Parsed(k, links) = {[link EXCEPT !.note = ParsedNote(@)] : link \in links}
  BY DEF Parsed, Relationships
<1>2. links \subseteq Link /\ \A one, two \in links : one.code = two.code => one = two
  BY DEF Links, OnePerCode
<1>3. \A link \in Link :
         /\ [link EXCEPT !.note = ParsedNote(@)] \in Link
         /\ [link EXCEPT !.note = ParsedNote(@)].code = link.code
         /\ [link EXCEPT !.note = ParsedNote(@)].note \in Notes
  BY DEF Link, Notes, ParsedNote
<1>4. Parsed(k, links) \subseteq Link /\ \A link \in Parsed(k, links) : link.note \in Notes
  BY <1>1, <1>2, <1>3
<1>5. ASSUME NEW one \in Parsed(k, links), NEW two \in Parsed(k, links), one.code = two.code
      PROVE  one = two
  <2>1. PICK first \in links : one = [first EXCEPT !.note = ParsedNote(@)]
    BY <1>1
  <2>2. PICK second \in links : two = [second EXCEPT !.note = ParsedNote(@)]
    BY <1>1
  <2>3. first.code = second.code
    BY <1>2, <1>3, <1>5, <2>1, <2>2
  <2> QED
    BY <1>2, <2>1, <2>2, <2>3
<1> QED
  BY <1>4, <1>5 DEF Links, RecordLinks, OnePerCode

LEMMA StoredAreLinks ==
    ASSUME NEW k \in Relationships, NEW old \in RecordLinks, NEW links \in Links, NEW disabled
    PROVE  Stored(k, old, Coerced(k, Parsed(k, Posted(k, links, disabled)))) \in RecordLinks
<1>1. Posted(k, links, disabled) = links
  BY DEF Posted, Relationships
<1>2. \A value : Coerced(k, value) = value /\ Converted(k, value) = value
  BY DEF Coerced, Converted, SetKinds, Relationships
<1> QED
  BY <1>1, <1>2, ParsedAreLinks DEF Stored

LEMMA BlankType ==
    /\ \A k \in Relationships : Blank(k) \in RecordLinks /\ Empty(k) \in Links
    /\ \A k \in Kinds \ Relationships : Blank(k) \in Values(k) /\ CanHold(k, Empty(k))
<1>1. \A k \in Relationships : Blank(k) = {} /\ Empty(k) = {}
  BY DEF Relationships, SetKinds, Blank, Empty
<1>2. \A k \in Kinds \ Relationships : Blank(k) \in Values(k)
  BY DEF Kinds, Relationships, SetKinds, Temporal, Blank, Values
<1>3. \A k \in Kinds \ Relationships : CanHold(k, Empty(k))
  BY DEF CanHold
<1> QED
  BY <1>1, <1>2, <1>3, NoLinks

LEMMA AtIsATime == \A clock \in Clocks : \A zone : At(clock, zone) \in Times
BY DEF Clocks, At, Times

\* A clock that has been read is the one that was written.
LEMMA ReadBack ==
    /\ \A clock \in Clocks : \A zone : Clock(At(clock, zone)) = clock
    /\ \A clock \in Clocks : ClockInUTC(At(clock, "Z")) = clock
    /\ \A time \in Times : Clock(time) \in Clocks /\ ClockInUTC(time) \in Clocks
BY DEF Clocks, Clock, ClockInUTC, At, Times

LEMMA InputType ==
    /\ \A k \in Relationships : \A value \in Links : Input(k, value) \in Links
    /\ \A k \in Kinds \ Relationships : \A value \in Values(k) : CanHold(k, Input(k, value))
<1>1. ASSUME NEW k \in Relationships, NEW value \in Links
      PROVE  Input(k, value) \in Links
  BY <1>1, BlankType DEF Input, Trimmed, Relationships
<1>2. ASSUME NEW k \in Kinds \ Relationships, NEW value \in Values(k)
      PROVE  CanHold(k, Input(k, value))
  <2>1. CASE value = Blank(k)
    BY <1>2, <2>1 DEF Input, CanHold
  <2>2. CASE value # Blank(k) /\ k \in Timed
    <3>1. value \in Times /\ value # NoValue
      BY <2>2 DEF Timed, Values, Blank, SetKinds
    <3>2. Input(k, value) = Clock(value) \/ Input(k, value) = ClockInUTC(value)
      BY <2>2, <3>1 DEF Input, Trimmed, Timed
    <3>3. Input(k, value) \in Entries(k)
      BY <2>2, <3>1, <3>2, ReadBack DEF Entries, Timed
    <3> QED
      BY <3>3 DEF CanHold
  <2>3. CASE value # Blank(k) /\ k \notin Timed
    BY <1>2, <2>3 DEF Input, Trimmed, CanHold, Timed
  <2> QED
    BY <2>1, <2>2, <2>3
<1> QED
  BY <1>1, <1>2

\* What the form and the API make of a date or a time on its way.
LEMMA TemporalWay ==
    ASSUME NEW k \in Temporal, NEW input, CanHold(k, input)
    PROVE  /\ IF k = "Date" THEN input \in {"", "2020-01-15", Epoch} ELSE input \in Clocks \union {""}
           /\ Coerced(k, Parsed(k, input)) = IF input = "" THEN NoValue ELSE input
<1>1. IF k = "Date" THEN input \in {"", "2020-01-15", Epoch} ELSE input \in Clocks \union {""}
  <2>1. Empty(k) = ""
    BY DEF Empty, Temporal, SetKinds
  <2>2. CASE k = "Date"
    BY <2>1, <2>2 DEF CanHold, Entries, Values, Blank, SetKinds
  <2>3. CASE k # "Date"
    <3>1. k \in Timed /\ Entries(k) = Clocks \union {""}
      BY <2>3 DEF Temporal, Timed, Entries
    <3> QED
      BY <2>1, <2>3, <3>1 DEF CanHold
  <2> QED
    BY <2>2, <2>3
<1>2. input # "null" /\ k \notin SetKinds /\ k \notin Relationships
  BY <1>1 DEF Epoch, Clocks, SetKinds, Relationships, Temporal
<1>3. Parsed(k, input) = input
  BY <1>2 DEF Parsed, Temporal
<1> QED
  BY <1>1, <1>2, <1>3 DEF Coerced

LEMMA TemporalIsStored ==
    ASSUME NEW k \in Temporal, NEW old \in Values(k), NEW input, CanHold(k, input),
           IsConvertible(k, old, Coerced(k, Parsed(k, input)))
    PROVE  Stored(k, old, Coerced(k, Parsed(k, input))) \in Values(k)
<1> DEFINE body == Coerced(k, Parsed(k, input))
<1>1. /\ IF k = "Date" THEN input \in {"", "2020-01-15", Epoch} ELSE input \in Clocks \union {""}
      /\ body = IF input = "" THEN NoValue ELSE input
  BY TemporalWay
<1> HIDE DEF body
<1> SUFFICES ASSUME Changed(k, old, body) PROVE Converted(k, body) \in Values(k)
  BY DEF Stored, body
<1>2. CASE k = "Date"
  BY <1>1, <1>2 DEF Converted, Values
<1>3. CASE k = "Time"
  <2>1. body # NoValue
    BY <1>3 DEF IsConvertible, body
  <2>2. Converted(k, body) = At(body, ApiZone) /\ body \in Clocks
    BY <1>1, <1>3, <2>1 DEF Converted
  <2> QED
    BY <1>3, <2>2, AtIsATime DEF Values
<1>4. CASE k = "DateTime"
  <2>1. \E clock \in Clocks : Converted(k, body) = At(clock, ApiZone)
    BY <1>1, <1>4 DEF Converted, Clocks
  <2> QED
    BY <1>4, <2>1, AtIsATime DEF Values
<1> QED
  BY <1>2, <1>3, <1>4 DEF Temporal

\* A value that is posted and not refused is one the record can have.
LEMMA StoredType ==
    ASSUME NEW k \in Kinds \ Relationships, NEW old \in Values(k), NEW input, CanHold(k, input),
           NEW disabled \in BOOLEAN,
           k \in SetKinds \/ Posted(k, input, disabled) # NotSent,
           Valid(k, Coerced(k, Parsed(k, Posted(k, input, disabled)))),
           IsConvertible(k, old, Coerced(k, Parsed(k, Posted(k, input, disabled))))
    PROVE  Stored(k, old, Coerced(k, Parsed(k, Posted(k, input, disabled)))) \in Values(k)
<1> DEFINE body == Coerced(k, Parsed(k, Posted(k, input, disabled)))
<1>1. CASE k = "MultipleChoice"
  <2>1. body \in SUBSET Options
    BY <1>1 DEF Kinds, Relationships, SetKinds, Coerced, Parsed, Posted, CanHold, Entries, Values, Empty
  <2> QED
    BY <1>1, <2>1 DEF Stored, Converted, Values
<1>2. CASE k # "MultipleChoice"
  <2>1. Posted(k, input, disabled) = input /\ ~ (k = "Boolean" /\ input = "") /\ k \notin SetKinds
    BY <1>2 DEF Kinds, Relationships, SetKinds, Posted
  <2>2. CASE k = "Text"
    BY <2>1, <2>2 DEF Coerced, Parsed, CanHold, Entries, Values, Empty, Stored, Converted, SetKinds
  <2>3. CASE k = "Number"
    BY <2>1, <2>3
    DEF Coerced, Parsed, CanHold, Entries, Values, Empty, Stored, Converted, Valid, SetKinds, NotANumber
  <2>4. CASE k = "Boolean"
    BY <2>1, <2>4 DEF Coerced, Parsed, CanHold, Entries, Values, Empty, Stored, Converted, SetKinds
  <2>5. CASE k \in Temporal
    BY <2>1, <2>5, TemporalIsStored
  <2>6. CASE k = "Enum"
    BY <2>1, <2>6 DEF Coerced, Parsed, CanHold, Entries, Values, Empty, Stored, Converted, SetKinds
  <2> QED
    BY <1>2, <2>2, <2>3, <2>4, <2>5, <2>6 DEF Kinds, Relationships, SetKinds, Temporal
<1> QED
  BY <1>1, <1>2

LEMMA RedisplayedType ==
    ASSUME NEW k \in Kinds, NEW input, NEW disabled \in BOOLEAN,
           IF k \in Relationships THEN input \in Links ELSE CanHold(k, input)
    PROVE  IF k \in Relationships THEN Redisplayed(k, Posted(k, input, disabled)) \in Links
                                  ELSE CanHold(k, Redisplayed(k, Posted(k, input, disabled)))
<1> DEFINE posted == Posted(k, input, disabled)
<1>1. CASE k \in Relationships
  <2>1. Posted(k, input, disabled) = input
    BY <1>1 DEF Posted, Relationships
  <2>2. Redisplayed(k, input) = Parsed(k, input)
    BY <1>1 DEF Redisplayed, SetKinds, Relationships
  <2> QED
    BY <1>1, <2>1, <2>2, ParsedAreLinks, NoLinks
<1>2. CASE k = "MultipleChoice"
  BY <1>2 DEF Redisplayed, Posted, Parsed, SetKinds, Relationships, CanHold, Entries, Values, Empty
<1>3. CASE k \notin SetKinds
  <2>1. CASE k \in Temporal \/ posted \in {NotSent, "", "Don't know"}
    <3>1. Redisplayed(k, posted) = Empty(k)
      BY <1>3, <2>1 DEF Redisplayed
    <3> QED
      BY <1>3, <3>1 DEF CanHold, SetKinds, Relationships
  <2>2. CASE ~ (k \in Temporal \/ posted \in {NotSent, "", "Don't know"})
    <3>1. posted = input /\ k \in {"Text", "Number", "Boolean", "Enum"}
      BY <1>3, <2>2 DEF Posted, Temporal, SetKinds, Relationships, Kinds
    <3>2. Redisplayed(k, posted) = Input(k, Parsed(k, input))
      BY <1>3, <2>2, <3>1 DEF Redisplayed, SetKinds
    <3>3. CanHold(k, Input(k, Parsed(k, input)))
      BY <1>3, <3>1
      DEF Input, Trimmed, Parsed, CanHold, Timed, Entries, Values, Empty, Blank, SetKinds, Relationships
    <3> QED
      BY <1>3, <3>2, <3>3 DEF SetKinds, Relationships
  <2> QED
    BY <2>1, <2>2
<1> QED
  BY <1>1, <1>2, <1>3 DEF SetKinds, Relationships

-----------------------------------------------------------------------------
(* The page.                                                               *)

\* page \in Page, for any page.
IsPage(p) ==
    p \in [pc: {"closed", "open", "sent", "saved"}, creates: BOOLEAN, failed: BOOLEAN,
           fields: SUBSET Fields, entered: SUBSET Fields, since: SUBSET Fields, locks: Locks,
           code: Codes \union {"", NotSent}, inputs: {p.inputs}]

PageInv ==
    /\ IsPage(page)
    /\ \A f \in page.fields : IsPicker(f) \/ CanHold(kind[f], page.inputs[f])

LEMMA FormInvParts ==
    FormInv <=> /\ HasLayout
                /\ RecordTypeOK
                /\ exists \in BOOLEAN
                /\ locks \in Locks
                /\ PageInv
                /\ PickerInv
BY DEF FormInv, PageInv, IsPage, Page

LEMMA FormInvAfter ==
    ASSUME UNCHANGED <<schema, sameType>>, HasLayout, RecordTypeOK', exists' \in BOOLEAN, locks' \in Locks,
           PageInv', PickerInv'
    PROVE  FormInv'
BY DEF FormInv, PageInv, IsPage, Page, Fields, Locks, HasLayout, schema

LEMMA SameRecord ==
    ASSUME FormInv, UNCHANGED <<schema, record, exists, locks>>
    PROVE  /\ HasLayout
           /\ RecordTypeOK' /\ exists' \in BOOLEAN /\ locks' \in Locks
BY DEF FormInv, RecordTypeOK, Fields, IsPicker, schema

LEMMA KindsOfFields ==
    ASSUME HasLayout, NEW f \in Fields
    PROVE  /\ kind[f] \in Kinds /\ (IsPicker(f) <=> kind[f] \in Relationships)
           /\ \A g \in Fields : IsPicker(f) /\ IsPicker(g) => f = g
<1>1. PICK layout \in Layouts : kind = layout.kind
  BY DEF HasLayout
<1>2. /\ \A g \in DOMAIN layout.kind : layout.kind[g] \in Kinds
      /\ \A g, h \in DOMAIN layout.kind :
            {layout.kind[g], layout.kind[h]} \subseteq Relationships => g = h
  BY FormAssumption
<1> QED
  BY <1>1, <1>2 DEF Fields, IsPicker

LEMMA NoLocksType == NoLocks \in Locks
BY DEF NoLocks, Locks

LEMMA ClosedPageType == IsPage(ClosedPage) /\ InputsOK({}, ClosedPage.inputs)
BY NoLocksType DEF IsPage, ClosedPage, InputsOK

LEMMA BlankInputsOK ==
    ASSUME HasLayout
    PROVE  InputsOK(Fields, BlankInputs)
BY KindsOfFields, BlankType DEF InputsOK, BlankInputs

LEMMA RecordInputsOK ==
    ASSUME HasLayout, RecordTypeOK
    PROVE  InputsOK(Fields, [f \in Fields |-> Input(kind[f], record[f])])
BY KindsOfFields, InputType, NoLinks DEF InputsOK, RecordTypeOK

LEMMA BlankRecordType ==
    ASSUME HasLayout
    PROVE  /\ DOMAIN BlankRecord = Fields
           /\ \A f \in Fields : IF IsPicker(f) THEN BlankRecord[f] \in RecordLinks
                                               ELSE BlankRecord[f] \in Values(kind[f])
BY KindsOfFields, BlankType DEF BlankRecord

\* A layout has one picker at most, whose links become those of the new page.
LEMMA RenderKeeps ==
    ASSUME HasLayout, UNCHANGED schema, NEW p, IsPage(p), InputsOK(p.fields, p.inputs),
           NEW code \in Codes \union {NoCode}, Render(p, code), sameType \in BOOLEAN
    PROVE  PageInv' /\ PickerInv' /\ UNCHANGED sameType
<1> DEFINE pickers == {g \in p.fields : IsPicker(g)}
           links == UNION {p.inputs[f] : f \in pickers}
<1>1. p.fields \subseteq Fields
  BY DEF IsPage
<1>2. \A f \in pickers : p.inputs[f] \in Links
  BY DEF InputsOK
<1>3. \A f, g \in pickers : f = g
  BY <1>1, KindsOfFields
<1>4. links \in Links
  <2>1. CASE pickers = {}
    <3>1. links = {}
      BY <2>1
    <3> QED
      BY <3>1, NoLinks
  <2>2. CASE pickers # {}
    <3>1. PICK f \in pickers : TRUE
      BY <2>2
    <3>2. pickers = {f}
      BY <1>3, <3>1
    <3>3. links = p.inputs[f]
      BY <3>2
    <3> QED
      BY <1>2, <3>3
  <2> QED
    BY <2>1, <2>2
<1>5. page' = p /\ Mount(links, code) /\ UNCHANGED <<schema, sameType>>
  BY DEF Render, Mount, schema
<1>6. PickerInv'
  BY <1>4, <1>5, MountIsApart
<1>7. PageInv'
  <2>1. kind' = kind /\ page' = p
    BY <1>5 DEF schema
  <2>2. Fields' = Fields /\ Locks' = Locks
    BY <2>1 DEF Fields, Locks, Clients
  <2>3. IsPage(page)'
    BY <2>1, <2>2 DEF IsPage
  <2>4. \A f \in p.fields : IsPicker(f) \/ CanHold(kind[f], p.inputs[f])
    BY DEF InputsOK
  <2>5. (\A f \in page.fields : IsPicker(f) \/ CanHold(kind[f], page.inputs[f]))'
    BY <2>1, <2>4 DEF IsPicker
  <2> QED
    BY <2>3, <2>5 DEF PageInv
<1> QED
  BY <1>5, <1>6, <1>7

\* What the inputs hold is what they can hold.
LEMMA ShownType ==
    ASSUME FormInv, NEW f \in page.fields
    PROVE  /\ f \in Fields
           /\ Disabled(f) \in BOOLEAN
           /\ IF IsPicker(f) THEN Shown(f) \in Links ELSE CanHold(kind[f], Shown(f))
<1>1. f \in Fields
  BY DEF FormInv, Page
<1>2. CASE IsPicker(f)
  <2>1. Shown(f) = {selected[i] : i \in DOMAIN selected}
    BY <1>2 DEF Shown
  <2>2. /\ \A i \in DOMAIN selected : selected[i] \in Link
        /\ \A i, j \in DOMAIN selected : selected[i].code = selected[j].code => i = j
    BY DEF FormInv, PickerInv, PickerTypeOK, Apart
  <2>3. Shown(f) \in Links
    BY <2>1, <2>2 DEF Links, OnePerCode
  <2> QED
    BY <1>1, <1>2, <2>3 DEF Disabled
<1>3. CASE ~ IsPicker(f)
  BY <1>1, <1>3 DEF FormInv, Shown, Disabled
<1> QED
  BY <1>2, <1>3

LEMMA ErrorInputsOK ==
    ASSUME FormInv
    PROVE  InputsOK(Fields, [f \in Fields |-> IF f \in page.fields THEN Redisplayed(kind[f], PostedBy(f))
                                                                   ELSE Empty(kind[f])])
<1>1. HasLayout
  BY DEF FormInv
<1>2. ASSUME NEW f \in page.fields
      PROVE  IF IsPicker(f) THEN Redisplayed(kind[f], PostedBy(f)) \in Links
                            ELSE CanHold(kind[f], Redisplayed(kind[f], PostedBy(f)))
  BY <1>1, ShownType, KindsOfFields, RedisplayedType DEF PostedBy
<1>3. ASSUME NEW f \in Fields
      PROVE  IF IsPicker(f) THEN Empty(kind[f]) \in Links ELSE CanHold(kind[f], Empty(kind[f]))
  BY <1>1, KindsOfFields, BlankType
<1> QED
  BY <1>2, <1>3 DEF InputsOK

\* A write that is not refused leaves a record of the layout.
LEMMA WriteType ==
    ASSUME FormInv, Write, UNCHANGED schema
    PROVE  RecordTypeOK' /\ exists' \in BOOLEAN
<1>1. HasLayout /\ RecordTypeOK
  BY DEF FormInv
<1>2. ASSUME NEW f \in Sent
      PROVE  IF IsPicker(f) THEN Stored(kind[f], record[f], Body(f)) \in RecordLinks
                            ELSE Stored(kind[f], record[f], Body(f)) \in Values(kind[f])
  <2>1. /\ f \in page.fields
        /\ kind[f] \in SetKinds \/ PostedBy(f) # NotSent
        /\ Valid(kind[f], Body(f)) /\ IsConvertible(kind[f], record[f], Body(f))
    BY DEF Sent, Write, Refusal
  <2>2. f \in Fields /\ Disabled(f) \in BOOLEAN /\ kind[f] \in Kinds
    BY <1>1, <2>1, ShownType, KindsOfFields
  <2>3. CASE IsPicker(f)
    BY <1>1, <2>1, <2>2, <2>3, ShownType, KindsOfFields, StoredAreLinks
    DEF Body, PostedBy, RecordTypeOK
  <2>4. CASE ~ IsPicker(f)
    <3>1. kind[f] \in Kinds \ Relationships /\ record[f] \in Values(kind[f]) /\ CanHold(kind[f], Shown(f))
      BY <1>1, <2>1, <2>2, <2>4, ShownType, KindsOfFields DEF RecordTypeOK
    <3> QED
      BY <2>1, <2>2, <2>4, <3>1, StoredType DEF Body, PostedBy
  <2> QED
    BY <2>3, <2>4
<1> QED
  BY <1>1, <1>2 DEF Write, RecordTypeOK, Fields, IsPicker, schema

\* A new page shows what it was made from.
LEMMA RenderShows ==
    ASSUME HasLayout, UNCHANGED schema, NEW p, IsPage(p), InputsOK(p.fields, p.inputs),
           NEW code \in Codes \union {NoCode}, Render(p, code),
           NEW f \in p.fields
    PROVE  Shown(f)' = p.inputs[f]
<1>1. page' = p /\ p.fields \subseteq Fields /\ UNCHANGED kind
  BY DEF Render, IsPage, schema
<1>2. CASE IsPicker(f)
  <2> DEFINE links == UNION {p.inputs[g] : g \in {h \in p.fields : IsPicker(h)}}
  <2>1. links = p.inputs[f]
    <3>1. {h \in p.fields : IsPicker(h)} = {f}
      BY <1>1, <1>2, KindsOfFields
    <3> QED
      BY <3>1
  <2>2. Mount(links, code)
    BY DEF Render
  <2> HIDE DEF links
  <2>3. p.inputs[f] \in Links
    BY <1>2 DEF InputsOK
  <2>4. {selected'[i] : i \in DOMAIN selected'} = p.inputs[f]
    <3> DEFINE s == SetToSeq(links)
    <3>1. selected' = s
      BY <2>2 DEF Mount
    <3>2. links = {s[i] : i \in DOMAIN s}
      BY <2>1, <2>3, LinksAreFinite, SetToSeqIsInjective
    <3> HIDE DEF s
    <3> QED
      BY <2>1, <3>1, <3>2
  <2> QED
    BY <1>1, <1>2, <2>4 DEF Shown, IsPicker
<1>3. CASE ~ IsPicker(f)
  BY <1>1, <1>3 DEF Shown, IsPicker
<1> QED
  BY <1>2, <1>3

-----------------------------------------------------------------------------
(* The inductive invariant.                                                *)

LEMMA InitInv == Init => FormInv
<1> SUFFICES ASSUME Init PROVE FormInv
  OBVIOUS
<1>1. HasLayout /\ exists \in BOOLEAN /\ locks \in Locks /\ sameType \in BOOLEAN
  <2>1. PICK layout \in Layouts : locks \in IF exists THEN [Fields -> layout.owners] ELSE {NoLocks}
    BY DEF Init
  <2>2. layout.owners \subseteq Clients \union {Nobody}
    BY FormAssumption
  <2>3. locks \in Locks
    BY <2>1, <2>2, NoLocksType DEF Locks
  <2>4. sameType \in BOOLEAN
    BY FormAssumption DEF Init, HasLayout
  <2> QED
    BY <2>3, <2>4 DEF Init
<1>2. RecordTypeOK
  <2>1. CASE exists
    <3>1. PICK r \in [Fields -> KindsAndValues] :
             /\ \A f \in Fields : r[f][1] = kind[f]
             /\ record = [f \in Fields |-> r[f][2]]
      BY <2>1 DEF Init, Records
    <3>2. ASSUME NEW f \in Fields
          PROVE  record[f] \in Values(kind[f])
      <4>1. PICK g \in Fields : r[f] \in {kind[g]} \X Values(kind[g])
        BY <3>1 DEF KindsAndValues
      <4> QED
        BY <3>1, <4>1
    <3> QED
      BY <1>1, <3>1, <3>2, ValuesAreLinks, KindsOfFields DEF RecordTypeOK
  <2>2. CASE ~ exists
    BY <1>1, <2>2, BlankRecordType DEF Init, RecordTypeOK
  <2> QED
    BY <2>1, <2>2
<1>3. PageInv
  BY ClosedPageType DEF Init, PageInv, ClosedPage
<1>4. PickerInv
  <2>1. selected \in Seq(Link) /\ Len(selected) = 0
    BY EmptySeq DEF Init
  <2>2. DOMAIN selected = {}
    BY <2>1, LenProperties
  <2> QED
    BY <1>1, <2>1, <2>2, PickerAssumption DEF Init, PickerInv, PickerTypeOK, Apart
<1> QED
  BY <1>1, <1>2, <1>3, <1>4, FormInvParts

\* A new page on an unchanged record.
LEMMA RenderOnly ==
    ASSUME FormInv, NEW p, IsPage(p), InputsOK(p.fields, p.inputs),
           NEW code \in Codes \union {NoCode}, Render(p, code),
           UNCHANGED <<schema, record, exists, locks>>
    PROVE  FormInv'
<1>1. PageInv' /\ PickerInv'
  BY RenderKeeps DEF FormInv, PickerInv, PickerTypeOK, schema
<1>2. UNCHANGED <<schema, sameType>>
  BY DEF Render, Mount, schema
<1> QED
  BY <1>1, <1>2, SameRecord, FormInvAfter

LEMMA OpenInv ==
    ASSUME FormInv, NEW fields \in SUBSET Fields, NEW code \in {Self, NotSent}, Open(fields, code)
    PROVE  FormInv'
<1> DEFINE p == [ClosedPage EXCEPT !.pc = "open", !.fields = fields, !.code = code, !.locks = locks,
                                   !.inputs = [f \in Fields |-> Input(kind[f], record[f])]]
<1>1. IsPage(p) /\ p.fields = fields /\ p.inputs = [f \in Fields |-> Input(kind[f], record[f])]
  BY FormAssumption DEF FormInv, IsPage, ClosedPage
<1>2. InputsOK(p.fields, p.inputs)
  BY <1>1, RecordInputsOK DEF FormInv, InputsOK
<1>3. Render(p, Self) /\ UNCHANGED <<schema, record, exists, locks>>
  BY DEF Open
<1> HIDE DEF p
<1> QED
  BY <1>1, <1>2, <1>3, RenderOnly, FormAssumption

LEMMA OpenNewInv ==
    ASSUME FormInv, OpenNew
    PROVE  FormInv'
<1> DEFINE p == [ClosedPage EXCEPT !.pc = "open", !.creates = TRUE, !.fields = Fields]
<1>1. IsPage(p) /\ p.fields = Fields /\ p.inputs = BlankInputs
  BY NoLocksType DEF IsPage, ClosedPage
<1>2. InputsOK(p.fields, p.inputs)
  BY <1>1, BlankInputsOK DEF FormInv
<1>3. Render(p, NoCode) /\ UNCHANGED <<schema, record, exists, locks>>
  BY DEF OpenNew
<1> HIDE DEF p
<1> QED
  BY <1>1, <1>2, <1>3, RenderOnly, FormAssumption

LEMMA EnterInv ==
    ASSUME FormInv, NEW f \in page.fields, NEW entry \in Entries(kind[f]), Enter(f, entry)
    PROVE  FormInv'
<1>1. f \in Fields
  BY DEF FormInv, Page
<1>2. IsPage(page') /\ page'.fields = page.fields
  BY <1>1, FormInvParts DEF PageInv, IsPage, Enter
<1>3. \A g \in page.fields : page'.inputs[g] = page.inputs[g] \/ (g = f /\ page'.inputs[g] = entry)
  <2>1. page' = [page EXCEPT !.inputs[f] = entry, !.entered = @ \union {f}]
    BY DEF Enter
  <2>2. page.inputs \in {page.inputs} /\ IsPage(page)
    BY FormInvParts DEF PageInv
  <2>3. page'.inputs = [page.inputs EXCEPT ![f] = entry]
    BY <2>1, <2>2 DEF IsPage
  <2> QED
    BY <2>3
<1>4. \A g \in page.fields : IsPicker(g) \/ CanHold(kind[g], page'.inputs[g])
  BY <1>3 DEF FormInv, CanHold
<1>5. UNCHANGED <<schema, record, exists, locks>>
  BY DEF Enter
<1>6. PageInv'
  BY <1>2, <1>4, <1>5 DEF PageInv, IsPage, Fields, IsPicker, Locks, schema
<1>7. PickerInv'
  BY DEF Enter, pickerVars, props, FormInv, PickerInv, PickerTypeOK, Apart, Parent
<1> QED
  BY <1>5, <1>6, <1>7, SameRecord, FormInvAfter DEF Enter, pickerVars, props

LEMMA EnterCodeInv ==
    ASSUME FormInv, NEW code \in CodeEntries, EnterCode(code)
    PROVE  FormInv'
<1>1. code \in Codes \union {""} /\ page' = [page EXCEPT !.code = code]
  BY FormAssumption DEF EnterCode
<1>2. UNCHANGED <<schema, record, exists, locks, pickerVars>>
  BY DEF EnterCode
<1>3. PageInv'
  BY <1>1, <1>2, FormInvParts DEF PageInv, IsPage, Fields, IsPicker, Locks, schema
<1>4. PickerInv'
  BY <1>2 DEF pickerVars, props, FormInv, PickerInv, PickerTypeOK, Apart, Parent
<1> QED
  BY <1>2, <1>3, <1>4, SameRecord, FormInvAfter DEF pickerVars, props

LEMMA UsePickerInv ==
    ASSUME FormInv, NEW f \in page.fields, UsePicker(f)
    PROVE  FormInv'
<1>1. f \in Fields
  BY DEF FormInv, Page
<1>2. PickerInv'
  BY SearchIsApart, PickIsApart DEF UsePicker, FormInv
<1>3. page' = page \/ page' = [page EXCEPT !.entered = @ \union {f}]
  BY DEF UsePicker
<1>4. PageInv'
  <2>1. kind' = kind
    BY DEF UsePicker, schema
  <2>2. IsPage(page) /\ \A g \in page.fields : IsPicker(g) \/ CanHold(kind[g], page.inputs[g])
    BY FormInvParts DEF PageInv
  <2>3. page'.fields = page.fields /\ page'.inputs = page.inputs
    BY <1>3, <2>2 DEF IsPage
  <2>4. IsPage(page')
    <3>1. CASE page' = page
      BY <2>2, <3>1
    <3>2. CASE page' = [page EXCEPT !.entered = @ \union {f}]
      BY <1>1, <2>2, <3>2 DEF IsPage
    <3> QED
      BY <1>3, <3>1, <3>2
  <2>5. IsPage(page)'
    <3>1. Fields' = Fields /\ Locks' = Locks
      BY <2>1 DEF Fields, Locks, Clients
    <3> QED
      BY <2>4, <3>1 DEF IsPage
  <2> QED
    BY <2>1, <2>2, <2>3, <2>5 DEF PageInv, IsPicker
<1>5. UNCHANGED <<schema, sameType>>
  <2>1. Search(kind[f] = "Many") => UNCHANGED props
    BY DEF Search, Type, Focus, Blur, FetchSuggestions, SuggestionsArrive, FetchFails
  <2>2. Pick(kind[f] = "Many") => UNCHANGED props
    BY DEF Pick, Choose, PressTab, PressEnter, SelectOnly, AddRelationship, OnRelationshipRemove, Annotate
  <2> QED
    BY <2>1, <2>2 DEF UsePicker, props
<1> QED
  BY <1>2, <1>4, <1>5, SameRecord, FormInvAfter DEF UsePicker

LEMMA SubmitInv ==
    ASSUME FormInv, Submit
    PROVE  FormInv'
<1>1. page' = [page EXCEPT !.pc = "sent"]
  BY DEF Submit
<1>2. PageInv'
  BY <1>1, FormInvParts DEF Submit, PageInv, IsPage, Fields, IsPicker, Locks, schema
<1>3. PickerInv'
  BY DEF Submit, StopSearch, props, FormInv, PickerInv, PickerTypeOK, Apart, Parent, PickerAssumption
<1> QED
  BY <1>2, <1>3, SameRecord, FormInvAfter DEF Submit, StopSearch, props

LEMMA LeaveInv ==
    ASSUME FormInv, Leave
    PROVE  FormInv'
<1>1. ClosedPage.fields = {}
  BY DEF ClosedPage
<1> QED
  BY <1>1, ClosedPageType, RenderOnly DEF Leave

\* The record may have been written, when the answer is shown.
LEMMA RenderWritten ==
    ASSUME FormInv, NEW p, IsPage(p), InputsOK(p.fields, p.inputs),
           NEW code \in Codes \union {NoCode}, Render(p, code),
           Write, UNCHANGED <<schema, locks>>
    PROVE  FormInv'
<1>1. PageInv' /\ PickerInv'
  BY RenderKeeps DEF FormInv, PickerInv, PickerTypeOK, schema
<1>2. RecordTypeOK' /\ exists' \in BOOLEAN
  BY WriteType DEF schema
<1>3. UNCHANGED <<schema, sameType>>
  BY DEF Render, Mount, schema
<1> QED
  BY <1>1, <1>2, <1>3, FormInvAfter DEF FormInv

LEMMA SaveInv ==
    ASSUME FormInv, Save
    PROVE  FormInv'
<1> DEFINE p == [ClosedPage EXCEPT !.pc = "saved"]
<1>1. IsPage(p) /\ p.fields = {}
  BY NoLocksType DEF IsPage, ClosedPage
<1>2. InputsOK(p.fields, p.inputs)
  BY <1>1 DEF InputsOK
<1>3. Render(p, NoCode) /\ Write /\ UNCHANGED <<schema, locks>>
  BY DEF Save
<1> HIDE DEF p
<1> QED
  BY <1>1, <1>2, <1>3, RenderWritten

LEMMA DisplayErrorType ==
    ASSUME FormInv, DisplayError
    PROVE  \E p : \E code \in Codes \union {NoCode} :
              IsPage(p) /\ InputsOK(p.fields, p.inputs) /\ Render(p, code)
<1> DEFINE inputs == [f \in Fields |-> IF f \in page.fields THEN Redisplayed(kind[f], PostedBy(f))
                                                            ELSE Empty(kind[f])]
           blank == page.code \in {NotSent, ""}
           code == IF blank THEN NoCode ELSE page.code
           p == [page EXCEPT !.pc = "open", !.failed = TRUE, !.fields = Fields, !.locks = NoLocks,
                             !.code = IF blank THEN "" ELSE @, !.inputs = inputs]
<1>1. InputsOK(Fields, inputs)
  BY ErrorInputsOK
<1>2. Render(p, code)
  BY DEF DisplayError
<1> HIDE DEF inputs
<1>3. IsPage(p) /\ p.fields = Fields /\ p.inputs = inputs /\ code \in Codes \union {NoCode}
  BY FormInvParts, NoLocksType DEF PageInv, IsPage
<1> QED
  BY <1>1, <1>2, <1>3

LEMMA SaveFailsInv ==
    ASSUME FormInv, SaveFails
    PROVE  FormInv'
BY DisplayErrorType, RenderOnly DEF SaveFails

LEMMA SaveTimesOutInv ==
    ASSUME FormInv, SaveTimesOut
    PROVE  FormInv'
BY DisplayErrorType, RenderWritten DEF SaveTimesOut

LEMMA OthersActInv ==
    ASSUME FormInv, OthersAct, RecordTypeOK', exists' \in BOOLEAN, locks' \in Locks
    PROVE  FormInv'
<1>1. UNCHANGED <<schema, pickerVars>>
  BY DEF OthersAct
<1>2. PageInv'
  BY <1>1, FormInvParts DEF OthersAct, PageInv, IsPage, Fields, IsPicker, Locks, schema
<1>3. PickerInv'
  BY <1>1 DEF pickerVars, props, FormInv, PickerInv, PickerTypeOK, Apart, Parent
<1> QED
  BY <1>1, <1>2, <1>3, FormInvAfter DEF FormInv, pickerVars, props

LEMMA OtherWritesInv ==
    ASSUME FormInv, NEW f \in Fields, NEW value \in Values(kind[f]), OtherWrites(f, value)
    PROVE  FormInv'
<1>1. HasLayout /\ UNCHANGED kind
  BY DEF FormInv, OtherWrites, OthersAct, schema
<1>2. IF IsPicker(f) THEN value \in RecordLinks ELSE value \in Values(kind[f])
  BY <1>1, KindsOfFields, ValuesAreLinks
<1>3. RecordTypeOK'
  BY <1>1, <1>2 DEF FormInv, OtherWrites, RecordTypeOK, Fields, IsPicker
<1> QED
  BY <1>3, OthersActInv DEF OtherWrites, FormInv

LEMMA OtherLocksInv ==
    ASSUME FormInv, NEW f \in Fields, NEW client \in Others \union {Nobody}, OtherLocks(f, client)
    PROVE  FormInv'
<1>1. locks' \in Locks
  BY DEF FormInv, OtherLocks, Locks, Clients
<1>2. RecordTypeOK'
  BY DEF FormInv, OtherLocks, OthersAct, RecordTypeOK, Fields, IsPicker, schema
<1> QED
  BY <1>1, <1>2, OthersActInv DEF OtherLocks, FormInv

LEMMA DeletedType ==
    ASSUME FormInv, Deleted, UNCHANGED schema
    PROVE  RecordTypeOK' /\ exists' \in BOOLEAN /\ locks' \in Locks
<1>1. HasLayout
  BY DEF FormInv
<1> QED
  BY <1>1, BlankRecordType, NoLocksType DEF Deleted, RecordTypeOK, Fields, IsPicker, schema

LEMMA OtherDeletesInv ==
    ASSUME FormInv, OtherDeletes
    PROVE  FormInv'
BY DeletedType, OthersActInv DEF OtherDeletes, OthersAct

LEMMA DeletePageInv ==
    ASSUME FormInv, DeletePage
    PROVE  FormInv'
<1>1. RecordTypeOK' /\ exists' \in BOOLEAN /\ locks' \in Locks
  BY DeletedType DEF DeletePage
<1>2. PageInv'
  BY FormInvParts DEF DeletePage, PageInv, IsPage, Fields, IsPicker, Locks, schema
<1>3. PickerInv'
  BY DEF DeletePage, pickerVars, props, FormInv, PickerInv, PickerTypeOK, Apart, Parent
<1> QED
  BY <1>1, <1>2, <1>3, FormInvAfter DEF DeletePage, FormInv, pickerVars, props

LEMMA NextInv == FormInv /\ [Next]_vars => FormInv'
<1> SUFFICES ASSUME FormInv, [Next]_vars PROVE FormInv'
  OBVIOUS
<1>1. ASSUME NEW fields \in (SUBSET Fields) \ {{}}, NEW code \in {Self, NotSent}, Open(fields, code)
      PROVE  FormInv'
  BY <1>1, OpenInv
<1>2. CASE OpenNew
  BY <1>2, OpenNewInv
<1>3. ASSUME NEW f \in page.fields, NEW entry \in Entries(kind[f]), Enter(f, entry) PROVE FormInv'
  BY <1>3, EnterInv
<1>4. ASSUME NEW f \in page.fields, UsePicker(f) PROVE FormInv'
  BY <1>4, UsePickerInv
<1>5. CASE Submit
  BY <1>5, SubmitInv
<1>6. CASE Leave
  BY <1>6, LeaveInv
<1>7. CASE Save
  BY <1>7, SaveInv
<1>8. CASE SaveFails
  BY <1>8, SaveFailsInv
<1>9. CASE SaveTimesOut
  BY <1>9, SaveTimesOutInv
<1>10. ASSUME NEW f \in Fields, NEW value \in Values(kind[f]), OtherWrites(f, value) PROVE FormInv'
  BY <1>10, OtherWritesInv
<1>11. ASSUME NEW f \in Fields, NEW client \in Others \union {Nobody}, OtherLocks(f, client)
       PROVE  FormInv'
  BY <1>11, OtherLocksInv
<1>12. CASE OtherDeletes
  BY <1>12, OtherDeletesInv
<1>13. CASE DeletePage
  BY <1>13, DeletePageInv
<1>14. ASSUME NEW code \in CodeEntries, EnterCode(code) PROVE FormInv'
  BY <1>14, EnterCodeInv
<1>15. CASE UNCHANGED vars
  <2>1. UNCHANGED <<schema, record, exists, locks, page>> /\ UNCHANGED pickerVars
    BY <1>15 DEF vars
  <2>2. PageInv'
    BY <2>1, FormInvParts DEF PageInv, IsPage, Fields, IsPicker, Locks, schema
  <2>3. PickerInv'
    BY <2>1 DEF pickerVars, props, FormInv, PickerInv, PickerTypeOK, Apart, Parent
  <2> QED
    BY <2>1, <2>2, <2>3, SameRecord, FormInvAfter DEF pickerVars, props
<1> QED
  BY <1>1, <1>2, <1>3, <1>4, <1>5, <1>6, <1>7, <1>8, <1>9, <1>10, <1>11, <1>12, <1>13, <1>15, <1>14
  DEF Next

LEMMA SpecInv == Spec => []FormInv
BY InitInv, NextInv, PTL DEF Spec

-----------------------------------------------------------------------------
(* What an input means, and what becomes of it.                            *)

\* The user interface has the client id that template.jsx knows.
KnownClient == ClientId = AdminId

\* No option is spelled like one of the strings that stand for something else.
PlainOptions == Options \intersect {"", "null", "Don't know", NoValue, NotSent} = {}

NoFalseNotes(links) == \A link \in links : link.note # "no"

LEMMA LinksMeaning ==
    ASSUME NEW k \in Relationships, NEW links \in Links, NoFalseNotes(links), NEW disabled
    PROVE  /\ Posted(k, links, disabled) = links
           /\ Meaning(k, links) = Parsed(k, links)
           /\ Meaning(k, Redisplayed(k, links)) = Meaning(k, links)
           /\ links \in RecordLinks => Parsed(k, links) = links
           /\ \A old \in RecordLinks :
                 Stored(k, old, Coerced(k, Parsed(k, links))) = Parsed(k, links)
<1>1. Posted(k, links, disabled) = links
  BY DEF Posted, Relationships
<1> DEFINE ParsedLink(link) == [link EXCEPT !.note = ParsedNote(@)]
           MeantLink(link) == [link EXCEPT !.note = IF @ = "picked no" THEN "no" ELSE @]
<1>2. Parsed(k, links) = {ParsedLink(link) : link \in links}
  BY DEF Parsed, Relationships
<1>3. \A l : Meaning(k, l) = {MeantLink(link) : link \in l}
  BY DEF Meaning, Relationships
<1>4. ASSUME NEW link \in links
      PROVE  /\ ParsedLink(link) = MeantLink(link)
             /\ MeantLink(ParsedLink(link)) = ParsedLink(link)
             /\ link.note \in Notes => ParsedLink(link) = link
  <2>1. link \in Link /\ link.note # "no"
    BY DEF Links, NoFalseNotes
  <2> QED
    BY <2>1 DEF Link, ParsedNote, Notes
<1> HIDE DEF ParsedLink, MeantLink
<1>5. Meaning(k, links) = Parsed(k, links)
  BY <1>2, <1>3, <1>4
<1>6. Meaning(k, Parsed(k, links)) = Parsed(k, links)
  <2>1. Meaning(k, Parsed(k, links)) = {MeantLink(link) : link \in Parsed(k, links)}
    BY <1>3
  <2> QED
    BY <1>2, <1>4, <2>1
<1>7. links \in RecordLinks => Parsed(k, links) = links
  BY <1>2, <1>4 DEF RecordLinks
<1>8. Redisplayed(k, links) = Parsed(k, links)
  BY DEF Redisplayed, SetKinds, Relationships
<1>9. \A old, new : Stored(k, old, Coerced(k, new)) = new
  BY DEF Stored, Changed, SameMoment, Converted, Coerced, Blank, SetKinds, Relationships
<1> QED
  BY <1>1, <1>5, <1>6, <1>7, <1>8, <1>9

\* No zone gets lost on the way of a value: the negation of MisreadsZone.
KeepsZone(k, value) ==
    /\ k = "DateTime" => ApiZone = "Z"
    /\ k = "Time" /\ value # NoValue => At(Clock(value), ApiZone) = value

LEMMA SameClock ==
    \A one, two \in Clocks : \A zone : ClockInUTC(At(one, zone)) = ClockInUTC(At(two, zone)) => one = two
BY DEF Clocks, ClockInUTC, At

LEMMA NoClockIsATime == NoValue \notin Clocks \union Times /\ "" \notin Clocks /\ Clocks \intersect Times = {}
BY DEF NoValue, Clocks, Times

\* A time is read as the clock that the input has shown.
LEMMA TimeIsMeant ==
    ASSUME NEW k \in Timed, NEW old \in Times \union {NoValue}, KeepsZone(k, old), NEW clock \in Clocks
    PROVE  Trimmed(k, Stored(k, old, clock)) = clock
<1>1. clock # NoValue /\ Blank(k) = NoValue /\ clock # old
  BY NoClockIsATime DEF Blank, Timed, SetKinds
<1>2. Converted(k, clock) = At(clock, ApiZone)
  BY <1>1 DEF Converted, Timed
<1>3. At(clock, ApiZone) \in Times /\ At(clock, ApiZone) # NoValue
  BY AtIsATime, NoClockIsATime
<1>4. CASE Changed(k, old, clock)
  <2>1. Stored(k, old, clock) = At(clock, ApiZone)
    BY <1>2, <1>4 DEF Stored
  <2>2. CASE k = "Time"
    BY <1>3, <2>1, <2>2, ReadBack DEF Trimmed
  <2>3. CASE k = "DateTime"
    BY <1>3, <2>1, <2>3, ReadBack DEF Trimmed, KeepsZone
  <2> QED
    BY <2>2, <2>3 DEF Timed
<1>5. CASE ~ Changed(k, old, clock)
  <2>1. old # NoValue /\ old \in Times /\ ClockInUTC(At(clock, ApiZone)) = ClockInUTC(old)
    BY <1>1, <1>5 DEF Changed, SameMoment
  <2>2. Stored(k, old, clock) = old
    BY <1>5 DEF Stored
  <2>3. CASE k = "Time"
    <3>1. Clock(old) = clock
      BY <2>1, <2>3, ReadBack, SameClock DEF KeepsZone
    <3> QED
      BY <2>1, <2>2, <2>3, <3>1 DEF Trimmed
  <2>4. CASE k = "DateTime"
    <3>1. ClockInUTC(old) = clock
      BY <2>1, <2>4, ReadBack DEF KeepsZone
    <3> QED
      BY <2>1, <2>2, <2>4, <3>1 DEF Trimmed
  <2> QED
    BY <2>3, <2>4 DEF Timed
<1> QED
  BY <1>4, <1>5

\* What is posted and stored is what the user has seen.
LEMMA StoredIsMeant ==
    ASSUME PlainOptions, NEW k \in Kinds \ Relationships, NEW old \in Values(k),
           NEW input, CanHold(k, input), NEW disabled \in BOOLEAN, ~ disabled,
           ~ (k \in {"Boolean", "Date", "DateTime"} /\ input = ""),
           ~ (k = "Text" /\ input = "null"), KeepsZone(k, old)
    PROVE  /\ k \in SetKinds \/ Posted(k, input, disabled) # NotSent
           /\ IsConvertible(k, old, Coerced(k, Parsed(k, Posted(k, input, disabled)))) =>
                 Trimmed(k, Stored(k, old, Coerced(k, Parsed(k, Posted(k, input, disabled))))) =
                    Meaning(k, input)
<1>1. Posted(k, input, disabled) = input
  BY DEF Posted, Kinds, Relationships, SetKinds
<1>2. CASE k = "MultipleChoice"
  BY <1>1, <1>2
  DEF Coerced, Parsed, CanHold, Entries, Values, Empty, Blank, Stored, Changed, SameMoment,
      Converted, Trimmed, Meaning, SetKinds, Relationships
<1>3. CASE k = "Text"
  BY <1>1, <1>3
  DEF Coerced, Parsed, CanHold, Entries, Values, Empty, Blank, Stored, Changed, SameMoment,
      Converted, Trimmed, Meaning, SetKinds, Relationships, NoValue, NotSent
<1>4. CASE k = "Number"
  BY <1>1, <1>4
  DEF Coerced, Parsed, CanHold, Entries, Values, Empty, Blank, Stored, Changed, SameMoment,
      Converted, Trimmed, Meaning, SetKinds, Relationships, NoValue, NotSent, NotANumber
<1>5. CASE k = "Boolean"
  BY <1>1, <1>5
  DEF Coerced, Parsed, CanHold, Entries, Values, Empty, Blank, Stored, Changed, SameMoment,
      Converted, Trimmed, Meaning, SetKinds, Relationships, NoValue, NotSent
<1>6. CASE k \in Temporal
  <2> DEFINE body == Coerced(k, Parsed(k, input))
  <2>1. /\ IF k = "Date" THEN input \in {"", "2020-01-15", Epoch} ELSE input \in Clocks \union {""}
        /\ body = IF input = "" THEN NoValue ELSE input
    BY <1>6, TemporalWay
  <2>2. input # NotSent /\ Meaning(k, input) = IF input = "" THEN NoValue ELSE input
    BY <1>6, <2>1 DEF Meaning, Temporal, Clocks, Epoch, NotSent, Relationships
  <2> HIDE DEF body
  <2>3. ASSUME IsConvertible(k, old, body) PROVE Trimmed(k, Stored(k, old, body)) = Meaning(k, input)
    <3>1. CASE k = "Date"
      <4>1. body = input /\ input # NoValue
        BY <2>1, <3>1 DEF NoValue, Epoch
      <4>2. Stored(k, old, body) = input
        BY <3>1, <4>1 DEF Stored, Changed, SameMoment, Converted, Blank, SetKinds
      <4> QED
        BY <2>2, <3>1, <4>1, <4>2 DEF Trimmed, NoValue
    <3>2. CASE k \in Timed /\ input # ""
      <4>1. input \in Clocks /\ body = input
        BY <2>1, <3>2 DEF Timed
      <4>2. old \in Times \union {NoValue}
        BY <3>2 DEF Timed, Values
      <4> QED
        BY <2>2, <3>2, <4>1, <4>2, TimeIsMeant
    <3>3. CASE k = "Time" /\ input = ""
      <4>1. body = NoValue
        BY <2>1, <3>3
      <4>2. old = NoValue /\ ~ Changed(k, old, body)
        BY <2>3, <3>3, <4>1 DEF IsConvertible, Changed, Blank, SetKinds
      <4>3. Stored(k, old, body) = NoValue
        BY <4>2 DEF Stored
      <4> QED
        BY <2>2, <3>3, <4>3 DEF Trimmed
    <3> QED
      BY <1>6, <3>1, <3>2, <3>3 DEF Temporal, Timed
  <2> QED
    BY <1>1, <1>6, <2>2, <2>3 DEF body
<1>7. CASE k = "Enum"
  BY <1>1, <1>7
  DEF Coerced, Parsed, CanHold, Entries, Values, Empty, Blank, Stored, Changed, SameMoment,
      Converted, Trimmed, Meaning, SetKinds, Relationships, NoValue, NotSent, PlainOptions
<1> QED
  BY <1>2, <1>3, <1>4, <1>5, <1>6, <1>7 DEF Kinds, Relationships, SetKinds

\* What is shown again means what it has meant.
LEMMA RedisplayedIsMeant ==
    ASSUME PlainOptions, NEW k \in Kinds \ Relationships, k \notin Temporal,
           NEW input, CanHold(k, input), ~ (k = "Text" /\ input \in {"null", "Don't know"}),
           NEW disabled \in BOOLEAN, ~ disabled
    PROVE  Meaning(k, Redisplayed(k, Posted(k, input, disabled))) = Meaning(k, input)
<1>1. CASE k = "MultipleChoice"
  BY <1>1 DEF Posted, Redisplayed, Parsed, SetKinds, Relationships
<1>2. CASE k = "Text"
  BY <1>2
  DEF Posted, Redisplayed, Parsed, CanHold, Entries, Values, Empty, Blank, Input, Trimmed, Meaning,
      SetKinds, Relationships, Temporal, NoValue, NotSent
<1>3. CASE k = "Number"
  BY <1>3
  DEF Posted, Redisplayed, Parsed, CanHold, Entries, Values, Empty, Blank, Input, Trimmed, Meaning,
      SetKinds, Relationships, Temporal, NoValue, NotSent, NotANumber
<1>4. CASE k = "Boolean"
  BY <1>4
  DEF Posted, Redisplayed, Parsed, CanHold, Entries, Values, Empty, Blank, Input, Trimmed, Meaning,
      SetKinds, Relationships, Temporal, NoValue, NotSent
<1>5. CASE k = "Enum"
  BY <1>5
  DEF Posted, Redisplayed, Parsed, CanHold, Entries, Values, Empty, Blank, Input, Trimmed, Meaning,
      SetKinds, Relationships, Temporal, NoValue, NotSent, PlainOptions
<1> QED
  BY <1>1, <1>2, <1>3, <1>4, <1>5 DEF Kinds, Relationships, SetKinds

\* A value that goes into an input and comes back is not changed.
LEMMA InputIsKept ==
    ASSUME PlainOptions, NEW k \in Kinds \ Relationships, NEW value \in Values(k),
           ~ (k = "Text" /\ Input(k, value) = "null"), KeepsZone(k, value),
           NEW disabled \in BOOLEAN, ~ disabled,
           k \in SetKinds \/ Posted(k, Input(k, value), disabled) # NotSent
    PROVE  Stored(k, value, Coerced(k, Parsed(k, Posted(k, Input(k, value), disabled)))) = value
<1>1. CASE k = "MultipleChoice"
  BY <1>1
  DEF Posted, Input, Trimmed, Coerced, Parsed, Empty, Blank, Stored, Changed, SameMoment, Converted,
      SetKinds, Relationships
<1>2. CASE k = "Text" \/ k = "Number"
  BY <1>2
  DEF Posted, Input, Trimmed, Coerced, Parsed, Values, Empty, Blank, Stored, Changed, SameMoment,
      Converted, SetKinds, Relationships, NoValue, NotSent
<1>3. CASE k = "Boolean"
  BY <1>3
  DEF Posted, Input, Trimmed, Coerced, Parsed, Values, Empty, Blank, Stored, Changed, SameMoment,
      Converted, SetKinds, Relationships, NoValue, NotSent
<1>4. CASE k \in Temporal
  <2> DEFINE body == Coerced(k, Parsed(k, Input(k, value)))
  <2>1. Posted(k, Input(k, value), disabled) = Input(k, value)
    BY <1>4 DEF Posted, Temporal, Relationships
  <2>2. /\ CanHold(k, Input(k, value)) /\ Blank(k) = NoValue /\ Empty(k) = ""
        /\ body = IF Input(k, value) = "" THEN NoValue ELSE Input(k, value)
    BY <1>4, InputType, TemporalWay DEF Blank, Empty, Temporal, SetKinds
  <2> HIDE DEF body
  <2>3. CASE value = NoValue
    <3>1. body = NoValue
      BY <2>2, <2>3 DEF Input
    <3> QED
      BY <2>1, <2>2, <2>3, <3>1 DEF Stored, Changed, body
  <2>4. CASE value # NoValue /\ k = "Date"
    <3>1. Input(k, value) = value /\ value # ""
      BY <2>2, <2>4 DEF Input, Trimmed, Values, Epoch
    <3> QED
      BY <2>1, <2>2, <2>4, <3>1 DEF Stored, Changed, body
  <2>5. CASE value # NoValue /\ k \in Timed
    <3>1. value \in Times
      BY <2>5 DEF Timed, Values
    <3>2. Input(k, value) = IF k = "Time" THEN Clock(value) ELSE ClockInUTC(value)
      BY <2>2, <2>5 DEF Input, Trimmed, Timed
    <3>3. body = Input(k, value) /\ body \in Clocks /\ body # NoValue
      BY <2>2, <3>1, <3>2, ReadBack, NoClockIsATime
    <3>4. ClockInUTC(At(body, ApiZone)) = ClockInUTC(value)
      <4>1. CASE k = "Time"
        BY <2>5, <3>2, <3>3, <4>1 DEF KeepsZone
      <4>2. CASE k = "DateTime"
        BY <3>1, <3>2, <3>3, <4>2, ReadBack DEF KeepsZone
      <4> QED
        BY <2>5, <4>1, <4>2 DEF Timed
    <3>5. ~ Changed(k, value, body)
      BY <2>2, <2>5, <3>3, <3>4 DEF Changed, SameMoment, Timed
    <3> QED
      BY <2>1, <3>5 DEF Stored, body
  <2> QED
    BY <1>4, <2>3, <2>4, <2>5 DEF Temporal, Timed
<1>5. CASE k = "Enum"
  BY <1>5
  DEF Posted, Input, Trimmed, Coerced, Parsed, Values, Empty, Blank, Stored, Changed, SameMoment,
      Converted, SetKinds, Relationships, NoValue, NotSent, PlainOptions
<1> QED
  BY <1>1, <1>2, <1>3, <1>4, <1>5 DEF Kinds, Relationships, SetKinds

-----------------------------------------------------------------------------
(* Fields that nobody has touched show the record.                         *)

Untouched ==
    /\ ~ exists => record = BlankRecord
    /\ page.pc \in {"open", "sent"} /\ ~ page.failed =>
          \A f \in page.fields \ page.entered :
             IF page.creates THEN Shown(f) = Empty(kind[f])
                             ELSE f \in page.since \/ Shown(f) = Input(kind[f], record[f])

LEMMA UntouchedInit == Init => Untouched
<1> SUFFICES ASSUME Init PROVE Untouched
  OBVIOUS
<1>1. page.pc = "closed"
  BY DEF Init, ClosedPage
<1>2. ~ exists => record = BlankRecord
  BY DEF Init
<1> QED
  BY <1>1, <1>2 DEF Untouched

\* A page that has just been rendered.
LEMMA RenderUntouched ==
    ASSUME FormInv, Untouched, UNCHANGED <<schema, record, exists>>,
           NEW p, IsPage(p), InputsOK(p.fields, p.inputs),
           NEW code \in Codes \union {NoCode}, Render(p, code),
           \/ p.pc = "closed"
           \/ p.creates /\ p.inputs = BlankInputs
           \/ ~ p.creates /\ p.inputs = [f \in Fields |-> Input(kind[f], record[f])]
    PROVE  Untouched'
<1>1. page' = p /\ p.fields \subseteq Fields /\ HasLayout /\ UNCHANGED kind
  BY DEF Render, IsPage, FormInv, schema
<1>2. \A f \in p.fields : Shown(f)' = p.inputs[f]
  BY <1>1, RenderShows
<1>3. BlankRecord' = BlankRecord
  BY <1>1 DEF BlankRecord, Fields
<1> QED
  BY <1>1, <1>2, <1>3 DEF Untouched, BlankInputs

\* A page that stays while nothing is written.
LEMMA StayUntouched ==
    ASSUME FormInv, Untouched, UNCHANGED <<schema, record, exists>>,
           page'.pc \in {"open", "sent"} => page.pc \in {"open", "sent"},
           page'.failed = page.failed, page'.creates = page.creates, page'.fields = page.fields,
           page'.since = page.since, page.entered \subseteq page'.entered,
           \A f \in page.fields \ page'.entered : Shown(f)' = Shown(f)
    PROVE  Untouched'
<1>1. BlankRecord' = BlankRecord /\ UNCHANGED kind
  BY DEF BlankRecord, Fields, schema
<1> QED
  BY <1>1 DEF Untouched

LEMMA OthersUntouched ==
    ASSUME FormInv, Untouched, OthersAct, ~ exists' => record' = BlankRecord
    PROVE  Untouched'
<1>1. /\ page' = [page EXCEPT !.since = IF page.pc \in {"open", "sent"}
                                        THEN @ \union {f \in Fields : record'[f] # record[f]} ELSE @]
      /\ UNCHANGED <<kind, selected>>
  BY DEF OthersAct, pickerVars, schema
<1>2. page \in Page
  BY DEF FormInv
<1>3. /\ page'.pc = page.pc /\ page'.failed = page.failed /\ page'.creates = page.creates
      /\ page'.fields = page.fields /\ page'.entered = page.entered /\ page'.inputs = page.inputs
      /\ page.pc \in {"open", "sent"} =>
            page'.since = page.since \union {f \in Fields : record'[f] # record[f]}
  BY <1>1, <1>2 DEF Page
<1>4. \A f : Shown(f)' = Shown(f)
  BY <1>1, <1>3 DEF Shown, IsPicker
<1>5. BlankRecord' = BlankRecord
  BY <1>1 DEF BlankRecord, Fields
<1>6. page.fields \subseteq Fields
  BY <1>2 DEF Page
<1> QED
  BY <1>1, <1>3, <1>4, <1>5, <1>6 DEF Untouched

LEMMA EnterUntouched ==
    ASSUME FormInv, Untouched, NEW f \in page.fields, NEW entry, Enter(f, entry)
    PROVE  Untouched'
<1>1. page \in Page
  BY DEF FormInv
<1>2. /\ page'.pc = page.pc /\ page'.failed = page.failed /\ page'.creates = page.creates
      /\ page'.fields = page.fields /\ page'.entered = page.entered \union {f}
      /\ page'.since = page.since
      /\ page'.inputs = [page.inputs EXCEPT ![f] = entry]
  BY <1>1 DEF Enter, Page
<1>3. \A g : g # f => Shown(g)' = Shown(g)
  BY <1>2 DEF Enter, pickerVars, Shown, IsPicker, schema
<1> QED
  BY <1>2, <1>3, StayUntouched DEF Enter

\* Only the picker is touched when it is used.
LEMMA EnterCodeUntouched ==
    ASSUME FormInv, Untouched, NEW code, EnterCode(code)
    PROVE  Untouched'
<1>1. page \in Page
  BY DEF FormInv
<1>2. /\ page'.pc = page.pc /\ page'.failed = page.failed /\ page'.creates = page.creates
      /\ page'.fields = page.fields /\ page'.entered = page.entered
      /\ page'.since = page.since /\ page'.inputs = page.inputs
  BY <1>1 DEF EnterCode, Page
<1>3. \A g : Shown(g)' = Shown(g)
  <2>1. UNCHANGED <<kind, selected>>
    BY DEF EnterCode, pickerVars, schema
  <2> QED
    BY <1>2, <2>1 DEF Shown, IsPicker
<1> QED
  BY <1>2, <1>3, StayUntouched DEF EnterCode

LEMMA UsePickerUntouched ==
    ASSUME FormInv, Untouched, NEW f \in page.fields, UsePicker(f)
    PROVE  Untouched'
<1>1. page \in Page /\ HasLayout /\ page.fields \subseteq Fields
  BY DEF FormInv, Page
<1>2. \/ UNCHANGED <<page, selected>>
      \/ UNCHANGED page /\ selected' = selected
      \/ page' = [page EXCEPT !.entered = @ \union {f}]
  BY DEF UsePicker, Search, Type, Focus, Blur, FetchSuggestions, SuggestionsArrive, FetchFails
<1>3. UNCHANGED <<schema, kind, record, exists>> /\ IsPicker(f)
  BY DEF UsePicker, schema
<1>4. CASE UNCHANGED <<page, selected>>
  BY <1>3, <1>4, StayUntouched DEF Shown, IsPicker
<1>5. CASE page' = [page EXCEPT !.entered = @ \union {f}]
  <2>1. /\ page'.pc = page.pc /\ page'.failed = page.failed /\ page'.creates = page.creates
        /\ page'.fields = page.fields /\ page'.entered = page.entered \union {f}
        /\ page'.since = page.since /\ page'.inputs = page.inputs
    BY <1>1, <1>5 DEF Page
  <2>2. \A g \in page.fields : g # f => ~ IsPicker(g)
    BY <1>1, <1>3, KindsOfFields
  <2>3. \A g \in page.fields : g # f => Shown(g)' = Shown(g)
    BY <1>3, <2>1, <2>2 DEF Shown, IsPicker
  <2> QED
    BY <1>3, <2>1, <2>3, StayUntouched
<1> QED
  BY <1>2, <1>4, <1>5

LEMMA SubmitUntouched ==
    ASSUME FormInv, Untouched, Submit
    PROVE  Untouched'
<1>1. page \in Page
  BY DEF FormInv
<1>2. /\ page.pc = "open" /\ page'.failed = page.failed /\ page'.creates = page.creates
      /\ page'.fields = page.fields /\ page'.entered = page.entered
      /\ page'.since = page.since /\ page'.inputs = page.inputs
  BY <1>1 DEF Submit, Page
<1>3. \A f : Shown(f)' = Shown(f)
  BY <1>2 DEF Submit, StopSearch, Shown, IsPicker, schema
<1> QED
  BY <1>2, <1>3, StayUntouched DEF Submit

LEMMA UntouchedNext == FormInv /\ Untouched /\ [Next]_vars => Untouched'
<1> SUFFICES ASSUME FormInv, Untouched, [Next]_vars PROVE Untouched'
  OBVIOUS
<1>1. ASSUME NEW fields \in (SUBSET Fields) \ {{}}, NEW code \in {Self, NotSent}, Open(fields, code)
      PROVE  Untouched'
  <2> DEFINE p == [ClosedPage EXCEPT !.pc = "open", !.fields = fields, !.code = code, !.locks = locks,
                                     !.inputs = [f \in Fields |-> Input(kind[f], record[f])]]
  <2>1. IsPage(p) /\ p.fields = fields /\ ~ p.creates
        /\ p.inputs = [f \in Fields |-> Input(kind[f], record[f])]
    BY FormAssumption DEF FormInv, IsPage, ClosedPage
  <2>2. InputsOK(p.fields, p.inputs)
    BY <2>1, RecordInputsOK DEF FormInv, InputsOK
  <2>3. Render(p, Self) /\ UNCHANGED <<schema, record, exists>>
    BY <1>1 DEF Open
  <2> HIDE DEF p
  <2> QED
    BY <2>1, <2>2, <2>3, RenderUntouched, FormAssumption
<1>2. CASE OpenNew
  <2> DEFINE p == [ClosedPage EXCEPT !.pc = "open", !.creates = TRUE, !.fields = Fields]
  <2>1. IsPage(p) /\ p.fields = Fields /\ p.creates /\ p.inputs = BlankInputs
    BY NoLocksType DEF IsPage, ClosedPage
  <2>2. InputsOK(p.fields, p.inputs)
    BY <2>1, BlankInputsOK DEF FormInv
  <2>3. Render(p, NoCode) /\ UNCHANGED <<schema, record, exists>>
    BY <1>2 DEF OpenNew
  <2> HIDE DEF p
  <2> QED
    BY <2>1, <2>2, <2>3, RenderUntouched, FormAssumption
<1>3. ASSUME NEW f \in page.fields, NEW entry \in Entries(kind[f]), Enter(f, entry) PROVE Untouched'
  BY <1>3, EnterUntouched
<1>4. ASSUME NEW f \in page.fields, UsePicker(f) PROVE Untouched'
  BY <1>4, UsePickerUntouched
<1>5. CASE Submit
  BY <1>5, SubmitUntouched
<1>6. CASE Leave
  <2>1. ClosedPage.fields = {} /\ ClosedPage.pc = "closed"
    BY DEF ClosedPage
  <2> QED
    BY <1>6, <2>1, ClosedPageType, RenderUntouched DEF Leave
<1>7. CASE Save \/ SaveTimesOut
  <2>1. exists'
    BY <1>7 DEF Save, SaveTimesOut, Write
  <2>2. page'.pc = "saved" \/ page'.failed
    BY <1>7 DEF Save, SaveTimesOut, DisplayError, Render, ClosedPage, FormInv, Page
  <2> QED
    BY <2>1, <2>2 DEF Untouched
<1>8. CASE SaveFails
  <2>1. page'.failed /\ UNCHANGED <<schema, record, exists>>
    BY <1>8 DEF SaveFails, DisplayError, Render, FormInv, Page
  <2>2. BlankRecord' = BlankRecord
    BY <2>1 DEF BlankRecord, Fields, schema
  <2> QED
    BY <2>1, <2>2 DEF Untouched
<1>9. ASSUME NEW f \in Fields, NEW value \in Values(kind[f]), OtherWrites(f, value) PROVE Untouched'
  BY <1>9, OthersUntouched DEF OtherWrites
<1>10. ASSUME NEW f \in Fields, NEW client \in Others \union {Nobody}, OtherLocks(f, client)
       PROVE  Untouched'
  BY <1>10, OthersUntouched DEF OtherLocks, Untouched
<1>11. CASE OtherDeletes
  BY <1>11, OthersUntouched DEF OtherDeletes, Deleted
<1>12. CASE DeletePage
  <2>1. record' = BlankRecord /\ BlankRecord' = BlankRecord /\ page'.pc = "closed"
    BY <1>12 DEF DeletePage, Deleted, BlankRecord, Fields, schema
  <2> QED
    BY <2>1 DEF Untouched
<1>13. ASSUME NEW code \in CodeEntries, EnterCode(code) PROVE Untouched'
  BY <1>13, EnterCodeUntouched
<1>14. CASE UNCHANGED vars
  <2>1. UNCHANGED <<schema, kind, record, exists, page, selected>>
    BY <1>14 DEF vars, pickerVars, schema
  <2> QED
    BY <2>1, StayUntouched DEF Shown, IsPicker
<1> QED
  BY <1>1, <1>2, <1>3, <1>4, <1>5, <1>6, <1>7, <1>8, <1>9, <1>10, <1>11, <1>12, <1>13, <1>14 DEF Next

-----------------------------------------------------------------------------
(* What the picker knows of the record it is shown for.                    *)

ParentKnown ==
    IF page.pc \in {"open", "sent"} THEN ~ page.creates /\ ~ page.failed => parentCode = Self
                                    ELSE suggestions = {}

LEMMA RenderParent ==
    ASSUME NEW p, NEW code, Render(p, code)
    PROVE  page' = p /\ parentCode' = code /\ suggestions' = {}
BY DEF Render, Mount

LEMMA ParentInit == Init => ParentKnown
<1>1. ClosedPage.pc = "closed"
  BY DEF ClosedPage
<1> QED
  BY <1>1 DEF Init, ParentKnown

\* Whoever acts: the page has stayed what it was, and the picker's props too.
LEMMA ParentStays ==
    ASSUME ParentKnown, UNCHANGED parentCode,
           page'.pc \in {"open", "sent"} <=> page.pc \in {"open", "sent"},
           page'.creates = page.creates, page'.failed = page.failed,
           page.pc \in {"open", "sent"} \/ UNCHANGED suggestions
    PROVE  ParentKnown'
BY DEF ParentKnown

LEMMA ParentNext == FormInv /\ ParentKnown /\ [Next]_vars => ParentKnown'
<1> SUFFICES ASSUME FormInv, ParentKnown, [Next]_vars PROVE ParentKnown'
  OBVIOUS
<1>1. page \in Page
  BY DEF FormInv
<1>2. ASSUME NEW fields \in (SUBSET Fields) \ {{}}, NEW code \in {Self, NotSent}, Open(fields, code)
      PROVE  ParentKnown'
  BY <1>2, RenderParent DEF Open, ParentKnown
<1>3. CASE OpenNew
  <2>1. page'.pc = "open" /\ page'.creates
    <3> DEFINE p == [ClosedPage EXCEPT !.pc = "open", !.creates = TRUE, !.fields = Fields]
    <3>1. p.pc = "open" /\ p.creates
      BY DEF ClosedPage
    <3>2. Render(p, NoCode)
      BY <1>3 DEF OpenNew
    <3> HIDE DEF p
    <3> QED
      BY <3>1, <3>2, RenderParent
  <2> QED
    BY <2>1 DEF ParentKnown
<1>4. CASE Leave \/ Save
  <2>1. page'.pc \in {"closed", "saved"} /\ suggestions' = {}
    <3>1. ClosedPage.pc = "closed" /\ [ClosedPage EXCEPT !.pc = "saved"].pc = "saved"
      BY DEF ClosedPage
    <3>2. \E p \in {ClosedPage, [ClosedPage EXCEPT !.pc = "saved"]} : Render(p, NoCode)
      BY <1>4 DEF Leave, Save
    <3> QED
      BY <3>1, <3>2, RenderParent
  <2> QED
    BY <2>1 DEF ParentKnown
<1>5. CASE SaveFails \/ SaveTimesOut
  <2>1. page'.pc = "open" /\ page'.failed
    BY <1>1, <1>5 DEF SaveFails, SaveTimesOut, DisplayError, Render, Page
  <2> QED
    BY <2>1 DEF ParentKnown
<1>6. ASSUME NEW f \in page.fields, NEW entry \in Entries(kind[f]), Enter(f, entry)
      PROVE  ParentKnown'
  BY <1>1, <1>6, ParentStays DEF Enter, Page, pickerVars, props
<1>7. ASSUME NEW code \in CodeEntries, EnterCode(code) PROVE ParentKnown'
  BY <1>1, <1>7, ParentStays DEF EnterCode, Page, pickerVars, props
<1>8. ASSUME NEW f \in page.fields, UsePicker(f) PROVE ParentKnown'
  <2>1. UNCHANGED parentCode
    <3>1. Search(kind[f] = "Many") => UNCHANGED props
      BY DEF Search, Type, Focus, Blur, FetchSuggestions, SuggestionsArrive, FetchFails
    <3>2. Pick(kind[f] = "Many") => UNCHANGED props
      BY DEF Pick, Choose, PressTab, PressEnter, SelectOnly, AddRelationship, OnRelationshipRemove,
             Annotate
    <3> QED
      BY <1>8, <3>1, <3>2 DEF UsePicker, props
  <2>2. page' = page \/ page' = [page EXCEPT !.entered = @ \union {f}]
    BY <1>8 DEF UsePicker
  <2>3. page'.pc = page.pc /\ page'.creates = page.creates /\ page'.failed = page.failed
    BY <1>1, <2>2 DEF Page
  <2> QED
    BY <1>8, <2>1, <2>3, ParentStays DEF UsePicker
<1>9. CASE Submit
  BY <1>1, <1>9, ParentStays DEF Submit, StopSearch, props, Page
<1>10. CASE OthersAct
  <2>1. page'.pc = page.pc /\ page'.creates = page.creates /\ page'.failed = page.failed
    BY <1>1, <1>10 DEF OthersAct, Page
  <2> QED
    BY <1>10, <2>1, ParentStays DEF OthersAct, pickerVars, props
<1>11. CASE DeletePage \/ UNCHANGED vars
  BY <1>11, ParentStays DEF DeletePage, vars, pickerVars, props
<1> QED
  BY <1>2, <1>3, <1>4, <1>5, <1>6, <1>7, <1>8, <1>9, <1>10, <1>11
  DEF Next, OtherWrites, OtherLocks, OtherDeletes

-----------------------------------------------------------------------------
\* Whatever is posted, refused, shown again, written or deleted, the record has
\* values of its kinds, and the form inputs that can hold what they hold.
THEOREM TypeCorrect == Spec => []TypeOK
<1>1. ASSUME HasLayout, NEW f \in Fields, ~ IsPicker(f), NEW input, CanHold(kind[f], input)
      PROVE  IsInput(kind[f], input)
  <2>1. kind[f] \in Kinds \ Relationships
    BY <1>1, KindsOfFields
  <2>2. CASE input = Empty(kind[f])
    <3>1. Blank(kind[f]) \in Values(kind[f]) /\ input = Input(kind[f], Blank(kind[f]))
      BY <2>1, <2>2, BlankType DEF Input
    <3> QED
      BY <3>1 DEF IsInput
  <2>3. CASE input \in Values(kind[f]) /\ input # Blank(kind[f]) /\ kind[f] \notin Timed
    <3>1. input = Input(kind[f], input)
      BY <2>3 DEF Input, Trimmed, Timed
    <3> QED
      BY <2>3, <3>1 DEF IsInput
  <2> QED
    BY <1>1, <2>2, <2>3 DEF CanHold, IsInput
<1>2. FormInv => TypeOK
  <2> SUFFICES ASSUME FormInv PROVE TypeOK
    OBVIOUS
  <2>1. \A f \in page.fields : IsPicker(f) \/ IsInput(kind[f], page.inputs[f])
    BY <1>1 DEF FormInv, Page
  <2> QED
    BY <2>1 DEF FormInv, TypeOK, RecordTypeOK, PickerInv
<1> QED
  BY <1>2, SpecInv, PTL

\* No record is picked twice, or offered when it has been picked: not by an answer
\* that comes late, nor after a save has failed and the picker has started again
\* with the links that were posted.  A record is not offered to itself either, on a
\* page that has been opened for it and has not failed to be saved.
THEOREM PickedOnlyOnce == Spec => []PickedOnce
<1>1. FormInv /\ ParentKnown => PickedOnce
  BY ApartIsPickedOnce DEF FormInv, PickerInv, ParentKnown
<1> QED
  BY <1>1, InitInv, NextInv, ParentInit, ParentNext, PTL DEF Spec

-----------------------------------------------------------------------------
(* What a form does to the record.                                         *)

\* What the API makes of a field that is sent.
LEMMA SentIsStored ==
    ASSUME FormInv, NEW f \in Sent, Write
    PROVE  /\ f \in page.fields /\ f \in Fields
           /\ record'[f] = Stored(kind[f], record[f], Coerced(kind[f],
                              Parsed(kind[f], Posted(kind[f], Shown(f), Disabled(f)))))
           /\ kind[f] \in SetKinds \/ Posted(kind[f], Shown(f), Disabled(f)) # NotSent
<1>1. f \in page.fields /\ f \in Fields /\ (kind[f] \in SetKinds \/ PostedBy(f) # NotSent)
  BY DEF Sent, FormInv, Page
<1> QED
  BY <1>1 DEF Write, Body, PostedBy

\* A form that has been opened and sent changes no field but those its user has
\* changed, and those that others have changed since, although it sends them all:
\* for every set of records, options and types, whatever their locks in the schema
\* and in the record, and whatever the client id and the zone of the API, but for
\* the four kinds of values that UntouchedFieldsKept names.
THEOREM UntouchedFieldsAreKept ==
    ASSUME PlainOptions
    PROVE  Spec => UntouchedFieldsKept
<1>1. ASSUME FormInv, Untouched, [Next]_vars, FormWrites, ~ page.failed,
             NEW f \in Fields, record'[f] # record[f]
      PROVE  \/ f \in page.entered \union page.since
             \/ HasFalseNote(f) \/ ShowsNull(f) \/ MisreadsZone(f) \/ ErasesChoices(f)
  <2> SUFFICES ASSUME f \notin page.entered, f \notin page.since, ~ HasFalseNote(f),
                      ~ ShowsNull(f), ~ MisreadsZone(f), ~ ErasesChoices(f)
               PROVE  FALSE
    OBVIOUS
  <2>1. page.pc = "sent" /\ page'.pc # "sent" /\ HasLayout
    BY <1>1 DEF FormWrites, FormInv
  <2>2. Write
    <3>1. page' # page /\ record' # record
      BY <1>1, <2>1
    <3>2. Save \/ SaveTimesOut
      BY <1>1, <2>1, <3>1
      DEF Next, vars, Open, OpenNew, Enter, EnterCode, UsePicker, Submit, Leave, SaveFails, OtherWrites,
          OtherLocks, OtherDeletes, OthersAct, DeletePage, FormInv, Page
    <3> QED
      BY <3>2 DEF Save, SaveTimesOut
  <2>3. f \in Sent
    BY <1>1, <2>2 DEF Write
  <2>4. /\ f \in page.fields
        /\ record'[f] = Stored(kind[f], record[f], Coerced(kind[f],
                           Parsed(kind[f], Posted(kind[f], Shown(f), Disabled(f)))))
        /\ kind[f] \in SetKinds \/ Posted(kind[f], Shown(f), Disabled(f)) # NotSent
    BY <1>1, <2>2, <2>3, SentIsStored
  <2>5. Disabled(f) => kind[f] \in Relationships
    <3>1. Disabled(f) => kind[f] # "MultipleChoice"
      BY <2>3 DEF ErasesChoices
    <3> QED
      BY <2>4, <3>1 DEF Posted, SetKinds, Relationships
  <2>6. Shown(f) = Input(kind[f], record[f])
    <3>1. CASE ~ page.creates
      BY <1>1, <2>1, <2>4, <3>1 DEF Untouched
    <3>2. CASE page.creates
      <4>1. record = BlankRecord
        BY <1>1, <2>2, <3>2 DEF Untouched, Write, Refusal
      <4> QED
        BY <1>1, <2>1, <2>4, <3>2, <4>1 DEF Untouched, BlankRecord, Input
    <3> QED
      BY <3>1, <3>2
  <2>7. CASE IsPicker(f)
    <3>1. kind[f] \in Relationships /\ record[f] \in RecordLinks
      BY <1>1, <2>7 DEF IsPicker, FormInv, RecordTypeOK
    <3>2. Input(kind[f], record[f]) = record[f]
      BY <3>1 DEF Input, Trimmed, Blank, Empty, SetKinds, Relationships
    <3>3. NoFalseNotes(record[f]) /\ record[f] \in Links
      BY <2>7, <3>1, NoLinks DEF HasFalseNote, NoFalseNotes
    <3> QED
      BY <1>1, <2>4, <2>6, <3>1, <3>2, <3>3, LinksMeaning
  <2>8. CASE ~ IsPicker(f)
    <3>1. kind[f] \in Kinds \ Relationships /\ record[f] \in Values(kind[f])
      BY <1>1, <2>1, <2>8, KindsOfFields DEF FormInv, RecordTypeOK
    <3>2. KeepsZone(kind[f], record[f]) /\ ~ (kind[f] = "Text" /\ Input(kind[f], record[f]) = "null")
      BY <2>6 DEF MisreadsZone, ShowsNull, KeepsZone
    <3>3. ~ Disabled(f) /\ Disabled(f) \in BOOLEAN
      BY <2>5, <3>1 DEF Disabled
    <3> QED
      BY <1>1, <2>4, <2>6, <3>1, <3>2, <3>3, InputIsKept
  <2> QED
    BY <2>7, <2>8
<1>2. FormInv /\ Untouched /\ [Next]_vars =>
         [FormWrites /\ ~ page.failed =>
             \A f \in Fields : record'[f] # record[f] =>
                 \/ f \in page.entered \union page.since
                 \/ HasFalseNote(f) \/ ShowsNull(f) \/ MisreadsZone(f) \/ ErasesChoices(f)]_vars
  BY <1>1
<1> QED
  BY <1>2, InitInv, NextInv, UntouchedInit, UntouchedNext, PTL DEF Spec, UntouchedFieldsKept

\* When the page says that the record was updated, every field that was open to the
\* user has the value that was shown, for every set of records, options and types,
\* but for the kinds of values that SavedIsStored names.  The client id must be the
\* one that the template knows, or the form leaves open fields that it does not send.
THEOREM SavedFieldsAreStored ==
    ASSUME KnownClient, PlainOptions
    PROVE  Spec => SavedIsStored
<1>1. ASSUME FormInv, [Next]_vars, Saves, NEW f \in page.fields
      PROVE  \/ Disabled(f)
             \/ Trimmed(kind[f], record'[f]) = Meaning(kind[f], Shown(f))
             \/ kind[f] \in {"Boolean", "Date", "DateTime"} /\ Shown(f) = ""
             \/ ShowsFalseNote(f) \/ ShowsNull(f) \/ MisreadsZone(f)
  <2> SUFFICES ASSUME ~ Disabled(f), ~ ShowsFalseNote(f), ~ ShowsNull(f), ~ MisreadsZone(f),
                      ~ (kind[f] \in {"Boolean", "Date", "DateTime"} /\ Shown(f) = "")
               PROVE  Trimmed(kind[f], record'[f]) = Meaning(kind[f], Shown(f))
    OBVIOUS
  <2>1. Write
    <3>1. page.pc = "sent" /\ page'.pc = "saved"
      BY <1>1 DEF Saves
    <3>2. ~ SaveFails /\ ~ SaveTimesOut
      BY <1>1, <3>1 DEF SaveFails, SaveTimesOut, DisplayError, Render, FormInv, Page
    <3>3. ~ OthersAct
      BY <1>1, <3>1 DEF OthersAct, FormInv, Page
    <3>4. Save
      BY <1>1, <3>1, <3>2, <3>3
      DEF Next, vars, Open, OpenNew, Enter, EnterCode, UsePicker, Submit, Leave, OtherWrites,
          OtherLocks, OtherDeletes, DeletePage
    <3> QED
      BY <3>4 DEF Save
  <2>2. /\ f \in Fields /\ Disabled(f) \in BOOLEAN
        /\ IF IsPicker(f) THEN Shown(f) \in Links ELSE CanHold(kind[f], Shown(f))
    BY <1>1, ShownType
  <2>3. HasLayout /\ RecordTypeOK
    BY <1>1 DEF FormInv
  <2>4. page.locks[f] \in {Nobody, ClientId} /\ MayWrite(f, ClientId)
    BY DEF Disabled, KnownClient, MayWrite
  <2>5. CASE IsPicker(f)
    <3>1. kind[f] \in Relationships /\ record[f] \in RecordLinks /\ Shown(f) \in Links
      BY <2>2, <2>3, <2>5 DEF IsPicker, RecordTypeOK
    <3>2. NoFalseNotes(Shown(f))
      BY <2>5 DEF ShowsFalseNote, NoFalseNotes, Shown
    <3>3. f \in Sent
      BY <2>4, <3>1 DEF Sent, SetKinds, Relationships
    <3>4. /\ Posted(kind[f], Shown(f), Disabled(f)) = Shown(f)
          /\ Meaning(kind[f], Shown(f)) = Parsed(kind[f], Shown(f))
          /\ Stored(kind[f], record[f], Coerced(kind[f], Parsed(kind[f], Shown(f)))) =
                Parsed(kind[f], Shown(f))
      BY <3>1, <3>2, LinksMeaning
    <3>5. Trimmed(kind[f], record'[f]) = record'[f]
      BY <3>1 DEF Trimmed, Relationships
    <3> QED
      BY <1>1, <2>1, <3>3, <3>4, <3>5, SentIsStored
  <2>6. CASE ~ IsPicker(f)
    <3>1. /\ kind[f] \in Kinds \ Relationships
          /\ record[f] \in Values(kind[f])
          /\ CanHold(kind[f], Shown(f))
      BY <2>2, <2>3, <2>6, KindsOfFields DEF RecordTypeOK
    <3> DEFINE body == Coerced(kind[f], Parsed(kind[f], Posted(kind[f], Shown(f), Disabled(f))))
    <3>2. KeepsZone(kind[f], record[f]) /\ ~ (kind[f] = "Text" /\ Shown(f) = "null")
      BY DEF MisreadsZone, ShowsNull, KeepsZone
    <3>3. /\ kind[f] \in SetKinds \/ Posted(kind[f], Shown(f), Disabled(f)) # NotSent
          /\ IsConvertible(kind[f], record[f], body) =>
                Trimmed(kind[f], Stored(kind[f], record[f], body)) = Meaning(kind[f], Shown(f))
      BY <2>2, <3>1, <3>2, StoredIsMeant
    <3>4. f \in Sent
      BY <2>4, <3>3 DEF Sent, PostedBy
    <3>5. IsConvertible(kind[f], record[f], body)
      BY <2>1, <3>4 DEF Write, Refusal, Body, PostedBy
    <3>6. record'[f] = Stored(kind[f], record[f], body)
      BY <1>1, <2>1, <3>4, SentIsStored
    <3> QED
      BY <3>3, <3>5, <3>6
  <2> QED
    BY <2>5, <2>6
<1>2. FormInv /\ [Next]_vars =>
         [Saves =>
             \A f \in page.fields :
                 \/ Disabled(f)
                 \/ Trimmed(kind[f], record'[f]) = Meaning(kind[f], Shown(f))
                 \/ kind[f] \in {"Boolean", "Date", "DateTime"} /\ Shown(f) = ""
                 \/ ShowsFalseNote(f) \/ ShowsNull(f) \/ MisreadsZone(f)]_vars
  BY <1>1
<1> QED
  BY <1>2, InitInv, NextInv, PTL DEF Spec, SavedIsStored

\* A save that fails, once or again, shows the user what was entered, but for dates
\* and times, annotations that are false, and the texts "null" and "Don't know".
THEOREM EntriesAreKept ==
    ASSUME PlainOptions
    PROVE  Spec => ErrorKeepsEntries
<1>1. ASSUME FormInv, [Next]_vars, Fails, NEW f \in page.fields
      PROVE  \/ Disabled(f)
             \/ Meaning(kind[f], Shown(f)') = Meaning(kind[f], Shown(f))
             \/ kind[f] \in Temporal
             \/ ShowsFalseNote(f) \/ ShowsNull(f) \/ ShowsDontKnow(f)
  <2> SUFFICES ASSUME ~ Disabled(f), kind[f] \notin Temporal, ~ ShowsFalseNote(f), ~ ShowsNull(f),
                      ~ ShowsDontKnow(f)
               PROVE  Meaning(kind[f], Shown(f)') = Meaning(kind[f], Shown(f))
    OBVIOUS
  <2> DEFINE inputs == [g \in Fields |-> IF g \in page.fields THEN Redisplayed(kind[g], PostedBy(g))
                                                              ELSE Empty(kind[g])]
             blank == page.code \in {NotSent, ""}
             code == IF blank THEN NoCode ELSE page.code
             p == [page EXCEPT !.pc = "open", !.failed = TRUE, !.fields = Fields, !.locks = NoLocks,
                               !.code = IF blank THEN "" ELSE @, !.inputs = inputs]
  <2>1. Render(p, code) /\ UNCHANGED schema
    <3>1. SaveFails \/ SaveTimesOut
      BY <1>1
      DEF Fails, Next, vars, Open, OpenNew, Enter, EnterCode, UsePicker, Submit, Leave, Save, Render,
          ClosedPage, OtherWrites, OtherLocks, OtherDeletes, OthersAct, DeletePage, FormInv, Page
    <3> QED
      BY <3>1 DEF SaveFails, SaveTimesOut, DisplayError
  <2>2. InputsOK(Fields, inputs)
    BY <1>1, ErrorInputsOK
  <2>3. /\ f \in Fields /\ Disabled(f) \in BOOLEAN
        /\ IF IsPicker(f) THEN Shown(f) \in Links ELSE CanHold(kind[f], Shown(f))
    BY <1>1, ShownType
  <2>4. inputs[f] = Redisplayed(kind[f], Posted(kind[f], Shown(f), Disabled(f)))
    BY <2>3 DEF PostedBy
  <2> HIDE DEF inputs
  <2>5. IsPage(p) /\ p.fields = Fields /\ p.inputs = inputs /\ code \in Codes \union {NoCode}
    BY <1>1, FormInvParts, NoLocksType DEF PageInv, IsPage
  <2> HIDE DEF p, code
  <2>6. HasLayout
    BY <1>1 DEF FormInv
  <2>7. Shown(f)' = inputs[f]
    BY <2>1, <2>2, <2>3, <2>5, <2>6, RenderShows
  <2>8. CASE IsPicker(f)
    <3>1. kind[f] \in Relationships /\ Shown(f) \in Links /\ NoFalseNotes(Shown(f))
      BY <2>3, <2>8 DEF ShowsFalseNote, NoFalseNotes, Shown, IsPicker
    <3> QED
      BY <2>4, <2>7, <3>1, LinksMeaning
  <2>9. CASE ~ IsPicker(f)
    <3>1. kind[f] \in Kinds \ Relationships /\ CanHold(kind[f], Shown(f))
      BY <2>3, <2>6, <2>9, KindsOfFields
    <3>2. ~ (kind[f] = "Text" /\ Shown(f) \in {"null", "Don't know"})
      BY DEF ShowsNull, ShowsDontKnow
    <3> QED
      BY <2>3, <2>4, <2>7, <3>1, <3>2, RedisplayedIsMeant
  <2> QED
    BY <2>8, <2>9
<1>2. FormInv /\ [Next]_vars =>
         [Fails =>
             \A f \in page.fields :
                 \/ Disabled(f)
                 \/ Meaning(kind[f], Shown(f)') = Meaning(kind[f], Shown(f))
                 \/ kind[f] \in Temporal
                 \/ ShowsFalseNote(f) \/ ShowsNull(f) \/ ShowsDontKnow(f)]_vars
  BY <1>1
<1> QED
  BY <1>2, InitInv, NextInv, PTL DEF Spec, ErrorKeepsEntries

=============================================================================
