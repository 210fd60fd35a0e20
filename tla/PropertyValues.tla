---------------------------- MODULE PropertyValues ----------------------------
(***************************************************************************)
(* The values of a property on their way from the record into an input of  *)
(* the edit form of tc-ui, out of the form that is posted, through the     *)
(* parser of the primitive, the validation of tc-api-rest-handlers and its *)
(* conversion for Neo4j.  A value is a string, or a set for the kinds that *)
(* have many values; what two conversions do not tell apart is one value.  *)
(***************************************************************************)
EXTENDS Naturals, FiniteSets

CONSTANTS
    Codes,      \* codes of the records that can be related
    Options,    \* the values of an enum
    ApiZone,    \* the time zone of the process of the API
    MaxLinks    \* a bound: how many records others relate one to, with the note "no"

ASSUME ValuesAssumption ==
    IsFiniteSet(Codes) /\ ApiZone \in {"Z", "+12:00"} /\ MaxLinks \in Nat

NoValue == "no value"       \* null in JSON, or no property
NotSent == "not sent"       \* the posted form has no such field
Epoch == "1970-01-01"
NotANumber == "seven"

\* "Text" stands for LargeText too; "One" and "Many" are relationships.
SetKinds == {"MultipleChoice", "One", "Many"}
Temporal == {"Date", "Time", "DateTime"}
Kinds == {"Text", "Number", "Boolean", "Enum"} \union Temporal \union SetKinds
Relationships == {"One", "Many"}

\* A related record and the Boolean it is annotated with.  "picked no" is the
\* string "false", which the radio button of an annotation puts into the state of
\* the picker; "no" is the value false, as the API returns it.
Notes == {"none", "yes", "no"}
Link == [code: Codes, note: Notes \union {"picked no"}]

\* A day has two times, each with a zone; the date of a DateTime is left out.
Clocks == {"00:00", "12:00"}
Times == {"00:00Z", "12:00Z", "00:00+12:00", "12:00+12:00"}

At(clock, zone) ==
    IF zone = "Z" THEN IF clock = "00:00" THEN "00:00Z" ELSE "12:00Z"
                  ELSE IF clock = "00:00" THEN "00:00+12:00" ELSE "12:00+12:00"

Clock(time) == IF time \in {"00:00Z", "00:00+12:00"} THEN "00:00" ELSE "12:00"

\* Twelve hours east of Greenwich it is noon when it is midnight there.
ClockInUTC(time) == IF time \in {"00:00Z", "12:00+12:00"} THEN "00:00" ELSE "12:00"

Values(kind) ==
    CASE kind = "Text" -> {NoValue, "text", "null", "Don't know"}
      [] kind = "Number" -> {NoValue, "0", "7"}
      [] kind = "Boolean" -> {NoValue, "true", "false"}
      [] kind = "Date" -> {NoValue, "2020-01-15", Epoch}
      [] kind \in {"Time", "DateTime"} -> Times \union {NoValue}
      [] kind = "Enum" -> Options \union {NoValue}
      [] kind = "MultipleChoice" -> SUBSET Options
      [] OTHER -> {links \in SUBSET [code: Codes, note: {"no"}] :
                      /\ \A one, two \in links : one.code = two.code => one = two
                      /\ Cardinality(links) <= IF kind = "One" THEN 1 ELSE MaxLinks}

Blank(kind) == IF kind \in SetKinds THEN {} ELSE NoValue

\* What a user can put into an input; an Enum has the option Don't know, whose
\* value is "null".
Entries(kind) ==
    CASE kind = "Text" -> {"", "text", "null", "Don't know"}
      [] kind = "Number" -> {"", "0", NotANumber}
      [] kind = "Boolean" -> {"true", "false"}
      [] kind = "Date" -> {"", "2020-01-15"}
      [] kind \in {"Time", "DateTime"} -> Clocks \union {""}
      [] kind = "Enum" -> Options \union {"null"}
      [] OTHER -> SUBSET Options

Empty(kind) == CASE kind \in SetKinds -> {} [] kind = "Enum" -> "null" [] OTHER -> ""

\* convertValueForHTMLInput: the zone of a Time is cut off, a DateTime is shown as
\* it is in UTC.
Trimmed(kind, value) ==
    CASE kind = "Time" /\ value # NoValue -> Clock(value)
      [] kind = "DateTime" /\ value # NoValue -> ClockInUTC(value)
      [] OTHER -> value

\* A slip: a number is looked at for being falsy.
InputIfTruthy(kind, value) ==
    IF value = Blank(kind) \/ (kind = "Number" /\ value = "0") THEN Empty(kind)
    ELSE Trimmed(kind, value)

\* getValue and the EditComponents: the input that shows a value of the API.
Input(kind, value) == IF value = Blank(kind) THEN Empty(kind) ELSE Trimmed(kind, value)

\* The parts of a form that a browser posts.  A disabled input is not sent, but
\* the hidden inputs of a picker and of multiple choices are never disabled.
Posted(kind, input, disabled) ==
    CASE kind \in Relationships -> input
      [] kind = "MultipleChoice" -> IF disabled THEN {} ELSE input
      [] OTHER -> IF disabled \/ (kind = "Boolean" /\ input = "") THEN NotSent ELSE input

\* A note is a string from the form, or false, which counts as none.
ParsedNote(note) == CASE note = "no" -> "none" [] note = "picked no" -> "no" [] OTHER -> note

\* The parser of each primitive.
Parsed(kind, posted) ==
    CASE kind \in Relationships -> {[link EXCEPT !.note = ParsedNote(@)] : link \in posted}
      [] kind = "MultipleChoice" -> posted
      [] kind = "Number" -> IF posted = "" THEN NoValue ELSE posted
      [] kind = "Boolean" -> posted
      [] OTHER -> IF posted = "null" THEN NoValue ELSE posted     \* the default

\* A slip: what was posted is shown as it is.
RedisplayedUnparsed(kind, posted) == posted

\* The input after a save that failed: formDataToGraphQL, which skips what is
\* falsy, and the EditComponent again.  The one of temporal properties expects
\* an object {formatted}.
Redisplayed(kind, posted) ==
    IF kind \in SetKinds THEN Parsed(kind, posted)
    ELSE IF kind \in Temporal \/ posted \in {NotSent, "", "Don't know"} THEN Empty(kind)
    ELSE Input(kind, Parsed(kind, posted))

\* coerceEmptyStringsToNull
Coerced(kind, value) == IF kind \notin SetKinds /\ value = "" THEN NoValue ELSE value

\* validateProperty: the values a form can post that are refused.
Valid(kind, value) == kind = "Number" => value # NotANumber

\* normalizeDateString: a text without a zone is a time in the zone of the process.
SameMoment(kind, old, new) ==
    kind \in {"Time", "DateTime"} /\ old # NoValue /\ ClockInUTC(At(new, ApiZone)) = ClockInUTC(old)

\* A slip: null is not told from a value that has not changed.
ChangedUnlessNull(kind, old, new) ==
    new # Blank(kind) /\ new # old /\ ~SameMoment(kind, old, new)

\* diffProperties; for relationships, what "replace" adds and removes.
Changed(kind, old, new) ==
    IF new = Blank(kind) THEN old # Blank(kind) ELSE new # old /\ ~SameMoment(kind, old, new)

\* convertTemporalTypes makes no Time of a null: the driver throws.
IsConvertible(kind, old, new) == kind = "Time" /\ Changed(kind, old, new) => new # NoValue

\* constructNeo4jProperties: dates are converted before null is looked for, and
\* null is the beginning of 1970 in UTC.
Converted(kind, value) ==
    CASE kind = "Date" /\ value = NoValue -> Epoch
      [] kind = "DateTime" /\ value = NoValue -> At(IF ApiZone = "Z" THEN "00:00" ELSE "12:00", ApiZone)
      [] kind \in {"Time", "DateTime"} /\ value # NoValue -> At(value, ApiZone)
      [] OTHER -> value

Stored(kind, old, new) == IF Changed(kind, old, new) THEN Converted(kind, new) ELSE old

-----------------------------------------------------------------------------
\* What the user of a form sees in an input.
Meaning(kind, input) ==
    CASE kind \in Relationships ->
             {[link EXCEPT !.note = IF @ = "picked no" THEN "no" ELSE @] : link \in input}
      [] kind = "MultipleChoice" -> input
      [] kind = "Enum" -> IF input = "null" THEN NoValue ELSE input
      [] OTHER -> IF input = "" THEN NoValue ELSE input

=============================================================================
