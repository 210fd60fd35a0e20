------------------------- MODULE MultilineDefinition -------------------------
(***************************************************************************)
(* The small lexer with which the markdown parser reads the definition of   *)
(* a relationship (tc-markdown-parser/lib/parse-multiline-definition.js): a *)
(* code on the first line and one "name: value" per line after it.  A text  *)
(* is a sequence of tokens: the characters the lexer tells apart, and words. *)
(***************************************************************************)
EXTENDS Naturals, Sequences, SequencesExt, FiniteSetsExt

CONSTANT CamelWords   \* the words that are lower camel case names

\* Such a name has at least two letters.
ASSUME CamelAssumption == "" \notin CamelWords

Tab == "tab"
PropertyNameSeparator == ":"
LineFeed == "lf"
CarriageReturn == "cr"
Space == "space"

NoFault == [message |-> "none", line |-> 0]

\* The members of a set of numbers in ascending order, and SelectSeq by means of them.
InOrder(S) == [k \in 1..Cardinality(S) |-> CHOOSE i \in S : Cardinality({j \in S : j <= i}) = k]
Chosen(seq, Test(_)) ==
    LET places == InOrder({i \in DOMAIN seq : Test(seq[i])})
    IN [k \in DOMAIN places |-> seq[places[k]]]

Trim(text) ==
    LET kept == {i \in DOMAIN text : text[i] \notin {Tab, Space}}
    IN IF kept = {} THEN <<>> ELSE SubSeq(text, Min(kept), Max(kept))

\* /^[a-z][a-zA-Z0-9]+$/
IsCamelCase(text) == text # <<>> /\ Range(text) \subseteq CamelWords

\* A name of several words is a camel case name, but of no property.
NameOf(text) == IF Len(text) = 1 THEN text[1] ELSE "unknown"

Definition(key, value, line) == [key |-> key, value |-> value, line |-> line]

Lexer(line) == [buffer |-> <<>>, propName |-> "", properties |-> <<>>, line |-> line, fault |-> NoFault]
Fails(lexer, message) == [lexer EXCEPT !.fault = [message |-> message, line |-> lexer.line]]

Names(lexer) ==
    LET name == Trim(lexer.buffer)
    IN IF name = <<>> THEN Fails(lexer, "unexpected separator")
       ELSE IF ~IsCamelCase(name) THEN Fails(lexer, "not camel case")
       ELSE [lexer EXCEPT !.propName = NameOf(name), !.buffer = <<>>]

EndsKeepingName(lexer, message) ==
    LET value == Trim(lexer.buffer)
    IN IF lexer.propName = "" THEN Fails(lexer, message)
       ELSE IF value = <<>> THEN Fails(lexer, "empty value")
       ELSE [lexer EXCEPT !.properties = Append(@, Definition(lexer.propName, value, lexer.line)),
                          !.buffer = <<>>, !.line = @ + 1]

\* The end of a value, at a line feed or at the end of the text.
Ends(lexer, message) ==
    LET value == Trim(lexer.buffer)
    IN IF lexer.propName = "" THEN Fails(lexer, message)
       ELSE IF value = <<>> THEN Fails(lexer, "empty value")
       ELSE [lexer EXCEPT !.properties = Append(@, Definition(lexer.propName, value, lexer.line)),
                          !.buffer = <<>>, !.propName = "", !.line = @ + 1]

Reads(lexer, char) ==
    IF lexer.fault # NoFault THEN lexer
    ELSE CASE char = Tab /\ lexer.buffer = <<>> -> lexer
           [] char = PropertyNameSeparator -> Names(lexer)
           [] char = LineFeed -> Ends(lexer, "unexpected linefeed")
           [] char = CarriageReturn -> lexer
           [] OTHER -> [lexer EXCEPT !.buffer = Append(@, char)]

\* What is left in the buffer when the text ends.
Remains(lexer) ==
    IF lexer.fault # NoFault \/ (lexer.buffer = <<>> /\ lexer.propName = "") THEN lexer
    ELSE Ends(lexer, "unexpected characters")

\* The lexer behind each character of the text.
ParsePropertyDefinition(text, line) ==
    LET read[i \in 0..Len(text)] == IF i = 0 THEN Lexer(line) ELSE Reads(read[i - 1], text[i])
    IN Remains(read[Len(text)])

DividePropertyDefinition(text) ==
    LET breaks == {i \in DOMAIN text : text[i] = LineFeed}
        first == IF breaks = {} THEN Len(text) + 1 ELSE Min(breaks)
    IN [code |-> SubSeq(text, 1, first - 1), propDefs |-> SubSeq(text, first + 1, Len(text))]

\* The text node of a subdocument.  Blocks have no value of their own, so
\* joining two of them gives the words "undefined", on a line each.
DefinitionText(blocks) ==
    IF Len(blocks) = 1 THEN blocks[1].words
    ELSE [k \in 1..2 * Len(blocks) - 1 |-> IF k % 2 = 1 THEN "undefined" ELSE LineFeed]

ParseMultilineDefinition(blocks, line) ==
    IF blocks = <<>> \/ (Len(blocks) = 1 /\ blocks[1].words = <<>>)
    THEN [properties |-> <<>>, fault |-> NoFault]
    ELSE LET parts == DividePropertyDefinition(DefinitionText(blocks))
             parsed == ParsePropertyDefinition(parts.propDefs, line + 1)
         IN [properties |-> <<Definition("code", parts.code, line)>> \o parsed.properties,
             fault |-> parsed.fault]
-----------------------------------------------------------------------------
(* The same definitions read line by line, for comparison.                  *)

\* The parts of a text between the occurrences of a token.
SplitAt(text, token) ==
    LET cuts == InOrder({i \in DOMAIN text : text[i] = token} \union {0, Len(text) + 1})
    IN [k \in 1..Len(cuts) - 1 |-> SubSeq(text, cuts[k] + 1, cuts[k + 1] - 1)]

\* A line is a value behind at least one name, the last of which counts.
LineIsSound(line) ==
    LET parts == SplitAt(line, PropertyNameSeparator)
    IN /\ Len(parts) > 1
       /\ \A k \in 1..Len(parts) - 1 : IsCamelCase(Trim(parts[k]))
       /\ Trim(Last(parts)) # <<>>

LineSays(line) ==
    LET parts == SplitAt(line, PropertyNameSeparator)
    IN <<NameOf(Trim(parts[Len(parts) - 1])), Trim(Last(parts))>>

\* Nothing behind the last line feed is not a line.
LinesOf(text) ==
    LET clean == Chosen(text, LAMBDA char : char # CarriageReturn)
        lines == SplitAt(clean, LineFeed)
        last == Last(lines)
    IN IF \A i \in DOMAIN last : last[i] = Tab THEN Front(lines) ELSE lines

DefinitionsByLine(text) ==
    LET lines == LinesOf(text) IN [i \in DOMAIN lines |-> LineSays(lines[i])]
DefinitionIsSound(text) ==
    LET lines == LinesOf(text) IN \A i \in DOMAIN lines : LineIsSound(lines[i])
FirstUnsound(text) ==
    LET lines == LinesOf(text) IN Min({i \in DOMAIN lines : ~LineIsSound(lines[i])})
=============================================================================
