--------------------------- MODULE MarkdownParser ---------------------------
(***************************************************************************)
(* tc-markdown-parser: a markdown file is turned into the body of a write.  *)
(* Eight passes, one after the other, rewrite one tree in place; each is an *)
(* action here.  The tree is the sequence of the nodes under the root.      *)
(***************************************************************************)
EXTENDS MultilineDefinition, TLC

CONSTANTS
    Properties,    \* of the type: a sequence of [key, label, type, hasMany, properties]
    PrimitiveTypes, Enums, TypeNames,  \* type -> primitive; enum -> values; record types
    Blacklist,     \* keys a markdown file must not set
    Documents,     \* the files that may be parsed: sequences of blocks
    YesWords, NoWords, DateWords, NumberWords, CommentWords,
    RejectedWords  \* words that no string pattern accepts

VARIABLES document, tree, pass, result
vars == <<document, tree, pass, result>>

Passes == <<"title", "property nodes", "description", "property names", "nested", "coerce",
            "validate", "stringify">>
SubdocumentTypes == {"Document", "Paragraph", "Sentence"}
\* The value types that the API's validators look at.
CheckedPrimitives == {"String", "Boolean", "Int", "Float"}

BlockTypes == {"h1", "inline h1", "h2", "paragraph", "html", "list"}
Described(properties) ==
    [key : STRING, label : STRING, type : STRING, hasMany : BOOLEAN, properties : properties]

ASSUME DocumentsAssumption ==
    Documents \subseteq Seq([type : BlockTypes, words : Seq(STRING), items : Seq(Seq(STRING))])

\* The properties of a type have different keys, and a code is a string.
ASSUME PropertiesAssumption ==
    /\ Properties \in Seq(Described(Seq(Described({<<>>}))))
    /\ \A k, l \in DOMAIN Properties : Properties[k].key = Properties[l].key => k = l
    /\ \A k \in DOMAIN Properties :
           Properties[k].key = "code" => /\ Properties[k].type \in DOMAIN PrimitiveTypes
                                        /\ PrimitiveTypes[Properties[k].type] \in CheckedPrimitives
-----------------------------------------------------------------------------
(* Blocks of a file, nodes of the tree, and values.                         *)
Block(type, words, items) == [type |-> type, words |-> words, items |-> items]
Title(words) == Block("h1", words, <<>>)
InlineTitle(words) == Block("inline h1", words, <<>>)
Heading(heading) == Block("h2", <<heading>>, <<>>)
Paragraph(words) == Block("paragraph", words, <<>>)
Comment(word) == Block("html", <<word>>, <<>>)
List(items) == Block("list", <<>>, items)

Absent == <<"absent">>
Position(block, item, line) == [block |-> block, item |-> item, line |-> line]
Nowhere == Position(0, 0, 0)

Node(type, words, items, at) ==
    [type |-> type, words |-> words, items |-> items, at |-> at, key |-> "", propertyType |-> "",
     hasMany |-> FALSE, children |-> <<>>, nested |-> <<>>, value |-> Absent, message |-> ""]

AsProblem(node, message) == [node EXCEPT !.type = "problem", !.message = message]
AsName(node) == [node EXCEPT !.type = "name", !.value = <<"text", node.words>>]
WithValue(node, value) == [node EXCEPT !.children = <<>>, !.nested = <<>>, !.value = value]
AsPropertyOf(node, property) ==
    [node EXCEPT !.key = property.key, !.propertyType = property.type, !.hasMany = property.hasMany]
IsProperty(node) == node.type = "property"
IsProblem(node) == node.type = "problem"

Flatten(nodes) ==
    FlattenSeq([i \in DOMAIN nodes |-> nodes[i].words \o FlattenSeq(nodes[i].items)])
DropComments(words) == Trim(SelectSeq(words, LAMBDA w : w \notin CommentWords))
ListItems(nodes) ==
    FlattenSeq([i \in DOMAIN nodes |->
                   [k \in DOMAIN nodes[i].items |-> [words |-> nodes[i].items[k], at |-> Position(nodes[i].at.block, k, 0)]]])

EachNode(op(_)) == tree' = [i \in DOMAIN tree |-> op(tree[i])]

Parsed(data, errors) == [rejected |-> FALSE, data |-> data, errors |-> errors]
NoResult == Parsed(<<>>, <<>>)
Rejected == [rejected |-> TRUE, data |-> <<>>, errors |-> <<>>]

\* The pass that is due; the next one follows.
Runs(name) ==
    /\ pass <= Len(Passes)
    /\ Passes[pass] = name
    /\ pass' = pass + 1
    /\ UNCHANGED document
-----------------------------------------------------------------------------
CreateTitleNode ==
    LET titles == {i \in DOMAIN tree : tree[i].type \in {"h1", "inline h1"}}
        several == Cardinality(titles) > 1
        Mark(i) == CASE several -> AsProblem(tree[i], "several names")
                     [] ~several /\ tree[i].type = "inline h1" -> AsProblem(tree[i], "inline markdown in a name")
                     [] OTHER -> AsName(tree[i])
    IN /\ Runs("title")
       /\ tree' = IF titles = {} THEN Append(tree, AsProblem(Node("problem", <<>>, <<>>, Nowhere), "no name"))
                  ELSE [i \in DOMAIN tree |-> IF i \in titles THEN Mark(i) ELSE tree[i]]
       /\ UNCHANGED result

SectionNode(heading, blocks) ==
    [Node("property", <<>>, <<>>, heading.at) EXCEPT !.key = heading.words[1], !.children = blocks]

\* A section reaches to the next h2.  A title is no heading any more, and the
\* problem of a missing one is the last node.
CreatePropertyNodes ==
    LET heads == {i \in DOMAIN tree : tree[i].type = "h2"}
        \* where the section of a heading, and the text before the first, ends
        End(i) == Min({j \in heads : j > i} \union {Len(tree) + 1}) - 1
        Section(i) == SectionNode(tree[i], SubSeq(tree, i + 1, End(i)))
    IN /\ Runs("property nodes")
       /\ tree' = SubSeq(tree, 1, End(0)) \o [k \in 1..Cardinality(heads) |-> Section(InOrder(heads)[k])]
       /\ UNCHANGED result

\* Only the first of the blocks that remain is rendered.
CreateDescriptionNode ==
    LET blocks == {i \in DOMAIN tree : tree[i].type \notin {"name", "property", "problem"}}
        extra == Cardinality(blocks) > 1
        Kept(i) == IF extra /\ i = Max(blocks) THEN AsProblem(tree[i], "several paragraphs") ELSE tree[i]
        description == WithValue(Node("description", <<>>, <<>>, Nowhere), <<"document", Flatten(<<tree[Min(blocks)]>>)>>)
    IN /\ Runs("description")
       /\ tree' = IF blocks = {} THEN tree ELSE Append([i \in DOMAIN tree |-> Kept(i)], description)
       /\ UNCHANGED result

\* Headings, keys and labels stand for their normal forms; without a label that
\* form is empty, as is that of an empty heading.
Resolve(heading, properties) ==
    SelectInSeq(properties, LAMBDA p : heading \in {p.key, p.label})

NamedAgain(nodes, properties) ==
    LET Named(i) ==
            LET found == Resolve(nodes[i].key, properties)
            IN IF found = 0 THEN AsProblem(nodes[i], "unresolved name")
               ELSE AsPropertyOf(nodes[i], properties[found])
    IN [i \in DOMAIN nodes |-> IF IsProperty(nodes[i]) THEN Named(i) ELSE nodes[i]]

\* The first of the nodes of one property keeps its name.
WithNames(nodes, properties) ==
    LET Named(i) ==
            LET found == Resolve(nodes[i].key, properties)
                again == \E j \in 1..i - 1 : IsProperty(nodes[j]) /\ Resolve(nodes[j].key, properties) = found
            IN CASE found = 0 -> AsProblem(nodes[i], "unresolved name")
                 [] found # 0 /\ again -> AsProblem(nodes[i], "duplicate heading")
                 [] OTHER -> AsPropertyOf(nodes[i], properties[found])
    IN [i \in DOMAIN nodes |-> IF IsProperty(nodes[i]) THEN Named(i) ELSE nodes[i]]

SetPropertyNames ==
    /\ Runs("property names")
    /\ tree' = WithNames(tree, Properties)
    /\ UNCHANGED result
-----------------------------------------------------------------------------
(* Relationships: a code and, on lines of their own, the properties that    *)
(* the relationship itself has.                                             *)
PropertyOf(key) == Properties[SelectInSeq(Properties, LAMBDA p : p.key = key)]
IsNested(node) == IsProperty(node) /\ node.propertyType \in TypeNames

\* The value of a nested property as blocks, like those of a section.
NestedChildren(node, value) ==
    LET parts == SplitAt(value, ",")
    IN IF node.hasMany
       THEN <<Node("list", <<>>, [k \in DOMAIN parts |-> Trim(parts[k])], node.at)>>
       ELSE <<Node("paragraph", value, <<>>, node.at)>>

BareNodes(written, at) ==
    [k \in DOMAIN written |->
        [Node("property", <<>>, <<>>, [at EXCEPT !.line = written[k].line]) EXCEPT !.key = written[k].key]]
WithChildren(named, written) ==
    [k \in DOMAIN named |-> [named[k] EXCEPT !.children = NestedChildren(named[k], written[k].value)]]
DefinedNodes(written, at, properties) == WithChildren(WithNames(BareNodes(written, at), properties), written)

CodeNode(definitions, at) ==
    IF definitions = <<>> THEN [Node("", <<>>, <<>>, at) EXCEPT !.propertyType = "Code"]
    ELSE [Node("property", <<>>, <<>>, at) EXCEPT
             !.key = "code", !.propertyType = "Code",
             !.children = <<Node("paragraph", definitions[1].value, <<>>, at)>>]

\* The nodes of one definition, with the first mistake in it: one that the lexer
\* finds, or else a name.
WithMistake(nodes, problem, fault, at) ==
    CASE fault # NoFault -> [nodes |-> nodes, message |-> fault.message, at |-> [at EXCEPT !.line = fault.line]]
      [] fault = NoFault /\ problem # 0 ->
             [nodes |-> nodes, message |-> nodes[problem].message, at |-> [at EXCEPT !.line = nodes[problem].at.line]]
      [] OTHER -> [nodes |-> nodes, message |-> "", at |-> at]
DefinitionNodesOf(parsed, nodes, at) ==
    WithMistake(Append(nodes, CodeNode(parsed.properties, at)), SelectInSeq(nodes, IsProblem), parsed.fault, at)
NodesOf(parsed, at, properties) ==
    DefinitionNodesOf(parsed, DefinedNodes(Chosen(parsed.properties, LAMBDA d : d.key # "code"), at, properties), at)
DefinitionNodes(blocks, at, properties) == NodesOf(ParseMultilineDefinition(blocks, 0), at, properties)

DefinitionsIn(node, items, properties) ==
    LET start == IF node.children = <<>> THEN node.at ELSE node.children[1].at
    IN IF items = <<>> THEN <<DefinitionNodes(node.children, start, properties)>>
       ELSE [k \in DOMAIN items |-> DefinitionNodes(<<items[k]>>, items[k].at, properties)]

Nested(node, definitions) ==
    LET wrong == SelectInSeq(definitions, LAMBDA d : d.message # "")
    IN IF wrong # 0 THEN [AsProblem(node, definitions[wrong].message) EXCEPT !.at = definitions[wrong].at]
       ELSE [node EXCEPT !.children = <<>>, !.nested = [k \in DOMAIN definitions |-> definitions[k].nodes]]

WithDefinitions(node) ==
    LET items == ListItems(node.children)
    IN CASE ~IsNested(node) -> node
         [] IsNested(node) /\ items = <<>> /\ node.hasMany -> AsProblem(node, "not a list")
         [] IsNested(node) /\ ~(items = <<>> /\ node.hasMany) ->
                Nested(node, DefinitionsIn(node, items, PropertyOf(node.key).properties))

SetNestedProperties ==
    /\ Runs("nested")
    /\ EachNode(WithDefinitions)
    /\ UNCHANGED result
-----------------------------------------------------------------------------
(* Values: a coercion gives a value, or the message of a problem.           *)
Valid(value) == [value |-> value, message |-> ""]
Invalid(message) == [value |-> Absent, message |-> message]

CoerceString(blocks) ==
    IF ListItems(blocks) # <<>> THEN Invalid("bulleted list") ELSE Valid(<<"text", DropComments(Flatten(blocks))>>)
CoerceNestedString(blocks) ==
    IF blocks = <<>> THEN Invalid("empty nested string") ELSE Valid(<<"text", DropComments(Flatten(blocks))>>)
CoerceSubdocument(blocks) == Valid(<<"document", DropComments(Flatten(blocks))>>)
CoerceDate(blocks) ==
    LET text == Flatten(blocks)
    IN IF Len(text) = 1 /\ text[1] \in DateWords \union NumberWords THEN Valid(<<"date", text[1]>>) ELSE Invalid("not a date")
CoerceBoolean(blocks) ==
    LET text == Flatten(blocks)
    IN CASE Len(text) = 1 /\ text[1] \in YesWords -> Valid(<<"flag", TRUE>>)
         [] Len(text) = 1 /\ text[1] \in NoWords -> Valid(<<"flag", FALSE>>)
         [] OTHER -> Invalid("not a boolean")
\* parseInt and parseFloat read as far as they can.
CoerceNumber(blocks) ==
    LET text == Flatten(blocks)
    IN IF text # <<>> /\ text[1] \in DateWords \union NumberWords THEN Valid(<<"number", text[1]>>) ELSE Invalid("not a number")

\* There is no coercer for the primitive type Time.
HasCoercer(primitive) == primitive # "Time"
CoercePrimitive(type, blocks, nested) ==
    LET primitive == PrimitiveTypes[type]
    IN CASE primitive = "String" /\ nested -> CoerceNestedString(blocks)
         [] primitive = "String" /\ ~nested /\ type \in SubdocumentTypes -> CoerceSubdocument(blocks)
         [] primitive = "String" /\ ~nested /\ type \notin SubdocumentTypes -> CoerceString(blocks)
         [] primitive = "Boolean" -> CoerceBoolean(blocks)
         [] primitive \in {"Int", "Float"} -> CoerceNumber(blocks)
         [] primitive \in {"Date", "DateTime"} -> CoerceDate(blocks)
         [] OTHER -> Invalid("coercer is not a function")

IsEnumValue(words, values) == Len(Trim(words)) = 1 /\ Trim(words)[1] \in values
CoerceEnum(enum, hasMany, blocks) ==
    LET parts == CASE blocks # <<>> /\ hasMany -> blocks[1].items
                   [] OTHER -> [i \in DOMAIN blocks |-> Flatten(<<blocks[i]>>)]
    IN CASE blocks = <<>> -> Invalid("no value")
         [] blocks # <<>> /\ hasMany /\ blocks[1].type # "list" -> Invalid("not a list of enums")
         [] blocks # <<>> /\ ~hasMany /\ blocks[1].type # "paragraph" -> Invalid("not a single enum")
         [] OTHER ->
                IF \E k \in DOMAIN parts : ~IsEnumValue(parts[k], Enums[enum]) THEN Invalid("not in the enum")
                ELSE Valid(IF hasMany THEN <<"enums", [k \in DOMAIN parts |-> Trim(parts[k])[1]]>>
                           ELSE <<"enum", Trim(parts[1])[1]>>)

\* An enum's problem is put on the nested node, which is dropped with the rest:
\* the value is absent.
CoerceNestedNode(node) ==
    CASE node.propertyType \in DOMAIN PrimitiveTypes -> CoercePrimitive(node.propertyType, node.children, TRUE)
      [] node.propertyType \in DOMAIN Enums \ DOMAIN PrimitiveTypes ->
             Valid(CoerceEnum(node.propertyType, node.hasMany, node.children).value)
      [] OTHER -> Invalid("no type")

Link(nodes) ==
    [key \in {nodes[k].key : k \in DOMAIN nodes} |->
        CoerceNestedNode(nodes[CHOOSE k \in DOMAIN nodes : nodes[k].key = key]).value]

CoerceNested(node) ==
    LET all == FlattenSeq(node.nested)
        wrong == SelectInSeq(all, LAMBDA n : CoerceNestedNode(n).message # "")
        \* an enum that comes before the mistake has become a problem by then
        Seen(n) == IF n.propertyType \in DOMAIN Enums /\ CoerceNestedNode(n).value = Absent
                   THEN AsProblem(n, "not in the enum") ELSE n
    IN IF wrong # 0
       THEN [AsProblem(node, CoerceNestedNode(all[wrong]).message) EXCEPT
                !.nested = <<[k \in DOMAIN all |-> IF k < wrong THEN Seen(all[k]) ELSE all[k]]>>]
       ELSE WithValue(node, IF node.hasMany THEN <<"links", [k \in DOMAIN node.nested |-> Link(node.nested[k])]>>
                            ELSE <<"link", Link(node.nested[1])>>)

Coercion(node) ==
    CASE node.propertyType \in DOMAIN PrimitiveTypes ->
             IF Flatten(node.children) = <<>> THEN Invalid("no value")
             ELSE CoercePrimitive(node.propertyType, node.children, FALSE)
      [] node.propertyType \in DOMAIN Enums \ DOMAIN PrimitiveTypes -> CoerceEnum(node.propertyType, node.hasMany, node.children)
      [] OTHER -> Invalid("no type")

CoercedOrProblem(node) ==
    CASE IsNested(node) -> CoerceNested(node)
      [] OTHER -> LET coercion == Coercion(node)
                  IN IF coercion.message = "" THEN WithValue(node, coercion.value)
                     ELSE AsProblem(node, coercion.message)

WithCoercedValue(node) ==
    CASE ~IsProperty(node) -> node
      [] IsNested(node) -> CoerceNested(node)
      [] OTHER -> LET coercion == Coercion(node)
                  IN IF coercion.message = "" THEN WithValue(node, coercion.value)
                     ELSE AsProblem(node, coercion.message)

\* The passes that throw: a coercer that does not exist, and a node that the
\* markdown renderer does not know, inside a document.
Throws(node) ==
    /\ IsProperty(node)
    /\ node.propertyType \in DOMAIN PrimitiveTypes
    /\ Flatten(node.children) # <<>>
    /\ \/ ~HasCoercer(PrimitiveTypes[node.propertyType])
       \/ /\ node.propertyType \in SubdocumentTypes
          /\ \E k \in DOMAIN node.children : node.children[k].type \in {"name", "problem"}

NeverOmitted(node) == FALSE
HasNoValue(node) == node.value \in {Absent, <<"text", <<>>>>, <<"document", <<>>>>}
IsOmitted(node) == IsProperty(node) /\ node.value \in {<<"text", <<>>>>, <<"document", <<>>>>}

CoerceProperties ==
    /\ Runs("coerce")
    /\ ~\E i \in DOMAIN tree : Throws(tree[i])
    /\ tree' = Chosen([i \in DOMAIN tree |-> WithCoercedValue(tree[i])], LAMBDA n : ~IsOmitted(n))
    /\ UNCHANGED result

\* The parse is rejected: no later pass runs.
CoerceThrows ==
    /\ pass <= Len(Passes)
    /\ Passes[pass] = "coerce"
    /\ \E i \in DOMAIN tree : Throws(tree[i])
    /\ pass' = Len(Passes) + 1
    /\ result' = Rejected
    /\ UNCHANGED <<document, tree>>
-----------------------------------------------------------------------------
(* The API's own validator, and the output.                                 *)
Accepts(value) ==
    CASE value = Absent -> FALSE
      [] value[1] \in {"text", "document"} -> Range(value[2]) \cap RejectedWords = {}
      [] OTHER -> TRUE

\* The string patterns of properties of relationships are never looked up.
AcceptsLink(link) == Accepts(link["code"]) /\ \A key \in DOMAIN link : link[key] # Absent

\* A value that is absent passes for the types that are not looked at.
ValidateProperty(key, value) ==
    LET found == SelectInSeq(Properties, LAMBDA p : p.key = key)
    IN /\ found # 0
       /\ CASE value = Absent ->
                   /\ Properties[found].type \in DOMAIN PrimitiveTypes
                   /\ PrimitiveTypes[Properties[found].type] \notin CheckedPrimitives
            [] value[1] = "link" -> AcceptsLink(value[2])
            [] value[1] = "links" -> \A k \in DOMAIN value[2] : AcceptsLink(value[2][k])
            [] OTHER -> Accepts(value)

Validated(node) ==
    CASE ~IsProperty(node) -> node
      [] IsProperty(node) /\ node.key \in Blacklist -> AsProblem(node, "not permitted")
      [] IsProperty(node) /\ node.key \notin Blacklist ->
             IF ValidateProperty(node.key, node.value) THEN node ELSE AsProblem(node, "invalid value")

\* What a failed relationship still holds is visited as well.
ValidateProperties ==
    LET Both(node) == [Validated(node) EXCEPT
                           !.nested = [k \in DOMAIN node.nested |->
                                          [j \in DOMAIN node.nested[k] |-> Validated(node.nested[k][j])]]]
    IN /\ Runs("validate")
       /\ EachNode(Both)
       /\ UNCHANGED result

Visited(nodes) ==
    FlattenSeq([i \in DOMAIN nodes |-> <<nodes[i]>> \o nodes[i].children \o FlattenSeq(nodes[i].nested)])
OfType(type) == Chosen(Visited(tree), LAMBDA n : n.type = type)
SetBy(node) == IF IsProperty(node) THEN node.key ELSE node.type

\* Of the nodes that set one key the last counts.
Stringify ==
    LET nodes == OfType("name") \o OfType("description") \o OfType("property")
        keys == {SetBy(nodes[k]) : k \in DOMAIN nodes}
        Data(key) == nodes[Max({k \in DOMAIN nodes : SetBy(nodes[k]) = key})].value
        problems == OfType("problem")
    IN /\ Runs("stringify")
       /\ result' = Parsed([key \in {k \in keys : Data(k) # Absent} |-> Data(key)],
                           [k \in DOMAIN problems |-> [message |-> problems[k].message, at |-> problems[k].at]])
       /\ UNCHANGED tree
-----------------------------------------------------------------------------
Init ==
    /\ document \in Documents
    /\ tree = [i \in DOMAIN document |-> Node(document[i].type, document[i].words, document[i].items, Position(i, 0, 0))]
    /\ pass = 1
    /\ result = NoResult

Next ==
    \/ CreateTitleNode
    \/ CreatePropertyNodes
    \/ CreateDescriptionNode
    \/ SetPropertyNames
    \/ SetNestedProperties
    \/ CoerceProperties
    \/ CoerceThrows
    \/ ValidateProperties
    \/ Stringify

Spec == Init /\ [][Next]_vars
-----------------------------------------------------------------------------
(* What a parse gives, section by section.                                  *)
Done == pass > Len(Passes) /\ ~result.rejected

Titles == {i \in DOMAIN document : document[i].type \in {"h1", "inline h1"}}
Sections == {i \in DOMAIN document : document[i].type = "h2"}
LastOf(i) == Min({j \in Sections : j > i} \union {Len(document) + 1}) - 1
Body(i) == SubSeq(document, i + 1, LastOf(i))
HeadingOf(i) == document[i].words[1]
Found(i) == Resolve(HeadingOf(i), Properties)
KeyOf(i) == Properties[Found(i)].key
IsFirst(i) == Found(i) # 0 /\ \A j \in Sections : j < i => Found(j) # Found(i)
ErrorsIn(i) == {k \in DOMAIN result.errors : result.errors[k].at.block \in i..LastOf(i)}

\* The value of a relationship, with its definitions read line by line.
LinkInText(text, properties) ==
    LET parts == DividePropertyDefinition(text)
        lines == SelectSeq(DefinitionsByLine(parts.propDefs), LAMBDA line : line[1] # "code")
        Said(line) ==
            LET property == properties[Resolve(line[1], properties)]
                node == [property EXCEPT !.properties = <<>>]
            IN CoerceNestedNode([propertyType |-> node.type, hasMany |-> node.hasMany,
                                 children |-> NestedChildren([hasMany |-> node.hasMany, at |-> Nowhere], line[2])]).value
        KeyIn(line) == properties[Resolve(line[1], properties)].key
    IN [key \in {KeyIn(lines[k]) : k \in DOMAIN lines} \union {"code"} |->
           IF key = "code" THEN <<"text", parts.code>>
           ELSE Said(lines[CHOOSE k \in DOMAIN lines : KeyIn(lines[k]) = key])]

LinksIn(body, property) ==
    LET items == FlattenSeq([i \in DOMAIN body |-> body[i].items])
        texts == IF items = <<>> THEN <<body[1].words>> ELSE items
    IN [k \in DOMAIN texts |-> LinkInText(texts[k], property.properties)]

Says(i) ==
    LET property == Properties[Found(i)]
    IN IF property.type \notin TypeNames
       THEN Coercion([propertyType |-> property.type, hasMany |-> property.hasMany,
                      children |-> [k \in DOMAIN Body(i) |->
                                       Node(Body(i)[k].type, Body(i)[k].words, Body(i)[k].items, Position(i + k, 0, 0))]]).value
       ELSE IF property.hasMany THEN <<"links", LinksIn(Body(i), property)>>
       ELSE <<"link", LinksIn(Body(i), property)[1]>>

OnlyComments(i) == Says(i) \in {<<"text", <<>>>>, <<"document", <<>>>>}

\* The title, then the description, then the sections, the later ones over the
\* earlier where a section has the key of one of them.
Reference ==
    LET title == document[CHOOSE i \in Titles : TRUE]
        before == {i \in DOMAIN document : document[i].type \notin {"h1", "h2"} /\ \A j \in Sections : i < j}
        written == {i \in Sections : ~OnlyComments(i)}
        intro == IF before = {} THEN <<>>
                 ELSE "description" :> <<"document", Flatten(<<document[Min(before)]>>)>>
    IN [key \in {KeyOf(i) : i \in written} |-> Says(CHOOSE i \in written : KeyOf(i) = key)]
       @@ intro @@ ("name" :> <<"text", title.words>>)

\* The title is before the sections, where it is neither part of one nor lost in it.
TitleComesFirst == Titles # {} /\ \A i \in Titles, j \in Sections : i < j

\* A parse without errors sets what the file says and nothing else: each section
\* means what it means alone, read line by line (markdown-parser.js: the passes
\* rewrite nodes that the passes before them have made).
CleanParseIsFaithful ==
    Done /\ result.errors = <<>> /\ TitleComesFirst => result.data = Reference

\* A mistake hides no other section: each one is a value, has an error within
\* its lines, or was only comments.  A date is the exception that the code
\* makes: a relationship that failed and has a property of that name sets it to
\* undefined (stringify-boast.js visits what the failed section still holds).
EverySectionAccounted ==
    Done => \A i \in Sections :
        \/ ErrorsIn(i) # {}
        \/ Found(i) # 0 /\ KeyOf(i) \in DOMAIN result.data
        \/ Found(i) # 0 /\ OnlyComments(i)
        \/ \E j \in Sections : /\ j > i /\ ErrorsIn(j) # {} /\ Found(j) # 0
                               /\ Resolve(KeyOf(i), Properties[Found(j)].properties) # 0

\* What has an error is not sent: a value is what the first section of its
\* name says, and none of the errors is about that section.
NoValueBesideItsError ==
    Done => \A key \in DOMAIN result.data \ {"name", "description"} :
        \E i \in Sections : /\ IsFirst(i) /\ KeyOf(i) = key
                          /\ ErrorsIn(i) = {}
                          /\ result.data[key] = Says(i)

\* The lexer agrees with reading by lines: on the definitions, on whether a text
\* is sound, and on the line that is at fault.
DefinitionsReadByLine ==
    pass = 1 => \A i \in DOMAIN document :
        LET text == DividePropertyDefinition(document[i].words).propDefs
            parsed == ParsePropertyDefinition(text, 1)
        IN document[i].type = "paragraph" =>
               IF DefinitionIsSound(text)
               THEN /\ parsed.fault = NoFault
                    /\ [k \in DOMAIN parsed.properties |-> <<parsed.properties[k].key, parsed.properties[k].value>>]
                          = DefinitionsByLine(text)
               ELSE parsed.fault # NoFault /\ parsed.fault.line = FirstUnsound(text)

\* A problem that stands under the root is reported: no later pass drops it, or
\* makes another of it.
Problems == {[message |-> tree[i].message, at |-> tree[i].at] : i \in {j \in DOMAIN tree : IsProblem(tree[j])}}
InSection(problem) == Sections # {} /\ problem.at.block \in {0} \union Min(Sections)..Len(document)
ProblemsAreKept ==
    [][/\ (\A problem \in Problems : pass > 2 \/ ~InSection(problem) => problem \in Problems') \/ result'.rejected
       /\ (Passes[pass] = "stringify") => Problems \subseteq Range(result'.errors)]_vars
=============================================================================
