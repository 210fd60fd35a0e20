-------------------------- MODULE MCMarkdownParser --------------------------
(* Small instances of MarkdownParser. *)
EXTENDS MarkdownParser

Property(key, label, type, hasMany) ==
    [key |-> key, label |-> label, type |-> type, hasMany |-> hasMany, properties |-> <<>>]

RelationshipProperties ==
    <<Property("alpha", "", "Word", FALSE), Property("beta", "beta label", "Int", FALSE),
      Property("when", "", "Date", FALSE), Property("level", "", "Level", FALSE),
      Property("levels", "", "Level", TRUE)>>

SomeProperties ==
    <<Property("word", "word label", "Word", FALSE), Property("name", "name label", "Word", FALSE),
      Property("locked", "", "Word", FALSE), Property("flag", "flag label", "Boolean", FALSE),
      Property("when", "when label", "Date", FALSE), Property("count", "count label", "Int", FALSE),
      Property("time", "time label", "Time", FALSE), Property("text", "text label", "Document", FALSE),
      Property("level", "level label", "Level", FALSE), Property("levels", "levels label", "Level", TRUE),
      Property("odd", "odd label", "Nothing", FALSE),
      [Property("child", "child label", "Child", FALSE) EXCEPT !.properties = RelationshipProperties],
      [Property("children", "children label", "Child", TRUE) EXCEPT !.properties = RelationshipProperties]>>

Primitives == [t \in {"Code", "Word", "Document", "Boolean", "Int", "Date", "Time"} |->
                  IF t \in {"Code", "Word", "Document"} THEN "String" ELSE t]
Levels == [e \in {"Level"} |-> {"high", "low"}]

Define(code, rest) == <<code, "lf", "tab">> \o rest
\* Definitions that are right, and one for each way to be wrong after the lexer.
Definitions ==
    {<<"code1">>, <<"bad">>, Define("code1", <<"alpha", ":", "space", "hello">>),
     Define("code1", <<"alpha", ":", "hello", "lf", "tab", "level", ":", "high">>),
     Define("code1", <<"level", ":", "hello">>), Define("code1", <<"alpha", ":", "bad">>),
     Define("code1", <<"when", ":", "monday", "lf", "beta", ":", "hello">>),
     Define("code1", <<"levels", ":", "high", ",", "space", "low">>),
     Define("code1", <<"levels", ":", "hello", "lf", "beta", ":", "hello">>),
     Define("code1", <<"gamma", ":", "hello">>),
     Define("code1", <<"alpha", ":", "hello", "lf", "alpha", ":", "hello">>),
     Define("code1", <<"code", ":", "hello">>)}

Bodies(heading) ==
    CASE heading \in {"word", "word label", "name", "locked", "text"} ->
             {<<>>, <<Paragraph(<<"hello">>)>>, <<Paragraph(<<"bad">>)>>, <<Comment("<!---->")>>,
              <<Comment("<!---->"), Paragraph(<<"hello">>)>>, <<List(<<<<"hello">>>>)>>}
      [] heading \in {"flag", "when", "count"} ->
             {<<Paragraph(<<word>>)>> : word \in {"yes", "monday", "two", "hello"}} \union {<<>>}
      [] heading \in {"level", "levels"} ->
             {<<>>, <<Paragraph(<<"high">>)>>, <<Paragraph(<<"hello">>)>>, <<List(<<<<"high">>, <<"low">>>>)>>,
              <<List(<<<<"high">>, <<"hello">>>>)>>}
      [] heading \in {"child", "children"} ->
             {<<>>, <<Paragraph(<<"code1">>), Paragraph(<<"code2">>)>>}
             \union {<<Paragraph(text)>> : text \in Definitions}
             \union {<<List(<<<<"code2">>, text>>)>> : text \in Definitions}
      [] OTHER -> {<<Paragraph(<<"hello">>)>>}

Headings == {"word", "word label", "name", "locked", "flag", "when", "count", "text", "level", "levels",
             "time", "odd", "child", "children", "nobody", ""}
SectionsFor(headings) == UNION {{<<Heading(h)>> \o body : body \in Bodies(h)} : h \in headings}

Openings ==
    {<<Title(<<"hello">>)>>, <<Title(<<"hello">>), Paragraph(<<"hello">>)>>, <<InlineTitle(<<"hello">>)>>,
     <<Paragraph(<<"hello">>), Title(<<"hello">>)>>,
     <<Title(<<"hello">>), Title(<<"hello">>), Paragraph(<<"hello">>), Paragraph(<<"two">>), Paragraph(<<"hello">>)>>,
     <<>>}
Endings == {<<>>, <<Title(<<"hello">>)>>}

\* Every pair of sections, behind an opening; and openings and endings of one.
Pairs == {<<Title(<<"hello">>)>> \o a \o b : a \in SectionsFor(Headings), b \in SectionsFor(Headings)}
Singles == {o \o a \o e : o \in Openings, a \in SectionsFor(Headings) \union {<<>>}, e \in Endings}

\* Every short text behind a code.
Tokens == {"alpha", "beta", "Gamma", ":", "lf", "tab", "space", "cr"}
MaxTokens == 4
ShortTexts == UNION {[1..n -> Tokens] : n \in 0..MaxTokens}
LongTexts == {<<"alpha", ":">> \o text : text \in [1..MaxTokens -> Tokens]}
Texts == {<<Title(<<"hello">>), Heading("child"), Paragraph(<<"code1", "lf">> \o text)>> :
             text \in ShortTexts \union LongTexts}

AllDocuments == Pairs \union Singles \union Texts
=============================================================================
