----------------------------- MODULE MCLibcCalls -----------------------------
EXTENDS LibcCalls

Small == 97
Other == 98
Capital == 65

\* Every flag alone, and pairs that act on the same character.
Flags == {{}, {"pathname"}, {"noescape"}, {"period"}, {"leading_dir"}, {"casefold"},
          {"pathname", "period"}, {"pathname", "leading_dir"}, {"pathname", "noescape"},
          {"noescape", "casefold"}, {"period", "leading_dir"}}

\* Pieces of patterns: a text, and its atoms with and without escapes.
Piece(text, atoms) == [text |-> text, atoms |-> [f \in Flags |-> atoms]]
EscapePiece(text, escaped, plain) ==
  [text |-> text, atoms |-> [f \in Flags |-> IF Escaping(f) THEN escaped ELSE plain]]
Char(c) == Piece(<<c>>, <<Literal(c)>>)

Plain == {Piece(<<Star>>, <<AnyText>>), Piece(<<Query>>, <<NoneOf({})>>),
          Char(Small), Char(Slash), Char(Period)}
Brackets == {
  Piece(<<Open, Small, Other, Close>>, <<OneOf({Small, Other})>>),          \* [ab]
  Piece(<<Open, Bang, Small, Close>>, <<NoneOf({Small})>>),                 \* [!a]
  Piece(<<Open, Small, Dash, Other, Close>>, <<OneOf(Small..Other)>>),      \* [a-b]
  Piece(<<Open, Close, Small, Close>>, <<OneOf({Close, Small})>>),          \* []a]
  Piece(<<Open, Small, Dash, Close>>, <<OneOf({Small, Dash})>>),            \* [a-]
  Piece(<<Open, Period, Close>>, <<OneOf({Period})>>),                      \* [.]
  EscapePiece(<<Open, Escape, Close, Small, Close>>, <<OneOf({Close, Small})>>,
              <<OneOf({Escape}), Literal(Small), Literal(Close)>>)}         \* [\]a]
Escapes == {
  EscapePiece(<<Escape, Star>>, <<Literal(Star)>>, <<Literal(Escape), AnyText>>),
  Char(Capital)}
\* A bracket that nothing closes stands for itself.
Ends == {Char(Open),
         EscapePiece(<<Escape, Open>>, <<Literal(Open)>>, <<Literal(Escape), Literal(Open)>>)}

Joined(q, r) == [text |-> q.text \o r.text,
                 atoms |-> [f \in Flags |-> q.atoms[f] \o r.atoms[f]]]
Every == Plain \cup Brackets \cup Escapes
MCPatterns ==
  LET Empty == Piece(<< >>, << >>)
      two == {Joined(q, r) : q \in Every \cup {Empty}, r \in Every}
  IN {Empty} \cup two \cup {Joined(q, Joined(r, t)) : q, r, t \in Plain}
     \cup {Joined(q, r) : q \in Every, r \in Ends}

MCSubjects == SeqOf({Small, Slash, Period}, 3)
              \cup {<<Capital>>, <<Star>>, <<Close>>, <<Escape, Small>>, <<Dash, Open>>,
                    <<Escape, Small, Close>>, <<Open>>, <<Other, Capital>>}
MCRoutines == Bounded \cup ByChar
              \cup {"strcpy", "stpcpy", "strcmp", "strcasecmp", "strlen", "strcspn",
                    "strpbrk", "strstr", "strtok_r"}
\* White space, a sign, digits that are legal in some bases, and prefix letters.
MCTexts == SeqOf({32, 45, 48, 49, 56, 98, 120}, 4)
MCBytes == {0, Capital, Small}

\* Arguments of getopt.
Words == {<<"-", "a">>, <<"-", "a", "b">>, <<"-", "a", "a">>, <<"-", "b">>, <<"-", "b", "x">>,
          <<"-", "c">>, <<"-", "c", "x">>, <<"-", "z", "a">>, <<"x">>, <<"-">>, <<"-", "-">>,
          <<"-", ":">>}
LongWords ==
  {<<"-", "-">> \o w : w \in {<<"l", "i">>, <<"l">>, <<"l", "e">>, <<"l", "e", "=", "x">>,
                              <<"o">>, <<"o", "=", "x">>, <<"l", "i", "=", "x">>, <<"z">>}}
OnlyWords == {<<"-", "l", "i">>, <<"-", "o", "p">>, <<"-", "o", "p", "=", "x">>}
LongTable ==
  <<[name |-> <<"l", "i">>, arg |-> "no", val |-> "li"],
    [name |-> <<"l", "e", "t">>, arg |-> "required", val |-> "let"],
    [name |-> <<"o", "p">>, arg |-> "optional", val |-> "op"]>>

Vectors(ws) == {<<<<"p">>>> \o v : v \in UNION {[1..n -> ws] : n \in 0..2}}
MCCommands ==
  LET Of(kind, argvs, table) ==
        {[kind |-> kind, argv |-> v, optstring |-> os, longopts |-> table] :
           v \in argvs, os \in {<<"a", "b", ":", "c", ":", ":">>, <<":", "b", ":", "a">>}}
  IN Of("getopt", Vectors(Words), << >>)
     \cup Of("getopt_long", Vectors(LongWords \cup {<<"-", "a", "b">>, <<"x">>, <<"-", "-">>}), LongTable)
     \cup Of("getopt_long_only", Vectors(OnlyWords \cup LongWords \cup {<<"-", "b">>, <<"-", "a">>, <<"x">>}), LongTable)
MCOthers ==
  {[kind |-> k, argv |-> v, optstring |-> <<"a", "b", ":">>, longopts |-> LongTable] :
     k \in {"getopt", "getopt_long"}, v \in {<<<<"p">>, <<"-", "a", "a">>>>, <<<<"p">>, <<"-", "b">>, <<"x">>>>}}
==============================================================================
