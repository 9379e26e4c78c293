----------------------------- MODULE MCReading -----------------------------
(***************************************************************************)
(* Texts and tokens to read: every short text, programs printed with all   *)
(* kinds of white space between their tokens, and every short list of      *)
(* elements behind each word that means something.                         *)
(***************************************************************************)
EXTENDS Reading

-----------------------------------------------------------------------------
(* Characters.                                                             *)
MCCode == ("a" :> 97) @@ ("F" :> 70) @@ ("0" :> 48) @@ ("1" :> 49) @@ ("2" :> 50) @@ ("9" :> 57)
       @@ ("-" :> 45) @@ ("$" :> 36) @@ ("%" :> 37) @@ (" " :> 32) @@ ("\n" :> 10) @@ ("\t" :> 9)
       @@ (";" :> 59) @@ ("(" :> 40) @@ (")" :> 41) @@ ("[" :> 91) @@ ("\"" :> 34) @@ ("{" :> 123)
       @@ ("}" :> 125) @@ ("\\" :> 92) @@ ("_" :> 95) @@ (":" :> 58) @@ ("?" :> 63) @@ ("n" :> 110)
       @@ ("backquote" :> 96) @@ ("if" :> 105) @@ ("else" :> 101) @@ ("=" :> 61)
MCCtrlKey == ("a" :> 1) @@ ("F" :> 6) @@ ("n" :> 14)
MCAltKey == ("a" :> 30) @@ ("F" :> 33) @@ ("n" :> 49)

MCSpelling == ("else" :> <<"el", "se">>) @@ ("if" :> <<"if">>) @@ ("script#" :> <<"script", "#">>)
           @@ ("class#" :> <<"class", "#">>) @@ ("super#" :> <<"super", "#">>)
           @@ ("file#" :> <<"file", "#">>) @@ ("--" :> <<"-", "-">>) @@ ("-=" :> <<"-", "=">>)

TextsUpTo(n, chars) == UNION {[1..k -> chars] : k \in 0..n}
StartingWith(front, S) == {front \o t : t \in S}

(* Short texts, and longer ones of the characters that matter to lines,    *)
(* strings, keys and numbers.                                              *)
ShortTexts ==
  UNION {TextsUpTo(3, {"a", "0", "-", "$", "\"", "_", ":", "?", ";", "#", "if", "(", "[", " ", "\t", "\r",
                "\n", "backquote"}),
         TextsUpTo(4, {"#", "if", "a", ";", "\t", "\r", "\n"}),
         StartingWith(<<"#", "if", " ">>, TextsUpTo(3, {"a", ";", "\"", " ", "\r", "\n"})),
         {<<"#">> \o d \o <<" ", "a", "\n">> \o d : d \in {<<"el", "se">>, <<"end", "if">>, <<"if", "n", "def">>}},
         StartingWith(<<"\"">>, TextsUpTo(4, {"\"", "\\", "a", "n", "_", " ", "\r", "\n"})),
         StartingWith(<<"{">>, TextsUpTo(3, {"\"", "\\", "}", "F", "9"})),
         StartingWith(<<"backquote">>, TextsUpTo(3, {"^", "@", "#", "a", "-", "1", " "})),
         TextsUpTo(3, {"-", "$", "%", "0", "2", "9", "a", "F"})}

-----------------------------------------------------------------------------
(* Programs, as what is to be read from them.                              *)
Name == Leaf(Ident(<<"a">>, "none"))
Whole == Leaf(Number(-1))
Text == Leaf(String(<<"a", " ", "a">>))
Var == Node("var", <<Name>>)
Num == Node("const", <<Whole>>)
Str == Node("const", <<Text>>)
Index == Node("index", <<Name, Var>>)
Each(parts) == Node("each", parts)
Key(word) == Node("word", <<Leaf(Ident(Chars(word), "none"))>>)
Block(head, body) == Node("clause", <<head, Each(body)>>)
Args(parts) == Node("args", parts)
Rest(name) == Node("&rest", <<name>>)
Get == Node("get", <<Leaf(Ident(<<"a">>, "?"))>>)
Call(args) == Node("call", <<Leaf(Ident(<<"a">>, ":")), Args(args)>>)

Bodies == {<<>>, <<Var>>, <<Str, Var>>}
Clauses == {<<>>, <<Get>>, <<Call(<<Num>>), Get, Call(<<>>)>>, <<Call(<<Rest(Nothing)>>), Call(<<Var, Rest(Name)>>)>>}

(* The expressions that are made of given ones.                            *)
Around(E) == UNION {
  {Node("return", <<e>>) : e \in E \cup {Nothing}},
  {Node(w, <<n>>) : w \in {"break", "continue"}, n \in {Nothing, Whole}},
  {Node(w, <<e, n>>) : w \in {"breakif", "contif"}, e \in E, n \in {Nothing, Whole}},
  {Node("while", <<e, Each(body)>>) : e \in E, body \in Bodies},
  {Node("repeat", <<Each(<<e>>)>>) : e \in E},
  {Node("for", <<Each(<<Var>>), e, Each(<<e, Var>>), Each(body)>>) : e \in E, body \in Bodies},
  {Node("if", <<e, Each(<<e, e>>), other>>) :
          e \in E, other \in {Nothing, Node("parts", <<Key("else"), Each(<<Var>>)>>)}},
  {Node("cond", <<Each(<<Block(e, <<Var>>), Block(Key("else"), <<e>>)>>)>>) : e \in E},
  {Node("switch", <<e, Each(<<Block(Whole, <<e>>), Block(Text, <<>>)>>)>>) : e \in E},
  {Node("switchto", <<e, Each(<<Block(Nothing, <<e>>), Block(Key("else"), <<>>)>>)>>) : e \in E},
  {Node(w, <<Each(cs)>>) : w \in {"self", "super"}, cs \in Clauses},
  {Node("send", <<e, Each(cs)>>) : e \in E, cs \in Clauses \ {<<>>}},
  {Node("apply", <<e, Args(args)>>) : e \in E, args \in {<<>>, <<Num, Var>>, <<Rest(Name)>>}},
  {Node(w, <<v, e>>) : w \in {"=", "-="}, v \in {Var, Index}, e \in E},
  {Node(w, <<v>>) : w \in {"++", "--"}, v \in {Var, Index}},
  {Node("#", <<Name>>), Node("@", <<Index>>), Node("index", <<Name, Num>>)}}

(* What the second level is made of.                                       *)
Inner == {Var, Node("#", <<Name>>), Node("self", <<Each(<<Call(<<Num>>), Get>>)>>),
          Node("if", <<Var, Each(<<Num>>), Node("parts", <<Key("else"), Each(<<Var>>)>>)>>)}

Array == Node("array", <<Name, Whole>>)
Sign(params, temps) ==
  Node("signature", <<Name, Each(params),
                      IF temps = <<>> THEN Nothing ELSE Node("parts", <<Key("&tmp"), Each(temps)>>)>>)
Procedure(name, params, temps, body) == Node(name, <<Sign(params, temps), Each(body)>>)
Entry(parts) == Node("entry", parts)
Initially(values) == Node("parts", <<Key("="), values>>)
Variable(def, value) == Node("var", <<def, Whole, value>>)
Properties(entries) == Node("properties", <<Each(entries)>>)
Methods(names) == Node("methods", <<Each(names)>>)

Items ==
  {Procedure("procedure", ps, ts, <<Var>>) : ps \in {<<>>, <<Name, Name>>}, ts \in {<<>>, <<Array, Name>>}}
  \cup {Node("script#", <<Whole>>)}
  \cup {Node(w, <<Each(<<Entry(<<Name, Whole>>), Entry(<<Name, Whole>>)>>)>>) : w \in {"public", "selectors"}}
  \cup {Node("extern", <<Each(<<Entry(<<Name, Whole, Whole>>)>>)>>)}
  \cup {Node("globaldecl", <<Each(<<Entry(<<Array, Whole>>), Entry(<<Name, Whole>>)>>)>>)}
  \cup {Node(w, <<Each(<<Variable(Name, Nothing), Variable(Array, v)>>)>>) :
          w \in {"global", "local"}, v \in {Nothing, Initially(Whole), Initially(Node("values", <<Each(<<Whole, Text>>)>>))}}
  \cup {Node(w, <<Name, of, Each(<<Procedure("method", <<>>, <<>>, <<Num>>),
                                   Properties(<<Entry(<<Name, Text>>)>>), Methods(<<Name>>)>>)>>) :
          w \in {"class", "instance"}, of \in {Nothing, Node("parts", <<Key("of"), Name>>)}}
  \cup {Node("classdef", <<Name, Key("script#"), Whole, Key("class#"), Whole, Key("super#"), Whole,
                           Key("file#"), Text, Each(<<Properties(<<>>), Methods(<<Name, Name>>)>>)>>)}

Programs == {<<item>> : item \in Items}
         \cup {<<item, Node("script#", <<Whole>>), item>> : item \in Items}
         \cup {<<Procedure("procedure", <<>>, <<>>, <<e>>)>> : e \in Around({Num})}

Nested == {<<Procedure("procedure", <<>>, <<>>, <<e>>)>> : e \in Around(Inner)}

(* How a program is written: as trees, as tokens, as a text.               *)
Transparent == {"each", "parts", "nothing", "word", "args", "const", "var", "entry", "get", "call"}

RECURSIVE Written(_)
WrittenAll(nodes) == FlattenSeq([i \in 1..Len(nodes) |-> Written(nodes[i])])

(* A keyword is part of what it begins, unless the node has another name.  *)
Written(node) ==
  LET parts == WrittenAll(node.parts)
      open == IF node.node \in {"index", "array", "values"} THEN "[" ELSE "("
      word == IF node.node \in {"clause", "signature", "apply", "send", "index", "array", "values"}
              THEN <<>> ELSE <<TokenExpr(Ident(Chars(node.node), "none"))>>
      list(i) == ListExpr("(", Written(node.parts[i]))
  IN  CASE node.node = "leaf" -> <<TokenExpr(node.token)>>
        [] node.node \in Transparent -> parts
        [] node.node \in {"#", "@"} -> <<TokenExpr(Punct(node.node))>> \o parts
        [] node.node = "&rest" -> word \o parts
        [] node.node = "for" ->
             <<ListExpr("(", word \o <<list(1)>> \o Written(node.parts[2]) \o <<list(3)>>
                               \o Written(node.parts[4]))>>
        [] OTHER -> <<ListExpr(open, word \o parts)>>

RECURSIVE Flat(_)
TokensOf(exprs) == FlattenSeq([i \in 1..Len(exprs) |-> Flat(exprs[i])])
Flat(tree) ==
  IF IsList(tree) THEN <<Punct(tree.open)>> \o TokensOf(tree.elems) \o <<Punct(Closing[tree.open])>>
  ELSE <<tree.token>>

CharsOf(token) ==
  CASE token.kind = "ident" ->
         token.name \o (IF token.trailer = "none" THEN <<>> ELSE <<token.trailer>>)
    [] token.kind = "number" -> IF token.num < 0 THEN <<"-", "1">> ELSE <<"1">>
    [] token.kind = "string" -> <<"\"">> \o token.chars \o <<"\"">>
    [] token.kind = "punct" -> <<token.punct>>

Separators == {<<" ">>, <<"\t">>, <<"\r">>, <<"\r", "\n">>, <<"\n", " ">>, <<" ", ";", "a", "\r">>,
               <<";", "(", "\r", "\n", "\t">>}
PrintWith(sep, ts) == sep \o FlattenSeq([i \in 1..Len(ts) |-> CharsOf(ts[i]) \o sep])
PrintedWith(sep, program) == PrintWith(sep, TokensOf(WrittenAll(program)))

MCContents(from) == IF from.kind = "text" THEN from.text ELSE PrintedWith(from.sep, from.items)

MCSources ==
  UNION {{[kind |-> "text", text |-> t] : t \in ShortTexts},
         {[kind |-> "program", sep |-> sep, items |-> p] : sep \in Separators, p \in Programs},
         {[kind |-> "program", sep |-> sep, items |-> p] : sep \in {<<"\t">>, <<"\r">>}, p \in Nested}}

-----------------------------------------------------------------------------
(* Token streams: lists of a word and a few elements.                      *)
Tok(word) == Ident(Chars(word), "none")
Sel(trailer) == Ident(<<"a">>, trailer)
Paren(ts) == <<Punct("(")>> \o ts \o <<Punct(")")>>
Bracket(ts) == <<Punct("[")>> \o ts \o <<Punct("]")>>
a1 == <<Tok("a")>>
n1 == <<Number(1)>>

ExprElems == <<a1, n1, <<Tok("else")>>, <<Sel(":")>>, <<Sel("?")>>, <<Punct("#")>>, <<Tok("&rest")>>,
               Paren(a1), Paren(<<Tok("else")>> \o a1), Bracket(a1 \o n1)>>
ExprWords == {"a", "return", "break", "contif", "while", "repeat", "if", "cond", "switch", "switchto",
              "self", "=", "++"}
ForElems == <<a1, Paren(a1), Paren(a1 \o a1), n1>>

ItemElems == <<a1, n1, <<String(<<"a">>)>>, <<Tok("=")>>, <<Tok("of")>>, Bracket(a1 \o n1), Bracket(n1),
               Paren(a1), Paren(a1 \o <<Tok("&tmp")>> \o a1), Paren(<<Tok("properties")>> \o a1 \o n1),
               Paren(<<Tok("methods")>> \o a1)>>
ItemWords == {"script#", "public", "extern", "globaldecl", "global", "procedure", "class", "a"}
ClassDeclFront ==
  <<Tok("a"), Tok("script#"), Number(1), Tok("class#"), Number(1), Tok("super#"), Number(1),
    Tok("file#"), String(<<"a">>)>>

Lists == <<Paren(<<Tok("script#")>> \o n1), Paren(<<Tok("script#")>> \o a1), Paren(a1), <<Tok("procedure")>>,
           <<Punct("(")>>, <<Punct(")")>>, <<Punct("]")>>>>

(* A stream, as the numbers of its elements, and its tokens.               *)
MCStreams ==
  UNION {[in : {"procedure"}, word : ExprWords, elems : TextsUpTo(3, 1..Len(ExprElems))],
         [in : {"procedure"}, word : {"for"}, elems : TextsUpTo(4, 1..Len(ForElems))],
         [in : {"script"}, word : ItemWords \cup {"classdef"}, elems : TextsUpTo(3, 1..Len(ItemElems))],
         [in : {"script"}, word : {"none"}, elems : TextsUpTo(3, 1..Len(Lists))]}

MCReceived(from) ==
  LET elems == CASE from.word \in ExprWords /\ from.in = "procedure" -> ExprElems
                 [] from.word = "for" -> ForElems
                 [] from.word = "none" -> Lists
                 [] OTHER -> ItemElems
      all == FlattenSeq([i \in 1..Len(from.elems) |-> elems[from.elems[i]]])
      list == Paren(<<Tok(from.word)>> \o (IF from.word = "classdef" THEN ClassDeclFront ELSE <<>>) \o all)
  IN  CASE from.word = "none" -> all
        [] from.word # "none" /\ from.in = "script" -> list
        [] OTHER -> Paren(<<Tok("procedure")>> \o Paren(a1) \o list)

-----------------------------------------------------------------------------
(* A token does not depend on what stands around it: its own text, read    *)
(* alone, is that token, and between two tokens there is nothing but       *)
(* white space and comments (the ranges that diagnostics point at).        *)
Alone(from, to) ==
  LET own == SubSeq(text, from, to)
  IN  IF IsDirective(own) THEN ReadPreprocessor(own) ELSE ReadToken(own)

RECURSIVE IsBlank(_)
IsBlank(t) == t = <<>> \/ (Skips(t) /\ IsBlank(Skipped(t)))

TokensStandAlone ==
  /\ \A i \in 1..Len(ranges) :
       /\ Alone(ranges[i].from, ranges[i].to) = Read(tokens[i], <<>>)
       /\ IsBlank(SubSeq(text, IF i = 1 THEN 1 ELSE ranges[i - 1].to + 1, ranges[i].from - 1))
  /\ scan = "done" /\ text # <<>> =>
       IsBlank(SubSeq(text, IF ranges = <<>> THEN 1 ELSE Last(ranges).to + 1, Len(text)))

(* A directive is the first of its line, and the last: the scanner's own   *)
(* account of line starts agrees with the table of lines that diagnostics  *)
(* use, whichever line ends a text has.                                    *)
DirectivesFillLines ==
  \A i \in 1..Len(ranges) :
    tokens[i].kind = "directive" =>
      /\ Column(text, ranges[i].from) = 0
      /\ \A j \in 1..Len(ranges) :
           j # i => LineIndex(text, ranges[j].from) # LineIndex(text, ranges[i].from)

(* A program is read as it is written, from its characters to its items,   *)
(* whatever white space, comments and line ends stand between its tokens.  *)
ReadAsWritten ==
  Ended /\ text # <<>> /\ source.kind = "program" =>
    reading = "done" /\ items = source.items

(* Nothing that is written is left out or moved: what was accepted, when   *)
(* it is written again, is the list it was read from.  (Round or square    *)
(* brackets are the same to most lists; and what is behind a complete jump *)
(* or assignment is not looked at, so these are not asked.)                *)
NotLookedAt == {"break", "breakif", "continue", "contif", "++", "--"} \cup Assignments

Plainly(ts) == [i \in 1..Len(ts) |->
                  IF ts[i] = Punct("[") THEN Punct("(")
                  ELSE IF ts[i] = Punct("]") THEN Punct(")") ELSE ts[i]]

ReadsBack ==
  reading = "done" /\ (\A i \in 2..Len(tokens) :
                         tokens[i - 1] = Punct("(") => \A w \in NotLookedAt : tokens[i] # Tok(w))
    => Plainly(TokensOf(WrittenAll(items))) = Plainly(tokens)

(* Whatever the text, every step takes characters, tokens or lists that no *)
(* step has taken, or goes on to the next stage; with no deadlock, nothing *)
(* is read for ever.  No parser that is repeated fails to take something:  *)
(* only the scanner throws (token_readers.cpp:207).                        *)
Stages == [text |-> 0, lists |-> 1, items |-> 2, done |-> 3, failed |-> 3, crashed |-> 3]

EveryStepTakes ==
  [][/\ \/ Len(stream') < Len(stream) \/ scan' # scan
        \/ Len(left') < Len(left) \/ turn' > turn
        \/ Stages[reading'] > Stages[reading]
     /\ reading' = "crashed" => scan = "crashed"]_vars

=============================================================================
