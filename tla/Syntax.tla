------------------------------- MODULE Syntax -------------------------------
(***************************************************************************)
(* How lists become items and expressions (scic/parsers/sci).              *)
(*                                                                         *)
(* A parser is a record: op says which combinator it is (parser_common.hpp *)
(* and the special cases of expr_parsers.cpp), and Parse applies it to the *)
(* elements of a list.  So the grammar of items and of the builtin forms   *)
(* is data, one definition for each parser of the code.                    *)
(***************************************************************************)
EXTENDS Integers, SequencesExt, FiniteSetsExt, TLC, Tokens

CONSTANT
  Spelling   (* the characters of a word that is not one syllable          *)

Chars(word) == IF word \in DOMAIN Spelling THEN Spelling[word] ELSE <<word>>

(* Trees: a token, or a list with the bracket that opens it.               *)
NoToken == [kind |-> "none"]
TokenExpr(token) == [open |-> "none", token |-> token, elems |-> <<>>]
ListExpr(open, elems) == [open |-> open, token |-> NoToken, elems |-> elems]
IsList(tree) == tree.open # "none"

(* What parsers make: a leaf is a token, a node has parts, in the order in *)
(* which the list has them.                                                *)
Leaf(token) == [node |-> "leaf", token |-> token, parts |-> <<>>]
Node(name, parts) == [node |-> name, token |-> NoToken, parts |-> parts]
Nothing == Node("nothing", <<>>)

-----------------------------------------------------------------------------
(* Predicates on the elements of a list.                                   *)
IsSimpleIdent(tree) == tree.token.kind = "ident" /\ tree.token.trailer = "none"
IsWord(tree, word) == IsSimpleIdent(tree) /\ tree.token.name = Chars(word)
IsSelectorIdent(tree) == tree.token.kind = "ident" /\ tree.token.trailer # "none"
IsConst(tree) == tree.token.kind \in {"number", "string"}
IsPunct(tree, c) == tree.token.kind = "punct" /\ tree.token.punct = c

StartsWithWord(exprs, word) == exprs # <<>> /\ IsWord(exprs[1], word)

(* The place of the first element of a kind, or the length and one.        *)
FindWord(exprs, word) ==
  LET at == {i \in 1..Len(exprs) : IsWord(exprs[i], word)}
  IN  IF at = {} THEN Len(exprs) + 1 ELSE Min(at)

FindSelector(exprs) ==
  LET at == {i \in 1..Len(exprs) : IsSelectorIdent(exprs[i])}
  IN  IF at = {} THEN Len(exprs) + 1 ELSE Min(at)

Before(exprs, i) == SubSeq(exprs, 1, i - 1)
Behind(exprs, i) == SubSeq(exprs, i, Len(exprs))

-----------------------------------------------------------------------------
(* Combinators.                                                            *)
Ident1 == [op |-> "ident"]
Number1 == [op |-> "number"]
String1 == [op |-> "string"]
Const1 == [op |-> "const"]
Word1(word) == [op |-> "word", word |-> word]

Expr == [op |-> "expr"]
LValue == [op |-> "lvalue"]
CallArgs == [op |-> "args"]
SendClause == [op |-> "clause"]

InTurn(parsers) == [op |-> "turn", of |-> parsers]
Until(parser) == [op |-> "until", of |-> parser]
Complete(parser) == [op |-> "complete", of |-> parser]
InList(parser) == [op |-> "list", of |-> parser]
ListItem(parser) == InList(Complete(parser))
IfMore(parser) == [op |-> "more", of |-> parser]
IfWord(word, parser) == [op |-> "if", word |-> word, of |-> parser]
As(name, parser) == [op |-> "as", name |-> name, of |-> parser]

(* A parser for the elements before a word.                                *)
UpToWord(word, parser) == [op |-> "before", word |-> word, of |-> parser]

(* A list in square brackets, or else a token.                             *)
Brackets(parser, other) == [op |-> "brackets", of |-> parser, other |-> other]

(* What is parsed depends on the identifier in front.                      *)
Keyword(parsers) == [op |-> "keyword", of |-> parsers]

(* Clauses with one that begins with "else" only at the end.               *)
ElseLast(parser) == [op |-> "elselast", of |-> parser]

(* Blocks of a class: none of them twice, some of them at least once.      *)
Blocks(needed, allowed, parser) ==
  [op |-> "blocks", needed |-> needed, allowed |-> allowed, of |-> parser]

-----------------------------------------------------------------------------
(* Expressions.                                                            *)
ExprList == Until(Expr)

(* The expressions before an "else", which one of them may be part of.     *)
ThenExprs == [op |-> "then"]

Clause(head) == As("clause", InTurn(<<head, ExprList>>))
ElseOr(parser) == [op |-> "either", word |-> "else", of |-> parser]

LoopExit(name, parsers) == As(name, InTurn(Append(parsers, IfMore(Number1))))
AssignExpr(name) == As(name, InTurn(<<LValue, Expr>>))
IncDecExpr(name) == As(name, LValue)

(* Mutant: whatever is left behind the body of a loop does not matter.     *)
ParseForExpr_Update ==
  As("for", InTurn(<<InList(Expr), Expr, InList(Expr), Complete(ExprList)>>))

ParseForExpr ==
  As("for", InTurn(<<ListItem(ExprList), Expr, ListItem(ExprList), Complete(ExprList)>>))

ParseIfExpr ==
  As("if", InTurn(<<Expr, ThenExprs, IfWord("else", InTurn(<<Word1("else"), ExprList>>))>>))

ParseCondExpr == As("cond", ElseLast(Until(InList(Clause(ElseOr(Expr))))))
ParseSwitchExpr ==
  As("switch", InTurn(<<Expr, ElseLast(Until(InList(Clause(ElseOr(Const1)))))>>))
ParseSwitchToExpr ==
  As("switchto",
     InTurn(<<Expr, ElseLast(Until(InList(Clause(IfWord("else", Word1("else"))))))>>))

ParseSendExpr(name) == As(name, Until(SendClause))

Assignments == {"=", "+=", "-=", "*=", "/=", "mod=", "&=", "|=", "^=", ">>=", "<<="}

Builtins ==
     ("return" :> As("return", IfMore(Complete(Expr))))
  @@ ("break" :> LoopExit("break", <<>>)) @@ ("breakif" :> LoopExit("breakif", <<Expr>>))
  @@ ("continue" :> LoopExit("continue", <<>>)) @@ ("contif" :> LoopExit("contif", <<Expr>>))
  @@ ("while" :> As("while", InTurn(<<Expr, ExprList>>)))
  @@ ("repeat" :> As("repeat", ExprList))
  @@ ("for" :> ParseForExpr) @@ ("if" :> ParseIfExpr) @@ ("cond" :> ParseCondExpr)
  @@ ("switch" :> ParseSwitchExpr) @@ ("switchto" :> ParseSwitchToExpr)
  @@ ("self" :> ParseSendExpr("self")) @@ ("super" :> ParseSendExpr("super"))
  @@ [w \in Assignments |-> AssignExpr(w)]
  @@ [w \in {"++", "--"} |-> IncDecExpr(w)]

-----------------------------------------------------------------------------
(* Items.                                                                  *)
VarDef == Brackets(As("array", InTurn(<<Ident1, Number1>>)), Ident1)
InitialValue == IfWord("=", InTurn(<<Word1("="), Brackets(As("values", Until(Const1)), Const1)>>))
ModuleVars(name) == As(name, Until(As("var", InTurn(<<VarDef, Number1, InitialValue>>))))

(* ParseProcDef: "&tmp" parts the parameters from the temporaries.         *)
ProcDef(name) ==
  As(name, InTurn(<<ListItem(As("signature",
                      InTurn(<<Ident1, UpToWord("&tmp", Until(Ident1)),
                               IfWord("&tmp", InTurn(<<Word1("&tmp"), Until(VarDef)>>))>>))),
                    ExprList>>))

Entries(parsers) == Until(As("entry", InTurn(parsers)))

ClassDefInnerItem ==
  Keyword(   ("properties" :> As("properties", Entries(<<Ident1, Const1>>)))
          @@ ("methods" :> As("methods", Until(Ident1)))
          @@ ("method" :> ProcDef("method")))

ClassDef(name) ==
  As(name, InTurn(<<Ident1, IfWord("of", InTurn(<<Word1("of"), Ident1>>)),
                    Blocks({"properties"}, {"properties", "methods", "method"},
                           Until(InList(ClassDefInnerItem)))>>))

ClassDecl ==
  As("classdef",
     InTurn(<<Ident1, Word1("script#"), Number1, Word1("class#"), Number1,
              Word1("super#"), Number1, Word1("file#"), String1,
              Blocks({"properties", "methods"}, {"properties", "methods"},
                     Until(ListItem(ClassDefInnerItem)))>>))

ParseScriptNumItem == As("script#", Complete(Number1))
ParsePublicItem == As("public", Entries(<<Ident1, Number1>>))
ParseExternItem == As("extern", Entries(<<Ident1, Number1, Number1>>))
ParseGlobalDeclItem == As("globaldecl", Entries(<<VarDef, Number1>>))
ParseSelectorsItem == As("selectors", Entries(<<Ident1, Number1>>))

TopLevelParsers ==
     ("script#" :> ParseScriptNumItem) @@ ("public" :> ParsePublicItem)
  @@ ("extern" :> ParseExternItem) @@ ("globaldecl" :> ParseGlobalDeclItem)
  @@ ("global" :> ModuleVars("global")) @@ ("local" :> ModuleVars("local"))
  @@ ("procedure" :> ProcDef("procedure"))
  @@ ("class" :> ClassDef("class")) @@ ("instance" :> ClassDef("instance"))
  @@ ("classdef" :> ClassDecl) @@ ("selectors" :> ParseSelectorsItem)

ItemParser == Keyword(TopLevelParsers)

-----------------------------------------------------------------------------
RECURSIVE Parse(_, _)

(* The first element, if it is what is asked for.                          *)
One(exprs, fits) == IF fits THEN Read(Leaf(exprs[1].token), Tail(exprs)) ELSE Error

(* The parts of a node: those of a nameless one are its own.               *)
PartsOf(value) == IF value.node = "parts" THEN value.parts ELSE <<value>>

(* ASSIGN_OR_RETURN, one after the other.                                  *)
RECURSIVE ParseInTurn(_, _, _)
ParseInTurn(parsers, exprs, parts) ==
  IF parsers = <<>> THEN Read(Node("parts", parts), exprs)
  ELSE LET first == Parse(Head(parsers), exprs)
       IN  IF first.how # "ok" THEN first
           ELSE ParseInTurn(Tail(parsers), first.rest, Append(parts, first.value))

(* ParseUntilComplete: a parser that takes nothing would never end.        *)
RECURSIVE ParseUntil(_, _, _)
ParseUntil(parser, exprs, parts) ==
  IF exprs = <<>> THEN Read(Node("each", parts), exprs)
  ELSE LET first == Parse(parser, exprs)
       IN  IF first.how # "ok" THEN first
           ELSE IF first.rest = exprs THEN Throws
           ELSE ParseUntil(parser, first.rest, Append(parts, first.value))

RECURSIVE ParseThen(_, _)
ParseThen(exprs, parts) ==
  IF exprs = <<>> \/ StartsWithWord(exprs, "else") THEN Read(Node("each", parts), exprs)
  ELSE LET first == Parse(Expr, exprs)
       IN  IF first.how # "ok" THEN first ELSE ParseThen(first.rest, Append(parts, first.value))

(* ParseCallArgs: &rest and perhaps a name, and then nothing any more.     *)
RECURSIVE ParseArgs(_, _)
ParseArgs(exprs, parts) ==
  LET first == Parse(Expr, exprs)
  IN  CASE exprs = <<>> -> Read(Node("args", parts), exprs)
        [] StartsWithWord(exprs, "&rest") ->
             LET name == Parse(IfMore(Ident1), Tail(exprs))
             IN  IF name.how # "ok" THEN name
                 ELSE IF name.rest # <<>> THEN Error
                 ELSE Read(Node("args", Append(parts, Node("&rest", <<name.value>>))), <<>>)
        [] exprs # <<>> /\ ~StartsWithWord(exprs, "&rest") ->
             IF first.how # "ok" THEN first ELSE ParseArgs(first.rest, Append(parts, first.value))

(* A clause goes up to the next selector.                                  *)
ClauseEnd(exprs) == FindSelector(exprs)

ParseSendClause(exprs) ==
  LET selector == exprs[1].token
      more == Tail(exprs)
      args == Parse(CallArgs, Before(more, ClauseEnd(more)))
      rest == Behind(more, ClauseEnd(more))
  IN  CASE exprs = <<>> -> Error
        [] exprs # <<>> /\ ~IsSelectorIdent(exprs[1]) -> Error
        [] exprs # <<>> /\ IsSelectorIdent(exprs[1]) /\ selector.trailer = "?" ->
             IF Before(more, ClauseEnd(more)) # <<>> THEN Error
             ELSE Read(Node("get", <<Leaf(selector)>>), rest)
        [] exprs # <<>> /\ IsSelectorIdent(exprs[1]) /\ selector.trailer = ":" ->
             IF args.how # "ok" THEN args
             ELSE Read(Node("call", <<Leaf(selector), args.value>>), rest)

(* ParseSciListExpr: a builtin form, a send, or a call.  What a builtin    *)
(* leaves of the list is not looked at.                                    *)
BuiltinOf(exprs) == {w \in DOMAIN Builtins : StartsWithWord(exprs, w)}

ParseSciListExpr(exprs) ==
  LET target == IF exprs # <<>> /\ IsSimpleIdent(exprs[1])
                THEN Read(Node("var", <<Leaf(exprs[1].token)>>), Tail(exprs))
                ELSE Parse(Expr, exprs)
      rest == Parse(IF target.rest # <<>> /\ IsSelectorIdent(target.rest[1])
                    THEN Until(SendClause) ELSE CallArgs, target.rest)
  IN  IF BuiltinOf(exprs) # {}
      THEN Parse(Builtins[CHOOSE w \in BuiltinOf(exprs) : TRUE], Tail(exprs))
      ELSE IF target.how # "ok" THEN target
      ELSE IF rest.how # "ok" THEN rest
      ELSE Read(Node(IF rest.value.node = "each" THEN "send" ELSE "apply",
                     <<target.value, rest.value>>), rest.rest)

ArrayIndexExpr == Complete(As("index", InTurn(<<Ident1, Expr>>)))

(* One element: a list by its bracket, a token by its kind.                *)
ParseElement(exprs) ==
  LET tree == exprs[1]
      inner == IF tree.open = "(" THEN ParseSciListExpr(tree.elems)
               ELSE Parse(ArrayIndexExpr, tree.elems)
  IN  IF IsList(tree)
      THEN IF inner.how # "ok" THEN inner ELSE Read(inner.value, Tail(exprs))
      ELSE CASE IsSimpleIdent(tree) -> Read(Node("var", <<Leaf(tree.token)>>), Tail(exprs))
             [] IsConst(tree) -> Read(Node("const", <<Leaf(tree.token)>>), Tail(exprs))
             [] OTHER -> Error

ParseExpr(exprs) ==
  CASE exprs = <<>> -> Error
    [] exprs # <<>> /\ IsPunct(exprs[1], "#") -> Parse(As("#", Ident1), Tail(exprs))
    [] exprs # <<>> /\ IsPunct(exprs[1], "@") -> Parse(As("@", LValue), Tail(exprs))
    [] OTHER -> ParseElement(exprs)

(* A variable or an element of an array.                                   *)
ParseLValueExpr(exprs) ==
  IF exprs = <<>> THEN Error
  ELSE IF IsSimpleIdent(exprs[1]) \/ exprs[1].open = "[" THEN ParseElement(exprs) ELSE Error

(* Else clauses, and blocks of a class, among the parts of a value.        *)
IsElse(clause) == clause.parts[1].node = "word"

BlocksFit(p, parts) ==
  LET kinds == {parts[i].node : i \in 1..Len(parts)}
      of(kind) == {i \in 1..Len(parts) : parts[i].node = kind}
  IN  /\ p.needed \subseteq kinds /\ kinds \subseteq p.allowed
      /\ \A kind \in {"properties", "methods"} : Cardinality(of(kind)) <= 1

Parse(p, exprs) ==
  CASE p.op = "ident" -> One(exprs, exprs # <<>> /\ IsSimpleIdent(exprs[1]))
    [] p.op = "number" -> One(exprs, exprs # <<>> /\ exprs[1].token.kind = "number")
    [] p.op = "string" -> One(exprs, exprs # <<>> /\ exprs[1].token.kind = "string")
    [] p.op = "const" -> One(exprs, exprs # <<>> /\ IsConst(exprs[1]))
    [] p.op = "word" ->
         IF StartsWithWord(exprs, p.word)
         THEN Read(Node("word", <<Leaf(exprs[1].token)>>), Tail(exprs)) ELSE Error
    [] p.op = "expr" -> ParseExpr(exprs)
    [] p.op = "lvalue" -> ParseLValueExpr(exprs)
    [] p.op = "args" -> ParseArgs(exprs, <<>>)
    [] p.op = "clause" -> ParseSendClause(exprs)
    [] p.op = "turn" -> ParseInTurn(p.of, exprs, <<>>)
    [] p.op = "until" -> ParseUntil(p.of, exprs, <<>>)
    [] p.op = "then" -> ParseThen(exprs, <<>>)
    [] p.op = "complete" ->
         LET all == Parse(p.of, exprs)
         IN  IF all.how = "ok" /\ all.rest # <<>> THEN Error ELSE all
    [] p.op = "list" ->
         IF exprs = <<>> \/ ~IsList(exprs[1]) THEN Error
         ELSE LET inner == Parse(p.of, exprs[1].elems)
              IN  IF inner.how = "ok" THEN Read(inner.value, Tail(exprs)) ELSE inner
    [] p.op = "brackets" ->
         IF exprs = <<>> \/ ~IsList(exprs[1]) THEN Parse(p.other, exprs)
         ELSE IF exprs[1].open # "[" THEN Error
         ELSE Parse(ListItem(p.of), exprs)
    [] p.op = "more" -> IF exprs = <<>> THEN Read(Nothing, exprs) ELSE Parse(p.of, exprs)
    [] p.op = "if" ->
         IF StartsWithWord(exprs, p.word) THEN Parse(p.of, exprs) ELSE Read(Nothing, exprs)
    [] p.op = "either" ->
         Parse(IF StartsWithWord(exprs, p.word) THEN Word1(p.word) ELSE p.of, exprs)
    [] p.op = "before" ->
         LET at == FindWord(exprs, p.word)
             front == Parse(p.of, Before(exprs, at))
         IN  IF front.how = "ok" THEN Read(front.value, Behind(exprs, at)) ELSE front
    [] p.op = "as" ->
         LET value == Parse(p.of, exprs)
         IN  IF value.how = "ok" THEN Read(Node(p.name, PartsOf(value.value)), value.rest)
             ELSE value
    [] p.op = "keyword" ->
         LET words == {w \in DOMAIN p.of : StartsWithWord(exprs, w)}
         IN  IF words = {} THEN Error
             ELSE Parse(p.of[CHOOSE w \in words : TRUE], Tail(exprs))
    [] p.op = "elselast" ->
         LET clauses == Parse(p.of, exprs)
         IN  IF clauses.how = "ok" /\ \E i \in 1..(Len(clauses.value.parts) - 1) :
                                         IsElse(clauses.value.parts[i])
             THEN Error ELSE clauses
    [] p.op = "blocks" ->
         LET blocks == Parse(p.of, exprs)
         IN  IF blocks.how = "ok" /\ ~BlocksFit(p, blocks.value.parts) THEN Error ELSE blocks

(* ParseListExpr(ParseItem), of one of the lists of a script.              *)
ParseItem(tree) == Parse(InList(ItemParser), <<tree>>)

=============================================================================
