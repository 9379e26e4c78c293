---------------------------- MODULE Preprocessor ----------------------------
(***************************************************************************)
(* How the tokens of a text become a list of expressions                   *)
(* (parsers/list_tree/parser.cpp): directives choose which tokens count,   *)
(* defined names are replaced by their tokens, brackets make lists, and    *)
(* the lists (define ...) and (include ...) act on what is still to come.  *)
(* All of it happens at once, token by token.  An expression is the        *)
(* sequence of its tokens, and an open list the sequence of its elements.  *)
(***************************************************************************)
EXTENDS Integers, Sequences, FiniteSets, SequencesExt

CONSTANTS
  Name,          (* identifiers                                             *)
  IncludeName, DefineName,
  Number, Zero,  (* the numbers a token may stand for                       *)
  Included,      (* what the include path has: tokens, or None, or Garbled  *)
  MovesDefines,  (* whether replacing a name empties the tokens it stood for *)
  MaxInput,      (* bound: the longest input that is considered             *)
  None, Garbled, Gone

Punct == {"(", ")", "[", "]"}
Directives == {"#if", "#ifdef", "#ifndef", "#elif", "#elifdef", "#elifndef", "#else", "#endif"}
Closing == [open \in {"(", "["} |-> IF open = "(" THEN ")" ELSE "]"]

(* kind is ident, label (an identifier with a colon or a question mark),   *)
(* number, punct, text or a directive; only that has a line of its own.    *)
Words == {"ident", "label", "text"}
LineToken == [kind : Words, val : Name] \cup [kind : {"number"}, val : Number]
               \cup [kind : {"punct"}, val : Punct]
Token == [kind : Words, val : Name \cup {Gone}, line : {<<>>}]
           \cup [kind : {"number"}, val : Number, line : {<<>>}]
           \cup [kind : {"punct"}, val : Punct, line : {<<>>}]
           \cup [kind : Directives, val : {None}, line : Seq(LineToken)]

(* A text is a sequence of tokens, or None if there is no such file, or    *)
(* Garbled if it has no tokens.                                            *)
Text == Seq(Token) \cup {None, Garbled}

ASSUME NameAssumption ==
  /\ {IncludeName, DefineName} \subseteq Name /\ Zero \in Number
  /\ {None, Garbled, Gone} \cap Name = {}
  /\ {None, Garbled} \cap Seq(Token) = {} /\ None # Garbled /\ None \notin Nat
  /\ MovesDefines \in BOOLEAN
ASSUME IncludedAssumption == Included \in [Name -> Text]

VARIABLES
  input,         (* the tokens still to be read                             *)
  pushed,        (* those that were put back                                *)
  conds,         (* preproc_stack_                                          *)
  defines,
  lists,         (* the lists that are open                                 *)
  exprs,         (* the expressions so far                                  *)
  pc,
  cond           (* the condition being evaluated                           *)

pvars == <<input, pushed, conds, defines, lists, exprs, pc, cond>>

NoCond == [tok |-> None, seen |-> {}, back |-> "expr"]
NoDefines == [name \in Name |-> None]

(* A parser that has nothing to do yet.                                    *)
ParserInit ==
  /\ input = <<>> /\ pushed = <<>> /\ conds = <<>> /\ lists = <<>> /\ exprs = <<>>
  /\ defines = NoDefines
  /\ pc = "idle"
  /\ cond = NoCond

(* ParseTree of a new parser, with what AddDefine was called for before.   *)
StartParse(tokens, defs) ==
  /\ input' = tokens
  /\ pushed' = <<>> /\ conds' = <<>> /\ lists' = <<>> /\ exprs' = <<>>
  /\ defines' = defs
  /\ pc' = "expr"
  /\ cond' = NoCond

-----------------------------------------------------------------------------
(* ProcessedTokenStream::GetNextToken, one turn of its loop at a time.     *)
Reading == pc \in {"expr", "list"} /\ pushed = <<>> /\ input # <<>>
Next1 == Head(input)
Consume == input' = Tail(input)

Fail == pc' = "failed" /\ UNCHANGED <<pushed, conds, defines, lists, exprs, cond>>
Crash == pc' = "crashed" /\ UNCHANGED <<pushed, conds, defines, lists, exprs, cond>>

Producing == conds # <<>> => Last(conds).producing
IsDirective(tok) == tok.kind \in Directives

Skip ==
  /\ Reading /\ ~IsDirective(Next1) /\ ~Producing
  /\ Consume
  /\ UNCHANGED <<pushed, conds, defines, lists, exprs, pc, cond>>

IsDefined(name) == defines[name] # None

(* Ident::name and String::decodedString are pointers; numbers and the     *)
(* rest are copied.                                                        *)
MovedFrom(tokens) ==
  [i \in DOMAIN tokens |->
     IF tokens[i].kind \in {"ident", "label", "text"} THEN [tokens[i] EXCEPT !.val = Gone]
     ELSE tokens[i]]

(* TokenStream::PushTokens takes the tokens of the definition with move    *)
(* iterators.                                                              *)
Expand ==
  /\ Reading /\ Producing
  /\ Next1.kind = "ident" /\ Next1.val # Gone /\ IsDefined(Next1.val)
  /\ LET body == defines[Next1.val] IN
     /\ Len(input) + Len(body) <= MaxInput
     /\ input' = body \o Tail(input)
     /\ defines' = IF MovesDefines THEN [defines EXCEPT ![Next1.val] = MovedFrom(body)]
                   ELSE defines
  /\ UNCHANGED <<pushed, conds, lists, exprs, pc, cond>>

(* The name of an identifier that was moved from is a null pointer.        *)
ReadGone ==
  /\ Reading /\ Producing
  /\ Next1.kind = "ident" /\ Next1.val = Gone
  /\ Consume /\ Crash

-----------------------------------------------------------------------------
(* HandlePreProcessorToken.                                                *)
Frame(producing, triggered) == [producing |-> producing, triggered |-> triggered]

Opens(tok) == tok.kind \in {"#if", "#ifdef", "#ifndef"}

(* Mutant: a group within tokens that are skipped is like any other.       *)
NewFrame_Live == Frame(FALSE, FALSE)

(* In a group that is skipped no clause is ever taken.                     *)
NewFrame == Frame(FALSE, ~Producing)

(* The frame of the clause that begins.                                    *)
NextFrame(tok) == IF Opens(tok) THEN NewFrame ELSE Frame(FALSE, Last(conds).triggered)

WithFrame(tok, frame) ==
  IF Opens(tok) THEN Append(conds, frame) ELSE Append(Front(conds), frame)

Taken == Frame(TRUE, TRUE)

(* IsDef: a label counts by its name, but only an identifier is expected.  *)
Testable(tok) == Len(tok.line) = 1 /\ tok.line[1].kind \in {"ident", "label"}
TestHolds(tok) ==
  IF tok.kind \in {"#ifdef", "#elifdef"} THEN IsDefined(tok.line[1].val)
  ELSE ~IsDefined(tok.line[1].val)

(* A directive, except #endif, while no clause of its group was taken.     *)
Considered(tok) == Reading /\ IsDirective(tok) /\ tok.kind # "#endif"
                     /\ (Opens(tok) \/ conds # <<>>) /\ ~NextFrame(tok).triggered

PassOver ==
  /\ Reading /\ IsDirective(Next1) /\ Next1.kind # "#endif"
  /\ Opens(Next1) \/ conds # <<>>
  /\ NextFrame(Next1).triggered
  /\ Consume
  /\ conds' = WithFrame(Next1, NextFrame(Next1))
  /\ UNCHANGED <<pushed, defines, lists, exprs, pc, cond>>

TestDefinition ==
  /\ Considered(Next1) /\ Next1.kind \notin {"#if", "#elif", "#else"}
  /\ Testable(Next1)
  /\ Consume
  /\ conds' = WithFrame(Next1, IF TestHolds(Next1) THEN Taken ELSE NextFrame(Next1))
  /\ UNCHANGED <<pushed, defines, lists, exprs, pc, cond>>

Else ==
  /\ Considered(Next1) /\ Next1.kind = "#else"
  /\ Consume
  /\ conds' = WithFrame(Next1, Taken)
  /\ UNCHANGED <<pushed, defines, lists, exprs, pc, cond>>

StartCondition ==
  /\ Considered(Next1) /\ Next1.kind \in {"#if", "#elif"} /\ Len(Next1.line) = 1
  /\ Consume
  /\ conds' = WithFrame(Next1, NextFrame(Next1))
  /\ cond' = [tok |-> Next1.line[1], seen |-> {}, back |-> pc]
  /\ pc' = "cond"
  /\ UNCHANGED <<pushed, defines, lists, exprs>>

BadDirective ==
  /\ \/ Considered(Next1) /\ Next1.kind \in {"#if", "#elif"} /\ Len(Next1.line) # 1
     \/ Considered(Next1) /\ Next1.kind \notin {"#if", "#elif", "#else"} /\ ~Testable(Next1)
     \/ /\ Reading /\ IsDirective(Next1) /\ Next1.kind # "#endif"
        /\ ~Opens(Next1) /\ conds = <<>>
  /\ Consume /\ Fail

Endif ==
  /\ Reading /\ Next1.kind = "#endif" /\ conds # <<>>
  /\ Consume
  /\ conds' = Front(conds)
  /\ UNCHANGED <<pushed, defines, lists, exprs, pc, cond>>

(* pop_back of an empty vector: undefined.                                 *)
StrayEndif ==
  /\ Reading /\ Next1.kind = "#endif" /\ conds = <<>>
  /\ Consume /\ Crash

(* Mutant: what was looked up is not remembered.                           *)
SeenWith_Forgets(name) == cond.seen

SeenWith(name) == cond.seen \cup {name}

(* IsTrue: one turn of its loop, which has no way out for other tokens.    *)
Evaluate ==
  /\ pc = "cond"
  /\ LET tok == cond.tok IN
     \/ /\ tok.kind = "number"
        /\ conds' = IF tok.val = Zero THEN conds ELSE Append(Front(conds), Taken)
        /\ pc' = cond.back
        /\ cond' = NoCond
        /\ UNCHANGED <<pushed, defines, lists, exprs>>
     \/ /\ tok.kind \in {"ident", "label"} /\ tok.val # Gone /\ tok.val \notin cond.seen
        /\ IsDefined(tok.val) /\ Len(defines[tok.val]) = 1
        /\ cond' = [cond EXCEPT !.tok = defines[tok.val][1], !.seen = SeenWith(tok.val)]
        /\ UNCHANGED <<pushed, conds, defines, lists, exprs, pc>>
     \/ /\ tok.kind \in {"ident", "label"} /\ tok.val # Gone
        /\ \/ tok.val \in cond.seen
           \/ ~IsDefined(tok.val)
           \/ IsDefined(tok.val) /\ Len(defines[tok.val]) # 1
        /\ Fail
     \/ tok.kind \in {"ident", "label"} /\ tok.val = Gone /\ Crash
     \/ tok.kind \in {"punct", "text"} /\ UNCHANGED pvars
  /\ UNCHANGED input

-----------------------------------------------------------------------------
(* ParseExpr, ParseList and what happens at the top level.                 *)
IsPlainIdent(expr) == Len(expr) = 1 /\ expr[1].kind = "ident"
IsToken(expr) == Len(expr) = 1

(* An element of the innermost list, or an expression of its own.          *)
Element(expr) ==
  IF lists = <<>>
  THEN exprs' = Append(exprs, expr) /\ pc' = "expr" /\ UNCHANGED lists
  ELSE /\ lists' = Append(Front(lists), [Last(lists) EXCEPT !.elements = Append(@, expr)])
       /\ pc' = "list"
       /\ UNCHANGED exprs

ParseExpr(tok) ==
  IF tok.kind = "punct" /\ tok.val \in {"(", "["}
  THEN /\ lists' = Append(lists, [open |-> tok.val, elements |-> <<>>])
       /\ pc' = "list"
       /\ UNCHANGED exprs
  ELSE Element(<<tok>>)

PunctToken(p) == [kind |-> "punct", val |-> p, line |-> <<>>]

(* WriteTokens of a list.                                                  *)
WriteTokens(list) ==
  <<PunctToken(list.open)>> \o FlattenSeq(list.elements) \o <<PunctToken(Closing[list.open])>>

SetDefinition(name, tokens) == defines' = [defines EXCEPT ![name] = tokens]

CanDefine(rest) == Len(rest) >= 2 /\ IsPlainIdent(rest[1])

HandleDefine(rest) ==
  \/ /\ CanDefine(rest)
     /\ SetDefinition(rest[1][1].val, FlattenSeq(Tail(rest)))
     /\ lists' = <<>> /\ pc' = "expr"
     /\ UNCHANGED <<exprs, pushed, conds, cond, input>>
  \/ ~CanDefine(rest) /\ UNCHANGED input /\ Fail

(* LoadTextFromIncludePath and TokenizeText; a text that was moved from    *)
(* has no characters to look for.                                          *)
HandleInclude(rest) ==
  LET named == Len(rest) = 1 /\ IsToken(rest[1]) /\ rest[1][1].kind \in {"text", "ident", "label"}
      file == rest[1][1].val
  IN \/ /\ named /\ file # Gone /\ Included[file] \notin {None, Garbled}
        /\ Len(input) + Len(Included[file]) <= MaxInput
        /\ input' = Included[file] \o input
        /\ lists' = <<>> /\ pc' = "expr"
        /\ UNCHANGED <<exprs, pushed, conds, cond, defines>>
     \/ named /\ file # Gone /\ Included[file] \in {None, Garbled} /\ UNCHANGED input /\ Fail
     \/ ~named /\ UNCHANGED input /\ Fail
     \/ named /\ file = Gone /\ UNCHANGED input /\ Crash

Calls(list, name) ==
  list.elements # <<>> /\ IsPlainIdent(list.elements[1]) /\ list.elements[1][1].val = name

CloseInner ==
  /\ LET list == Last(lists)
         outer == Front(lists)
     IN /\ lists' = Append(Front(outer),
                      [Last(outer) EXCEPT !.elements = Append(@, WriteTokens(list))])
        /\ pc' = "list"
  /\ UNCHANGED <<exprs, pushed, conds, cond, defines, input>>

CloseOuter(list) ==
  \/ Calls(list, DefineName) /\ HandleDefine(Tail(list.elements))
  \/ Calls(list, IncludeName) /\ HandleInclude(Tail(list.elements))
  \/ /\ ~Calls(list, DefineName) /\ ~Calls(list, IncludeName)
     /\ exprs' = Append(exprs, WriteTokens(list))
     /\ lists' = <<>> /\ pc' = "expr"
     /\ UNCHANGED <<pushed, conds, cond, defines, input>>

(* A token that counts.                                                    *)
Counts(tok) ==
  /\ Reading /\ ~IsDirective(tok) /\ Producing
  /\ tok.kind = "ident" => tok.val # Gone /\ ~IsDefined(tok.val)

Closes(tok) == tok.kind = "punct" /\ tok.val = Closing[Last(lists).open]

(* ParseList puts back what does not end the list, for ParseExpr to read.  *)
InList ==
  /\ pc = "list" /\ Counts(Next1) /\ ~Closes(Next1)
  /\ Consume
  /\ pushed' = Append(pushed, Next1)
  /\ pc' = "expr"
  /\ UNCHANGED <<conds, defines, lists, exprs, cond>>

ReadPushed ==
  /\ pc = "expr" /\ pushed # <<>>
  /\ pushed' = Front(pushed)
  /\ ParseExpr(Last(pushed))
  /\ UNCHANGED <<input, conds, defines, cond>>

StartExpr ==
  /\ pc = "expr" /\ Counts(Next1)
  /\ Consume
  /\ ParseExpr(Next1)
  /\ UNCHANGED <<pushed, conds, defines, cond>>

(* The end of a list, and then of what it does; pc lets the token go first *)
(* because an include reads on from behind it.                             *)
EndList ==
  /\ pc = "list" /\ Counts(Next1) /\ Closes(Next1)
  /\ Consume
  /\ pc' = "close"
  /\ UNCHANGED <<pushed, conds, defines, lists, exprs, cond>>

Close ==
  /\ pc = "close"
  /\ \/ Len(lists) > 1 /\ CloseInner
     \/ Len(lists) = 1 /\ CloseOuter(lists[1])

EndOfInput ==
  /\ pc \in {"expr", "list"} /\ pushed = <<>> /\ input = <<>>
  /\ pc' = IF conds = <<>> /\ lists = <<>> THEN "done" ELSE "failed"
  /\ UNCHANGED <<input, pushed, conds, defines, lists, exprs, cond>>

Directive ==
  PassOver \/ TestDefinition \/ Else \/ StartCondition \/ BadDirective \/ Endif \/ StrayEndif

ParseStep ==
  \/ Skip \/ Expand \/ ReadGone \/ Directive \/ Evaluate
  \/ InList \/ ReadPushed \/ StartExpr \/ EndList \/ Close \/ EndOfInput
=============================================================================
