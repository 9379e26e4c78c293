----------------------------- MODULE MCFrontend -----------------------------
(* All short texts of two alphabets, groups within groups, and command     *)
(* lines with several files.                                               *)
EXTENDS Frontend, TLC

CONSTANTS a, b, X, Y, include, define, scriptKey, proc, misplaced, uncompiled, unassembled

MCName == {a, b, X, Y, include, define, scriptKey, proc, misplaced, uncompiled, unassembled}
MCNumber == {"0", "1", "2"}
MCRank == [number \in MCNumber |-> CASE number = "0" -> 0 [] number = "1" -> 1 [] number = "2" -> 2]
MCItemName == {scriptKey, proc, misplaced, uncompiled, unassembled}

Tok(kind, val) == [kind |-> kind, val |-> val, line |-> <<>>]
Ident(name) == Tok("ident", name)
Num(n) == Tok("number", n)
Dir(kind, line) == [kind |-> kind, val |-> None, line |-> line]
OnLine(kind, val) == [kind |-> kind, val |-> val]
P(p) == PunctToken(p)

(* What stands in one line of a text.                                      *)
If0 == <<Dir("#if", <<OnLine("number", "0")>>)>>
IfX == <<Dir("#if", <<OnLine("ident", X)>>)>>
IfdefX == <<Dir("#ifdef", <<OnLine("label", X)>>)>>
IfndefX == <<Dir("#ifndef", <<OnLine("ident", X)>>)>>
IfNothing == <<Dir("#if", <<>>)>>
IfdefNumber == <<Dir("#ifdef", <<OnLine("number", "1")>>)>>
IfText == <<Dir("#if", <<OnLine("text", a)>>)>>
Elif1 == <<Dir("#elif", <<OnLine("number", "1")>>)>>
ElifdefX == <<Dir("#elifdef", <<OnLine("ident", X)>>)>>
ElifndefX == <<Dir("#elifndef", <<OnLine("ident", X)>>)>>
ElseLine == <<Dir("#else", <<>>)>>
EndifLine == <<Dir("#endif", <<>>)>>
A == <<Ident(a)>>
B == <<Ident(b)>>
UseX == <<Ident(X)>>
UseY == <<Ident(Y)>>
Open == <<P("(")>>
Close1 == <<P(")")>>
List(tokens) == <<P("(")>> \o tokens \o <<P(")")>>
DefX1 == List(<<Ident(define), Ident(X), Num("1")>>)
DefX0 == List(<<Ident(define), Ident(X), Num("0")>>)
DefXY == List(<<Ident(define), Ident(X), Ident(Y)>>)
DefYX == List(<<Ident(define), Ident(Y), Ident(X)>>)
DefNothing == List(<<Ident(define), Ident(X)>>)
IncludeA == List(<<Ident(include), Tok("text", a)>>)
IncludeB == List(<<Ident(include), Tok("text", b)>>)
IncludeTwo == List(<<Ident(include), Ident(a), Ident(a)>>)

DefText == List(<<Ident(define), Ident(X), Tok("text", proc)>>)
IncludeX == List(<<Ident(include), Ident(X)>>)

MCIncluded == [name \in MCName |-> CASE name = a -> DefX1 \o B
                                     [] name = b -> Garbled
                                     [] name = proc -> B
                                     [] OTHER -> None]

TextsOver(alphabet, n) ==
  {FlattenSeq(t) : t \in UNION {[1 .. m -> alphabet] : m \in 0 .. n}}

(* Groups with up to three clauses, one of which may hold a group.         *)
Clauses == {If0, IfdefX, IfndefX, IfNothing}
Later == {<<>>, Elif1 \o B, ElifndefX \o B, ElseLine \o B, ElifdefX \o DefX1}
Inner == {i \o A \o l \o EndifLine : i \in Clauses, l \in Later}
Nested ==
  {i \o m \o l \o EndifLine \o UseX : i \in Clauses, m \in Inner, l \in Later}
    \cup {i \o A \o l \o k \o EndifLine : i \in Clauses, l \in Later, k \in Later}
    \cup {i \o A \o ElseLine \o m \o EndifLine : i \in Clauses, m \in Inner}

CONSTANTS ConditionLength, DefineLength   (* bounds: lines of a text *)

Conditions == TextsOver({If0, IfX, IfndefX, ElifdefX, ElseLine, EndifLine, A, DefX1}, ConditionLength)
Definitions == TextsOver({UseX, UseY, DefX1, DefX0, DefXY, DefYX, Open, Close1, IfX, EndifLine},
                         DefineLength)
Odd == {IfText \o A \o EndifLine, IfdefNumber \o EndifLine, IncludeA \o UseX, IncludeB,
        IncludeTwo, List(<<Ident(include), Ident(Y)>>), DefNothing, DefX1 \o IncludeA,
        IncludeA \o IfX \o UseX \o EndifLine, <<P("[")>> \o A \o Close1,
        DefText \o IncludeX \o IncludeX}

Alone(text) == [globals |-> <<text>>, sources |-> <<>>, defs |-> NoDefines]

Script(n) == List(<<Ident(scriptKey), Num(n)>>)
Item(name, tokens) == List(<<Ident(name)>> \o tokens)
Globals == {<<>>, <<DefX1>>, <<DefXY, Item(proc, UseX)>>, <<None>>, <<A>>}
Files == {Script("0") \o Item(proc, UseX), Script("1") \o DefX1 \o Item(proc, A),
          Script("1") \o IfdefX \o Item(uncompiled, A) \o EndifLine \o Item(proc, UseX),
          Script("2") \o Item(unassembled, A), Script("2") \o Item(misplaced, A),
          Script("0") \o Script("1"), Garbled}
MCCommands ==
  {Alone(text) : text \in Conditions \cup Definitions \cup Nested \cup Odd}
    \cup [globals : Globals, sources : UNION {[1 .. n -> Files] : n \in 1 .. 2},
          defs : {NoDefines, [NoDefines EXCEPT ![X] = <<>>], [NoDefines EXCEPT ![Y] = <<Num("1")>>]}]
    \cup [globals : {<<DefX1>>}, sources : [1 .. 3 -> {f \in Files : f # Garbled}], defs : {NoDefines}]
    \cup {[globals |-> <<DefText>>, sources |-> <<Script("1") \o Item(proc, UseX \o UseX)>>,
           defs |-> NoDefines]}
    \cup {[globals |-> <<>>, sources |-> <<>>, defs |-> [NoDefines EXCEPT ![X] = Garbled]]}

-----------------------------------------------------------------------------
(* What a text means: a group of clauses stands for the first one whose    *)
(* condition holds, and a name for its tokens.                             *)
Bad == [ok |-> FALSE]

Opener(tok) == tok.kind \in {"#if", "#ifdef", "#ifndef"}

(* How many groups are open after the first i tokens.                      *)
Depth(text, i) ==
  Cardinality({k \in 1 .. i : Opener(text[k])})
    - Cardinality({k \in 1 .. i : text[k].kind = "#endif"})

Ends(text) == {j \in DOMAIN text : Depth(text, j) = 0}
Borders(text, end) ==
  SetToSortSeq({k \in 1 .. end :
                  \/ k \in {1, end}
                  \/ Depth(text, k) = 1 /\ text[k].kind \in Directives \ {"#endif"}
                       /\ ~Opener(text[k])},
               LAMBDA i, j : i < j)

RECURSIVE Value(_, _, _)
Value(tok, defs, seen) ==
  IF tok.kind = "number" THEN [ok |-> TRUE, holds |-> tok.val # Zero]
  ELSE IF tok.kind \in {"ident", "label"} /\ tok.val \notin seen /\ defs[tok.val] # None
            /\ Len(defs[tok.val]) = 1
       THEN Value(defs[tok.val][1], defs, seen \cup {tok.val})
       ELSE Bad

Condition(tok, defs) ==
  CASE tok.kind = "#else" -> [ok |-> TRUE, holds |-> TRUE]
    [] tok.kind \in {"#if", "#elif"} -> IF Len(tok.line) = 1 THEN Value(tok.line[1], defs, {}) ELSE Bad
    [] OTHER -> IF Len(tok.line) = 1 /\ tok.line[1].kind \in {"ident", "label"}
                THEN [ok |-> TRUE,
                      holds |-> (defs[tok.line[1].val] # None)
                                  = (tok.kind \in {"#ifdef", "#elifdef"})]
                ELSE Bad

(* The tokens of the clause that is taken, of those from border k on.      *)
RECURSIVE Chosen(_, _, _, _)
Chosen(text, borders, k, defs) ==
  IF k = Len(borders) THEN [ok |-> TRUE, body |-> <<>>]
  ELSE LET condition == Condition(text[borders[k]], defs) IN
       IF ~condition.ok THEN Bad
       ELSE IF condition.holds
            THEN [ok |-> TRUE, body |-> SubSeq(text, borders[k] + 1, borders[k + 1] - 1)]
            ELSE Chosen(text, borders, k + 1, defs)

Closes1(out, opens, tok) ==
  opens # <<>> /\ tok.kind = "punct" /\ tok.val = Closing[out[Last(opens)].val]

(* fuel bounds how often names are replaced: those that never end are Bad. *)
(* opens has where in out the open lists begin.                            *)
RECURSIVE Meaning(_, _, _, _, _)
Meaning(text, defs, out, opens, fuel) ==
  IF text = <<>> THEN [ok |-> opens = <<>>, tokens |-> out, defs |-> defs]
  ELSE IF fuel = 0 THEN Bad
  ELSE LET tok == Head(text)
           rest == Tail(text)
           next == Append(out, tok)
       IN
    CASE Opener(tok) ->
           IF Ends(text) = {} THEN Bad
           ELSE LET end == CHOOSE j \in Ends(text) : \A k \in Ends(text) : j <= k
                    chosen == Chosen(text, Borders(text, end), 1, defs)
                IN IF ~chosen.ok THEN Bad
                   ELSE Meaning(chosen.body \o SubSeq(text, end + 1, Len(text)), defs, out,
                                opens, fuel - 1)
      [] IsDirective(tok) /\ ~Opener(tok) -> Bad
      [] tok.kind = "ident" /\ defs[tok.val] # None ->
           Meaning(defs[tok.val] \o rest, defs, out, opens, fuel - 1)
      [] tok.kind = "punct" /\ tok.val \in {"(", "["} ->
           Meaning(rest, defs, next, Append(opens, Len(next)), fuel - 1)
      [] Len(opens) = 1 /\ Closes1(out, opens, tok) ->
           LET list == SubSeq(out, opens[1] + 1, Len(out))
               before == SubSeq(out, 1, opens[1] - 1)
               calls(name) == list # <<>> /\ list[1] = Ident(name)
           IN IF calls(define)
              THEN IF Len(list) >= 3 /\ list[2].kind = "ident"
                   THEN Meaning(rest, [defs EXCEPT ![list[2].val] = SubSeq(list, 3, Len(list))],
                                before, <<>>, fuel - 1)
                   ELSE Bad
              ELSE IF calls(include)
              THEN IF Len(list) = 2 /\ list[2].kind \in {"ident", "label", "text"}
                        /\ MCIncluded[list[2].val] \notin {None, Garbled}
                   THEN Meaning(MCIncluded[list[2].val] \o rest, defs, before, <<>>, fuel - 1)
                   ELSE Bad
              ELSE Meaning(rest, defs, next, <<>>, fuel - 1)
      [] Len(opens) > 1 /\ Closes1(out, opens, tok) ->
           Meaning(rest, defs, next, Front(opens), fuel - 1)
      [] OTHER -> Meaning(rest, defs, next, opens, fuel - 1)

Fuel == 40
TextMeaning(text, defs) == Meaning(text, defs, <<>>, <<>>, Fuel)
GlobalMeaning == TextMeaning(FlattenSeq(command.globals), command.defs)
SourceMeaning ==
  IF index = 0 THEN GlobalMeaning
  ELSE TextMeaning(command.sources[index], GlobalMeaning.defs)

(* The expressions of a text are its tokens without the clauses that are   *)
(* not taken and with names replaced; in a source the names that stand for *)
(* something are those of the globals and its own, never those of another  *)
(* source; and a text is refused only if it means nothing (parser.cpp:50,  *)
(* scic.cpp:226).  Texts that were moved from are left out.                *)
SelectedAsWritten ==
  stage = "parse" =>
    /\ pc = "done" /\ (\A tok \in Range(FlattenSeq(exprs)) : tok.val # Gone) =>
         SourceMeaning.ok /\ FlattenSeq(exprs) = SourceMeaning.tokens
    /\ pc = "failed" => ~SourceMeaning.ok

(* A condition at which the loop of IsTrue does not get any further.       *)
Hangs == pc = "cond" /\ cond.tok.kind \in {"punct", "text"}

(* The program comes to an end, definitions that mention each other        *)
(* included, unless a condition is neither a number nor a name (:280).     *)
ProgramEnds == <>(stage \in Ended \/ Hangs)
=============================================================================
