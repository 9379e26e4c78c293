------------------------------ MODULE Scanner ------------------------------
(***************************************************************************)
(* How a text becomes tokens (scic/tokens/token_readers.cpp, over the      *)
(* character streams of char_stream.cpp and the texts of text_range.cpp).  *)
(*                                                                         *)
(* A character is a string, the back quote the string "backquote";         *)
(* identifiers may also be made of whole syllables, which count as one     *)
(* character that means nothing else.  A stream is the sequence of the     *)
(* characters still to come.                                               *)
(***************************************************************************)
EXTENDS Integers, SequencesExt, FiniteSetsExt, TLC, Tokens

CONSTANTS
  Sources,      (* what may be read                                        *)
  Contents(_),  (* the text of a source                                    *)
  Code,         (* the code of a character                                 *)
  CtrlKey,      (* the numbers of the control keys and of the alt keys, by *)
  AltKey,       (* letter                                                  *)
  MaxTokenLen   (* what the text of a string must stay below               *)

VARIABLES
  source,       (* what is read, and its text                              *)
  text,
  stream,       (* what is left of it                                      *)
  lineStart,    (* at_start_of_line                                        *)
  tokens,       (* the tokens so far, and where they come from             *)
  ranges,
  scan          (* "tokens", "done", "failed" or "crashed"                 *)

scanVars == <<source, text, stream, lineStart, tokens, ranges, scan>>

-----------------------------------------------------------------------------
(* Classes of characters.                                                  *)
IsSep(c) == c \in {" ", "\t", "\n", "\r", ";"}
IsTok(c) == c \in {"#", "(", ")", ",", ".", "@", "[", "]"}
IsDigit(c) == c \in {"$", "%", "0", "1", "2", "9"}
IsTerm(c) == c \in {" ", "\t", "\n", "\r", ";", "(", ")", ",", "[", "]"}

HexDigits == [c \in {"0", "1", "2", "9", "a", "F"} |->
                CASE c = "a" -> 10 [] c = "F" -> 15 [] OTHER -> Code[c] - 48]
IsHex(c) == c \in DOMAIN HexDigits

(* Streams.  A carriage return reads as a line end, together with the line *)
(* feed behind it.                                                         *)
Cur(s) == IF Head(s) = "\r" THEN "\n" ELSE Head(s)

Advance(s) == IF IsPrefix(<<"\r", "\n">>, s) THEN Tail(Tail(s)) ELSE Tail(s)

(* The place of the first character of a set, or where the stream ends.    *)
IndexOf(s, chars) ==
  LET at == {i \in 1..Len(s) : s[i] \in chars} IN IF at = {} THEN Len(s) + 1 ELSE Min(at)

From(s, i) == SubSeq(s, i, Len(s))

(* Mutant: only a line feed ends a line.                                   *)
FindNewline_LineFeed(s) == From(s, IndexOf(s, {"\n"}))

FindNewline(s) == From(s, IndexOf(s, {"\r", "\n"}))

(* Mutant: tabs are not among them.                                        *)
SkipBlanks_Spaces(s) ==
  From(s, Min({i \in 1..(Len(s) + 1) : i > Len(s) \/ s[i] # " "}))

SkipBlanks(s) ==
  From(s, Min({i \in 1..(Len(s) + 1) : i > Len(s) \/ s[i] \notin {" ", "\t"}}))

SkipSpace(s) ==
  From(s, Min({i \in 1..(Len(s) + 1) : i > Len(s) \/ s[i] \notin {" ", "\t", "\r", "\n"}}))

(* The characters up to one that ends an identifier.                       *)
Word(s) == SubSeq(s, 1, Min({i \in 1..(Len(s) + 1) : i > Len(s) \/ IsTerm(s[i])}) - 1)

-----------------------------------------------------------------------------
ValueOf(digits, base) == FoldLeft(LAMBDA n, c : n * base + HexDigits[c], 0, digits)

IsDecimal(word) ==
  word # <<>> /\ \A i \in 1..Len(word) : IsHex(word[i]) /\ HexDigits[word[i]] < 10

(* ReadKey, behind the back quote.                                         *)
ReadKey(s) ==
  LET End(n, rest) == IF rest # <<>> /\ ~IsTerm(Cur(rest)) THEN Error
                      ELSE Read(Number(n), rest)
      letter == Cur(Tail(s))
      signed == Word(Tail(s)) # <<>> /\ Word(Tail(s))[1] = "-"
      digits == IF signed THEN Tail(Word(Tail(s))) ELSE Word(Tail(s))
      key == IF signed THEN -ValueOf(digits, 10) ELSE ValueOf(digits, 10)
  IN  CASE s = <<>> -> Error
        [] s # <<>> /\ Cur(s) \notin {"^", "@", "#"} -> End(Code[Cur(s)], Advance(s))
        [] s # <<>> /\ Cur(s) \in {"^", "@"} ->
             IF Len(s) = 1 THEN Error
             ELSE IF letter \notin DOMAIN AltKey THEN Error
             ELSE End(IF Cur(s) = "^" THEN CtrlKey[letter] ELSE AltKey[letter] * 256,
                      Advance(Tail(s)))
        [] s # <<>> /\ Cur(s) = "#" ->
             IF ~IsDecimal(digits) THEN Error
             ELSE End((key + 58) * 256, From(s, Len(Word(Tail(s))) + 2))

(* ReadNumber.                                                             *)
ReadNumber(s) ==
  LET sign == IF Head(s) = "-" THEN 1 ELSE 0
      mark == s[sign + 1]
      base == CASE mark = "%" -> 2 [] mark = "$" -> 16 [] OTHER -> 10
      first == sign + (IF base = 10 THEN 0 ELSE 1)
      digits == Word(From(s, first + 1))
  IN  IF \E i \in 1..Len(digits) : ~IsHex(digits[i]) \/ HexDigits[digits[i]] >= base THEN Error
      ELSE Read(Number((IF sign = 1 THEN -1 ELSE 1) * ValueOf(digits, base)),
                From(s, first + Len(digits) + 1))

(* One character of a string as it is written, or what stands for it.      *)
Escapes == ("n" :> "\n") @@ ("t" :> "\t") @@ ("r" :> "\r")
             @@ ("\\" :> "\\") @@ ("\"" :> "\"") @@ ("}" :> "}")

Escape(s) ==
  LET c == Cur(s)
  IN  CASE s = <<>> -> Throws
        [] s # <<>> /\ IsHex(c) ->
             IF Len(s) = 1 THEN Throws
             ELSE IF ~IsHex(Cur(Tail(s))) THEN Error
             ELSE Read(ToString(16 * HexDigits[c] + HexDigits[Cur(Tail(s))]), Tail(Tail(s)))
        [] s # <<>> /\ ~IsHex(c) ->
             IF c \in DOMAIN Escapes THEN Read(Escapes[c], Tail(s)) ELSE Error

StringChar(s) ==
  LET c == Cur(s)
  IN  CASE c = "_" -> Read(" ", Tail(s))
        [] c \in {" ", "\t", "\n"} -> Read(" ", SkipSpace(s))
        [] c = "\\" -> Escape(Tail(s))
        [] OTHER -> Read(c, Tail(s))

(* ReadString, behind the opening quote.                                   *)
RECURSIVE StringFrom(_, _, _)
StringFrom(s, close, chars) ==
  IF s = <<>> THEN Error
  ELSE IF Cur(s) = close THEN Read(String(chars), Tail(s))
  ELSE LET char == StringChar(s)
       IN  IF char.how # "ok" THEN char
           ELSE IF Len(chars) + 1 >= MaxTokenLen THEN Error
           ELSE StringFrom(char.rest, close, Append(chars, char.value))

(* ReadIdent: a colon or a question mark ends the name and is its trailer. *)
ReadIdent(s) ==
  LET word == Word(s)
      trail == IndexOf(word, {":", "?"})
  IN  Read(Ident(SubSeq(word, 1, trail - 1),
                 IF trail <= Len(word) THEN word[trail] ELSE "none"),
           From(s, (IF trail <= Len(word) THEN trail ELSE Len(word)) + 1))

IsNumber(s) == IsDigit(Cur(s)) \/ (Cur(s) = "-" /\ Len(s) > 1 /\ IsDigit(Cur(Tail(s))))

ReadToken(s) ==
  LET c == Cur(s)
  IN  CASE IsTok(c) -> Read(Punct(c), Tail(s))
        [] c = "backquote" -> ReadKey(Tail(s))
        [] c \in {"\"", "{"} -> StringFrom(Tail(s), IF c = "{" THEN "}" ELSE c, <<>>)
        [] IsNumber(s) -> ReadNumber(s)
        [] OTHER -> ReadIdent(s)

-----------------------------------------------------------------------------
(* One turn of the loop of NextToken: what it leaves out, if it does.      *)
Skips(s) == s # <<>> /\ IsSep(Cur(s))

Skipped(s) ==
  IF Cur(s) = "\n" THEN Advance(s)
  ELSE LET rest == SkipBlanks(s)
       IN  IF rest # <<>> /\ Cur(rest) = ";" THEN FindNewline(rest) ELSE rest

(* Directives.  The first that is a prefix of the line is the one, so      *)
(* longer ones come first.                                                 *)
Directives == << <<"#", "if", "def">>, <<"#", "if", "n", "def">>, <<"#", "if">>,
                 <<"#", "el", "if", "def">>, <<"#", "el", "if", "n", "def">>,
                 <<"#", "el", "if">>, <<"#", "el", "se">>, <<"#", "end", "if">> >>

DirectiveOf(s) ==
  LET fit == {i \in 1..Len(Directives) : IsPrefix(Directives[i], SkipBlanks(s))}
  IN  IF fit = {} THEN <<>> ELSE Directives[Min(fit)]

AfterDirective(s) == From(SkipBlanks(s), Len(DirectiveOf(s)) + 1)

IsDirective(s) ==
  /\ DirectiveOf(s) # <<>>
  /\ AfterDirective(s) # <<>> => IsTerm(Cur(AfterDirective(s)))

(* The tokens of the rest of its line.                                     *)
RECURSIVE LineTokens(_, _)
LineTokens(s, line) ==
  IF s = <<>> THEN Read(line, <<>>)
  ELSE IF Skips(s) THEN LineTokens(Skipped(s), line)
  ELSE LET token == ReadToken(s)
       IN  IF token.how # "ok" THEN token ELSE LineTokens(token.rest, Append(line, token.value))

(* Mutant: the tokens of the lines below are taken for its own.            *)
ReadPreprocessor_Whole(s) ==
  LET after == AfterDirective(s)
      line == LineTokens(after, <<>>)
  IN  IF line.how # "ok" THEN line
      ELSE Read(Directive(DirectiveOf(s), line.value), FindNewline(after))

ReadPreprocessor(s) ==
  LET after == AfterDirective(s)
      rest == FindNewline(after)
      line == LineTokens(SubSeq(after, 1, Len(after) - Len(rest)), <<>>)
  IN  IF line.how # "ok" THEN line ELSE Read(Directive(DirectiveOf(s), line.value), rest)

-----------------------------------------------------------------------------
(* Where the tokens are: the lines of a text, and the line and the column  *)
(* of one of its characters (TextContents).                                *)

(* Mutant: a carriage return alone does not end a line.                    *)
LineEnds_LineFeed(t) == {i \in 1..Len(t) : t[i] = "\n"}

(* Every line end, by its last character.                                  *)
LineEnds(t) ==
  {i \in 1..Len(t) : t[i] = "\n" \/ (t[i] = "\r" /\ ~(i < Len(t) /\ t[i + 1] = "\n"))}

(* The start of the line a character is in.                                *)
LineStart(t, at) == Max({0} \cup {i \in LineEnds(t) : i < at}) + 1

LineIndex(t, at) == Cardinality({i \in LineEnds(t) : i < at})

Column(t, at) == at - LineStart(t, at)

-----------------------------------------------------------------------------
ScanInit ==
  /\ source \in Sources
  /\ text = Contents(source) /\ stream = text
  /\ lineStart = TRUE
  /\ tokens = <<>> /\ ranges = <<>>
  /\ scan = "tokens"

Position(s) == Len(text) - Len(s) + 1

AtDirective == lineStart /\ stream # <<>> /\ IsDirective(stream)

Skip ==
  /\ scan = "tokens" /\ ~AtDirective /\ Skips(stream)
  /\ stream' = Skipped(stream)
  /\ lineStart' = (Cur(stream) = "\n")
  /\ UNCHANGED <<source, text, tokens, ranges, scan>>

Take(result) ==
  /\ result.how = "ok"
  /\ tokens' = Append(tokens, result.value)
  /\ ranges' = Append(ranges, [from |-> Position(stream), to |-> Position(result.rest) - 1])
  /\ stream' = result.rest
  /\ lineStart' = FALSE
  /\ UNCHANGED <<source, text, scan>>

AtToken == scan = "tokens" /\ stream # <<>> /\ ~AtDirective /\ ~Skips(stream)

TakeDirective == scan = "tokens" /\ AtDirective /\ Take(ReadPreprocessor(stream))
TakeToken == AtToken /\ Take(ReadToken(stream))

ScanEnds ==
  /\ \/ scan = "tokens" /\ stream = <<>> /\ scan' = "done"
     \/ /\ scan = "tokens" /\ AtDirective
        /\ ReadPreprocessor(stream).how # "ok" /\ scan' = ReadPreprocessor(stream).how
     \/ AtToken /\ ReadToken(stream).how # "ok" /\ scan' = ReadToken(stream).how
  /\ UNCHANGED <<source, text, stream, lineStart, tokens, ranges>>

Scan == Skip \/ TakeDirective \/ TakeToken \/ ScanEnds

=============================================================================
