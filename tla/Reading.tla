------------------------------ MODULE Reading ------------------------------
(***************************************************************************)
(* From a text to the items of a script: the scanner, the lists of the     *)
(* list parser (ParserImpl in parsers/list_tree/parser.cpp), and the items *)
(* (ParseItems in parsers/sci/parser.cpp).                                 *)
(*                                                                         *)
(* A text with directives stops at its tokens, which the preprocessor      *)
(* takes over (see Preprocessor); what the preprocessor answers is among   *)
(* the Streams.  Macros, includes and definitions are in Frontend.         *)
(***************************************************************************)
EXTENDS Scanner, Syntax

CONSTANTS
  Streams,      (* what the preprocessor may have read, and the tokens it  *)
  Received(_)   (* answers                                                 *)

VARIABLES
  left,     (* the tokens that are no part of a list yet                   *)
  trees,    (* the lists, and the tokens between them                      *)
  turn,     (* the one that is looked at next                              *)
  items,    (* the items, if there are no errors                           *)
  errors,   (* how many errors there are                                   *)
  reading   (* "text", "lists", "items", "done", "failed" or "crashed"     *)

readingVars == <<left, trees, turn, items, errors, reading>>
vars == <<scanVars, readingVars>>

-----------------------------------------------------------------------------
(* What closes a list, by what opens it.                                   *)
Closing == ("(" :> ")") @@ ("[" :> "]")

Opens(token) == token.kind = "punct" /\ token.punct \in DOMAIN Closing

Closes(token, open) == token.kind = "punct" /\ token.punct = Closing[open]

(* ParserImpl::ParseExpr and ParseList.                                    *)
RECURSIVE ReadTree(_)
RECURSIVE ReadElems(_, _, _)
ReadTree(ts) ==
  IF Opens(Head(ts)) THEN ReadElems(Tail(ts), Head(ts).punct, <<>>)
  ELSE Read(TokenExpr(Head(ts)), Tail(ts))

ReadElems(ts, open, elems) ==
  IF ts = <<>> THEN Error
  ELSE IF Closes(Head(ts), open) THEN Read(ListExpr(open, elems), Tail(ts))
  ELSE LET first == ReadTree(ts)
       IN  IF first.how # "ok" THEN first
           ELSE ReadElems(first.rest, open, Append(elems, first.value))

-----------------------------------------------------------------------------
(* The scanner has a text, or the preprocessor tokens for the list parser. *)
Init ==
  /\ \/ ScanInit /\ left = <<>> /\ reading = "text"
     \/ /\ source \in Streams
        /\ left = Received(source) /\ reading = "lists"
        /\ text = <<>> /\ stream = <<>> /\ lineStart = TRUE
        /\ tokens = left /\ ranges = <<>> /\ scan = "done"
  /\ trees = <<>> /\ turn = 1 /\ items = <<>> /\ errors = 0

ReadText == reading = "text" /\ Scan /\ UNCHANGED readingVars

HasDirectives == \E i \in 1..Len(tokens) : tokens[i].kind = "directive"

TextEnds ==
  /\ reading = "text" /\ scan # "tokens" /\ ~(scan = "done" /\ HasDirectives)
  /\ reading' = IF scan = "done" THEN "lists" ELSE scan
  /\ left' = IF scan = "done" THEN tokens ELSE <<>>
  /\ UNCHANGED <<scanVars, trees, turn, items, errors>>

ReadList ==
  /\ reading = "lists" /\ left # <<>>
  /\ LET tree == ReadTree(left)
     IN  IF tree.how = "ok"
         THEN /\ trees' = Append(trees, tree.value) /\ left' = tree.rest
              /\ UNCHANGED reading
         ELSE reading' = "failed" /\ UNCHANGED <<trees, left>>
  /\ UNCHANGED <<scanVars, turn, items, errors>>

ListsEnd ==
  /\ reading = "lists" /\ left = <<>>
  /\ reading' = "items"
  /\ UNCHANGED <<scanVars, left, trees, turn, items, errors>>

(* Behind an error no item is kept any more.                               *)
Keep(sofar, item) == IF errors = 0 THEN Append(sofar, item) ELSE sofar

(* ParseEachTreeExpr: every list is parsed, the errors add up.             *)
ReadItem ==
  /\ reading = "items" /\ turn <= Len(trees)
  /\ LET item == ParseItem(trees[turn])
     IN  /\ items' = IF item.how = "ok" THEN Keep(items, item.value) ELSE <<>>
         /\ errors' = IF item.how = "ok" THEN errors ELSE errors + 1
         /\ reading' = IF item.how = "crashed" THEN "crashed" ELSE reading
  /\ turn' = turn + 1
  /\ UNCHANGED <<scanVars, left, trees>>

ItemsEnd ==
  /\ reading = "items" /\ turn > Len(trees)
  /\ reading' = IF errors = 0 THEN "done" ELSE "failed"
  /\ UNCHANGED <<scanVars, left, trees, turn, items, errors>>

Ended == reading \in {"done", "failed", "crashed"} \/ (scan = "done" /\ HasDirectives)

Terminated == Ended /\ UNCHANGED vars

Next == ReadText \/ TextEnds \/ ReadList \/ ListsEnd \/ ReadItem \/ ItemsEnd \/ Terminated

Spec == Init /\ [][Next]_vars

=============================================================================
