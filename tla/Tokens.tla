------------------------------- MODULE Tokens -------------------------------
(***************************************************************************)
(* Tokens (scic/tokens/token.hpp), and what a reader of characters or of   *)
(* tokens answers: a value and the rest, an error, or an exception.        *)
(***************************************************************************)

(* The trailer of an identifier is a colon, a question mark or "none".     *)
Ident(name, trailer) == [kind |-> "ident", name |-> name, trailer |-> trailer]
Number(n) == [kind |-> "number", num |-> n]
String(chars) == [kind |-> "string", chars |-> chars]
Punct(c) == [kind |-> "punct", punct |-> c]
Directive(type, line) == [kind |-> "directive", type |-> type, line |-> line]

Read(value, rest) == [how |-> "ok", value |-> value, rest |-> rest]
Error == [how |-> "failed"]
Throws == [how |-> "crashed"]

=============================================================================
