---------------------------- MODULE ExprBuilder -----------------------------
(***************************************************************************)
(* The code of an expression: BuildExpr and the functions it calls in      *)
(* scic/sem/exprs/expr_builder.cpp, the loop stack of expr_context.hpp and *)
(* the FunctionBuilder of scic/codegen/code_generator.cpp that appends the *)
(* instructions.                                                           *)
(*                                                                         *)
(* An expression is a record with its kind.  The names in it are resolved: *)
(* a variable is its class and offset, a property its number in the        *)
(* object.  What the functions append is returned, as a sequence; an error *)
(* they return stands in it as an instruction of its own, Error.           *)
(***************************************************************************)
EXTENDS SciMachine, SequencesExt

Error == Instr("error", 0)
Fails(code) == \E i \in 1..Len(code) : code[i] = Error

-----------------------------------------------------------------------------
(* Expressions.                                                            *)

NoExpr == [kind |-> "none"]

Const(n) == [kind |-> "const", val |-> n]
SelfRef == [kind |-> "self"]
Variable(class, addr) == [sort |-> class, addr |-> addr, index |-> NoExpr]
Element(class, addr, index) == [sort |-> class, addr |-> addr, index |-> index]
Property(n) == [sort |-> "prop", addr |-> n, index |-> NoExpr]
Read(place) == [kind |-> "read", place |-> place]
AddrOf(place) == [kind |-> "addrOf", place |-> place]
Assign(op, place, value) ==
  [kind |-> "assign", op |-> op, place |-> place, value |-> value]
IncDec(op, place) == [kind |-> "incDec", op |-> op, place |-> place]
Unary(op, e) == [kind |-> "unary", op |-> op, args |-> <<e>>]
Multi(op, args) == [kind |-> "multi", op |-> op, args |-> args]
Compare(op, args) == [kind |-> "compare", op |-> op, args |-> args]
And(args) == [kind |-> "and", args |-> args]
Or(args) == [kind |-> "or", args |-> args]
NoRest == [sort |-> "none", addr |-> 0, index |-> NoExpr]
AllRest == [sort |-> "all", addr |-> 0, index |-> NoExpr]
Call(op, args, rest) == [kind |-> "call", op |-> op, args |-> args, rest |-> rest]
Clause(selector, args) == [selector |-> selector, args |-> args]
SendTo(target, clauses) ==
  [kind |-> "send", target |-> target, clauses |-> clauses]
Return(value) == [kind |-> "return", value |-> value]
Break(cond, level) == [kind |-> "break", cond |-> cond, level |-> level]
Continue(cond, level) == [kind |-> "continue", cond |-> cond, level |-> level]
While(cond, body) == [kind |-> "while", cond |-> cond, body |-> body]
For(init, cond, update, body) ==
  [kind |-> "for", init |-> init, cond |-> cond, update |-> update, body |-> body]
If(cond, then, else) ==
  [kind |-> "if", cond |-> cond, then |-> then, else |-> else]
Branch(cond, body) == [cond |-> cond, body |-> body]
Cond(branches, else) == [kind |-> "cond", branches |-> branches, else |-> else]
Switch(value, cases, else) ==
  [kind |-> "switch", value |-> value, cases |-> cases, else |-> else]
List(exprs) == [kind |-> "list", exprs |-> exprs]

-----------------------------------------------------------------------------
(* A place in the tree is a number, one digit to the base 8 for each step  *)
(* from the root; a label is a place and a last digit no step has.         *)
Child(p, i) == p * 8 + i
DoneLabel(p) == p * 8
NextLabel(p) == p * 8 + 6
StartLabel(p) == p * 8 + 7

Concat(parts) == FoldLeft(LAMBDA a, b : a \o b, <<>>, parts)

(* The code of each element of a sequence, in order.                       *)
Each(s, CodeOf(_)) == Concat([i \in 1..Len(s) |-> CodeOf(i)])

(* FindLoop: the loops around, the innermost last.  The walk outwards over *)
(* the levels never leaves the innermost loop.                             *)
NoLoop == [continue |-> 0, break |-> 0]

FindLoop(loops, level) ==
  IF loops = <<>> THEN NoLoop ELSE loops[Len(loops)]

PropOp(op) == CASE op = "load" -> "pToa" [] op = "store" -> "aTop"
                [] op = "inc" -> "ipToa" [] op = "dec" -> "dpToa"

RECURSIVE Build(_, _, _)

(* BuildVarLoadExpr, and the access of BuildVarStoreExpr once the value is *)
(* where the access takes it from.                                         *)
AccessPlace(op, place, p, loops) ==
  IF place.sort = "prop"
  THEN IF place.index # NoExpr THEN <<Error>>
       ELSE <<Instr(PropOp(op), place.addr * 2)>>
  ELSE (IF place.index # NoExpr THEN Build(place.index, p, loops) ELSE <<>>)
       \o <<Access(op, place.sort, place.addr, op = "store",
                   place.index # NoExpr)>>

BuildVarStoreExpr(place, p, loops) ==
  (IF place.sort = "prop" THEN <<>> ELSE <<Instr("push", 0)>>)
  \o AccessPlace("store", place, p, loops)

BuildAddrOfExpr(place, p, loops) ==
  IF place.sort = "prop" THEN <<Error>>
  ELSE (IF place.index # NoExpr THEN Build(place.index, p, loops) ELSE <<>>)
       \o <<Access("lea", place.sort, place.addr, FALSE, place.index # NoExpr)>>

BuildMultiExpr(op, args, p, loops) ==
  Build(args[1], Child(p, 1), loops)
  \o Each(Tail(args), LAMBDA i :
       <<Instr("push", 0)>> \o Build(args[i + 1], Child(p, i + 1), loops)
       \o <<Instr(op, 0)>>)

(* Each operand is compared with the one before, until a comparison fails. *)
BuildCompExpr(op, args, p, loops) ==
  Build(args[1], Child(p, 1), loops) \o <<Instr("push", 0)>>
  \o Build(args[2], Child(p, 2), loops) \o <<Instr(op, 0)>>
  \o Each(SubSeq(args, 3, Len(args)), LAMBDA i :
       <<Instr("bnt", DoneLabel(p)), Instr("pprev", 0)>>
       \o Build(args[i + 2], Child(p, i + 2), loops) \o <<Instr(op, 0)>>)
  \o <<Instr("label", DoneLabel(p))>>

(* "and" leaves at the first false operand, "or" at the first true one.    *)
BuildShortCircuit(branch, args, p, loops) ==
  Each(Front(args), LAMBDA i :
       Build(args[i], Child(p, i), loops) \o <<Instr(branch, DoneLabel(p))>>)
  \o Build(Last(args), Child(p, Len(args)), loops)
  \o <<Instr("label", DoneLabel(p))>>

(* A rest argument with a name is refused if the name is a parameter's.    *)
BuildRest(rest) ==
  CASE rest.sort = "none" -> <<>>
    [] rest.sort = "all"  -> <<Instr("rest", 1)>>
    [] OTHER -> <<Error>>

(* The number of arguments is pushed, then each of them.                   *)
BuildCallArgs(args, rest, p, loops) ==
  <<Instr("pushi", Len(args))>>
  \o Each(args, LAMBDA i :
       Build(args[i], Child(p, i), loops) \o <<Instr("push", 0)>>)
  \o BuildRest(rest)

BuildSendClause(clause, p, loops) ==
  (IF clause.selector.kind = "const"
   THEN <<Instr("pushi", clause.selector.val)>>
   ELSE Build(clause.selector, p, loops) \o <<Instr("push", 0)>>)
  \o BuildCallArgs(clause.args, NoRest, p, loops)

SendWords(clauses) ==
  FoldLeft(LAMBDA n, c : n + Len(c.args) + 2, 0, clauses)

(* The messages are pushed before the receiver is computed.                *)
BuildSendExpr(e, p, loops) ==
  Each(e.clauses, LAMBDA i : BuildSendClause(e.clauses[i], Child(p, i), loops))
  \o (IF e.target.kind = "self" THEN <<Instr("self", SendWords(e.clauses))>>
      ELSE Build(e.target, Child(p, 5), loops)
           \o <<Instr("send", SendWords(e.clauses))>>)

BuildAssignExpr(e, p, loops) ==
  (IF e.op = "none" THEN Build(e.value, Child(p, 1), loops)
   ELSE AccessPlace("load", e.place, Child(p, 2), loops) \o <<Instr("push", 0)>>
        \o Build(e.value, Child(p, 1), loops) \o <<Instr(e.op, 0)>>)
  \o BuildVarStoreExpr(e.place, Child(p, 3), loops)

(* break, breakif, continue, contif.                                       *)
BuildExit(cond, label, p, loops) ==
  IF label = 0 THEN <<Error>>
  ELSE IF cond = NoExpr THEN <<Instr("jmp", label)>>
  ELSE Build(cond, Child(p, 1), loops) \o <<Instr("bt", label)>>

BuildIfExpr(e, p, loops) ==
  Build(e.cond, Child(p, 1), loops)
  \o (IF e.else = NoExpr
      THEN <<Instr("bnt", DoneLabel(p))>> \o Build(e.then, Child(p, 2), loops)
      ELSE <<Instr("bnt", NextLabel(p))>> \o Build(e.then, Child(p, 2), loops)
           \o <<Instr("jmp", DoneLabel(p)), Instr("label", NextLabel(p))>>
           \o Build(e.else, Child(p, 3), loops))
  \o <<Instr("label", DoneLabel(p))>>

(* The branches of a cond or a switch, one after the other: a test that    *)
(* leaves for the next one if it fails, the body, and a jump to the end.   *)
BuildBranches(n, TestOf(_), BodyOf(_), else, p, loops) ==
  Each([i \in 1..n |-> i], LAMBDA i :
       LET atEnd == i = n /\ else = NoExpr
       IN  TestOf(i)
           \o <<Instr("bnt", IF atEnd THEN DoneLabel(p)
                             ELSE NextLabel(Child(p, i)))>>
           \o Build(BodyOf(i), Child(Child(p, i), 2), loops)
           \o (IF atEnd THEN <<>>
               ELSE <<Instr("jmp", DoneLabel(p)),
                      Instr("label", NextLabel(Child(p, i)))>>))
  \o (IF else = NoExpr THEN <<>> ELSE Build(else, Child(p, 5), loops))
  \o <<Instr("label", DoneLabel(p))>>

BuildCondExpr(e, p, loops) ==
  BuildBranches(Len(e.branches),
                LAMBDA i : Build(e.branches[i].cond, Child(Child(p, i), 1), loops),
                LAMBDA i : e.branches[i].body, e.else, p, loops)

(* Mutant: the value switched on is left on the stack.                     *)
BuildSwitchExpr_NoToss(e, p, loops) ==
  Build(e.value, Child(p, 4), loops) \o <<Instr("push", 0)>>
  \o BuildBranches(Len(e.cases),
                   LAMBDA i : <<Instr("dup", 0), Instr("loadi", e.cases[i].cond),
                                Instr("eq", 0)>>,
                   LAMBDA i : e.cases[i].body, e.else, p, loops)

(* The value is on the stack while the cases are tried.  switchto is the   *)
(* same, with the cases numbered from 0.                                   *)
BuildSwitchExpr(e, p, loops) ==
  Build(e.value, Child(p, 4), loops) \o <<Instr("push", 0)>>
  \o BuildBranches(Len(e.cases),
                   LAMBDA i : <<Instr("dup", 0), Instr("loadi", e.cases[i].cond),
                                Instr("eq", 0)>>,
                   LAMBDA i : e.cases[i].body, e.else, p, loops)
  \o <<Instr("toss", 0)>>

BuildWhileExpr(e, p, loops) ==
  LET inner == Append(loops, [continue |-> StartLabel(p), break |-> DoneLabel(p)])
  IN  <<Instr("label", StartLabel(p))>>
      \o (IF e.cond = NoExpr THEN <<>>
          ELSE Build(e.cond, Child(p, 1), inner) \o <<Instr("bnt", DoneLabel(p))>>)
      \o Build(e.body, Child(p, 2), inner)
      \o <<Instr("jmp", StartLabel(p)), Instr("label", DoneLabel(p))>>

(* Mutant: continue goes to the condition and skips the update.            *)
BuildForExpr_ContinueAtCond(e, p, loops) ==
  LET inner == Append(loops, [continue |-> StartLabel(p), break |-> DoneLabel(p)])
  IN  Build(e.init, Child(p, 1), loops)
      \o <<Instr("label", StartLabel(p))>> \o Build(e.cond, Child(p, 2), loops)
      \o <<Instr("bnt", DoneLabel(p))>> \o Build(e.body, Child(p, 4), inner)
      \o <<Instr("label", NextLabel(p))>> \o Build(e.update, Child(p, 3), loops)
      \o <<Instr("jmp", StartLabel(p)), Instr("label", DoneLabel(p))>>

BuildForExpr(e, p, loops) ==
  LET inner == Append(loops, [continue |-> NextLabel(p), break |-> DoneLabel(p)])
  IN  Build(e.init, Child(p, 1), loops)
      \o <<Instr("label", StartLabel(p))>> \o Build(e.cond, Child(p, 2), loops)
      \o <<Instr("bnt", DoneLabel(p))>> \o Build(e.body, Child(p, 4), inner)
      \o <<Instr("label", NextLabel(p))>> \o Build(e.update, Child(p, 3), loops)
      \o <<Instr("jmp", StartLabel(p)), Instr("label", DoneLabel(p))>>

Build(e, p, loops) ==
  CASE e.kind = "const" -> <<Instr("loadi", e.val)>>
    [] e.kind = "self"  -> <<Instr("selfID", 0)>>
    [] e.kind = "read"  -> AccessPlace("load", e.place, Child(p, 1), loops)
    [] e.kind = "addrOf" -> BuildAddrOfExpr(e.place, Child(p, 1), loops)
    [] e.kind = "incDec" -> AccessPlace(e.op, e.place, Child(p, 1), loops)
    [] e.kind = "assign" -> BuildAssignExpr(e, p, loops)
    [] e.kind = "unary" ->
         Build(e.args[1], Child(p, 1), loops) \o <<Instr(e.op, 0)>>
    [] e.kind = "multi" -> BuildMultiExpr(e.op, e.args, p, loops)
    [] e.kind = "compare" -> BuildCompExpr(e.op, e.args, p, loops)
    [] e.kind = "and" -> BuildShortCircuit("bnt", e.args, p, loops)
    [] e.kind = "or" -> BuildShortCircuit("bt", e.args, p, loops)
    [] e.kind = "call" -> BuildCallArgs(e.args, e.rest, p, loops)
                          \o <<Instr(e.op, Len(e.args))>>
    [] e.kind = "send" -> BuildSendExpr(e, p, loops)
    [] e.kind = "return" ->
         (IF e.value = NoExpr THEN <<>> ELSE Build(e.value, Child(p, 1), loops))
         \o <<Instr("ret", 0)>>
    [] e.kind = "break" ->
         BuildExit(e.cond, FindLoop(loops, e.level).break, p, loops)
    [] e.kind = "continue" ->
         BuildExit(e.cond, FindLoop(loops, e.level).continue, p, loops)
    [] e.kind = "while" -> BuildWhileExpr(e, p, loops)
    [] e.kind = "for" -> BuildForExpr(e, p, loops)
    [] e.kind = "if" -> BuildIfExpr(e, p, loops)
    [] e.kind = "cond" -> BuildCondExpr(e, p, loops)
    [] e.kind = "switch" -> BuildSwitchExpr(e, p, loops)
    [] e.kind = "list" ->
         Each(e.exprs, LAMBDA i : Build(e.exprs[i], Child(p, i), loops))

(* BuildGenericProcedure: the code of the body, and a trailing return.     *)
Procedure(body) == Build(body, 1, <<>>) \o <<Instr("ret", 0)>>

=============================================================================
