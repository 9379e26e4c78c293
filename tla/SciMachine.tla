----------------------------- MODULE SciMachine -----------------------------
(***************************************************************************)
(* The instructions of the SCI interpreter and what they do, as the        *)
(* compiler relies on it: the header of scic/codegen/opcodes.hpp and the   *)
(* comments on FunctionBuilder in scic/codegen/code_generator.hpp.  The    *)
(* interpreter itself is not part of the repository.                       *)
(*                                                                         *)
(* Instructions that differ only in the arithmetic they do, in the number  *)
(* of argument bytes or in where a procedure is found are told apart by    *)
(* their name alone.                                                       *)
(***************************************************************************)
EXTENDS Integers, Sequences, TLC

UnaryOps == {"bnot", "neg", "not"}
ArithmeticOps ==
  {"add", "sub", "mul", "div", "mod", "shr", "shl", "xor", "and", "or"}
CompareOps == {"eq", "ne", "gt", "ge", "lt", "le", "ugt", "uge", "ult", "ule"}
BinaryOps == ArithmeticOps \cup CompareOps
BranchOps == {"bt", "bnt", "jmp"}
CallOps == {"call", "callk", "callb", "calle"}
SendOps == {"send", "self", "super"}
AccessOps == {"load", "store", "inc", "dec"}
VarClasses == {"global", "local", "tmp", "parm"}
PropOps == {"pToa", "aTop", "pTos", "sTop", "ipToa", "dpToa", "ipTos", "dpTos"}

Ops == UnaryOps \cup BinaryOps \cup BranchOps \cup CallOps \cup SendOps
       \cup AccessOps \cup PropOps
       \cup {"label", "loadi", "push", "pushi", "push0", "push1", "push2",
             "pushSelf", "toss", "dup", "link", "ret", "class", "rest", "lea",
             "selfID", "pprev", "lofsa", "lofss"}

(* An instruction: its operand (a value, an offset, a label, the number of *)
(* words a call or a send takes), and for a variable access the class of   *)
(* the variable, OP_STACK and OP_INDEX.                                    *)
Instruction == [op : Ops, arg : Int, var : VarClasses \cup {"none"},
                stack : BOOLEAN, index : BOOLEAN]

Instr(op, arg) ==
  [op |-> op, arg |-> arg, var |-> "none", stack |-> FALSE, index |-> FALSE]

Access(op, var, addr, stack, index) ==
  [op |-> op, arg |-> addr, var |-> var, stack |-> stack, index |-> index]

-----------------------------------------------------------------------------
(* The state of the interpreter in one procedure.  mem holds the variables *)
(* and properties by class and offset, calls what was called with what.    *)

Self == 500

(* What the accumulator holds after an indexed store is not said anywhere. *)
Unspecified == 900

At(var, addr) == <<var, addr>>

Fetch(s, cell) == IF cell \in DOMAIN s.mem THEN s.mem[cell] ELSE 0

Top(s) == s.stack[Len(s.stack)]
Drop(s, n) == SubSeq(s.stack, 1, Len(s.stack) - n)
Truth(b) == IF b THEN 1 ELSE 0

Compute(op, left, right) ==
  CASE op = "add" -> left + right
    [] op = "sub" -> left - right
    [] op = "eq"  -> Truth(left = right)
    [] op = "ne"  -> Truth(left # right)
    [] op = "lt"  -> Truth(left < right)
    [] op = "gt"  -> Truth(left > right)
    [] OTHER      -> 7 * left + 3 * right

(* The cell of a variable access; an indexed one adds the accumulator.     *)
CellOf(s, i) == At(i.var, i.arg + (IF i.index THEN s.acc ELSE 0))

(* How many words an instruction takes from the stack.                     *)
Takes(i) ==
  CASE i.op \in BinaryOps \cup {"toss", "sTop"} -> 1
    [] i.op = "dup" -> 1
    [] i.op = "store" /\ i.stack -> 1
    [] i.op \in CallOps -> i.arg + 1
    [] i.op \in SendOps -> i.arg
    [] OTHER -> 0

SetAcc(s, v) == [s EXCEPT !.acc = v]
Push(s, v) == [s EXCEPT !.stack = Append(@, v)]
Put(s, cell, v) ==
  [s EXCEPT !.mem = [c \in DOMAIN @ \cup {cell} |-> IF c = cell THEN v ELSE @[c]]]

(* A call: whoever is called may change every variable there is.           *)
Invoke(s, receiver, n) ==
  [s EXCEPT !.stack = Drop(s, n),
            !.acc = 40 + Len(s.calls),
            !.mem = [c \in DOMAIN s.mem |-> s.mem[c] + 1],
            !.calls = Append(@, <<receiver, SubSeq(s.stack, Len(s.stack) - n + 1,
                                                   Len(s.stack))>>)]

Increment(s, cell, d) == Put(s, cell, Fetch(s, cell) + d)

(* The effect of an instruction other than a branch or a return.           *)
Effect(s, i) ==
  CASE i.op = "loadi"  -> SetAcc(s, i.arg)
    [] i.op = "class"  -> SetAcc(s, 1000 + i.arg)
    [] i.op = "lofsa"  -> SetAcc(s, 2000 + i.arg)
    [] i.op = "lea"    -> SetAcc(s, 3000 + CellOf(s, i)[2])
    [] i.op = "selfID" -> SetAcc(s, Self)
    [] i.op = "push"   -> Push(s, s.acc)
    [] i.op = "pushi"  -> Push(s, i.arg)
    [] i.op = "push0"  -> Push(s, 0)
    [] i.op = "push1"  -> Push(s, 1)
    [] i.op = "push2"  -> Push(s, 2)
    [] i.op = "pushSelf" -> Push(s, Self)
    [] i.op = "pprev"  -> Push(s, s.prev)
    [] i.op = "lofss"  -> Push(s, 2000 + i.arg)
    [] i.op = "dup"    -> Push(s, Top(s))
    [] i.op = "toss"   -> [s EXCEPT !.stack = Drop(s, 1)]
    [] i.op \in UnaryOps ->
         SetAcc(s, IF i.op = "not" THEN Truth(s.acc = 0) ELSE -s.acc)
    [] i.op \in BinaryOps ->
         [s EXCEPT !.acc = Compute(i.op, Top(s), s.acc),
                   !.prev = IF i.op \in CompareOps THEN s.acc ELSE @,
                   !.stack = Drop(s, 1)]
    [] i.op = "load" ->
         IF i.stack THEN Push(s, Fetch(s, CellOf(s, i)))
         ELSE SetAcc(s, Fetch(s, CellOf(s, i)))
    [] i.op = "store" ->
         LET value == IF i.stack THEN Top(s) ELSE s.acc
             taken == IF i.stack THEN [s EXCEPT !.stack = Drop(s, 1)] ELSE s
         IN  Put(IF i.index THEN SetAcc(taken, Unspecified) ELSE taken,
                 CellOf(s, i), value)
    [] i.op \in {"inc", "dec"} ->
         LET after == Increment(s, CellOf(s, i), IF i.op = "inc" THEN 1 ELSE -1)
         IN  SetAcc(after, Fetch(after, CellOf(s, i)))
    [] i.op = "pToa" -> SetAcc(s, Fetch(s, At("prop", i.arg)))
    [] i.op = "pTos" -> Push(s, Fetch(s, At("prop", i.arg)))
    [] i.op = "aTop" -> Put(s, At("prop", i.arg), s.acc)
    [] i.op \in {"ipToa", "dpToa"} ->
         LET after == Increment(s, At("prop", i.arg),
                                IF i.op = "ipToa" THEN 1 ELSE -1)
         IN  SetAcc(after, Fetch(after, At("prop", i.arg)))
    [] i.op \in CallOps -> Invoke(s, 0, i.arg + 1)
    [] i.op = "send" -> Invoke(s, s.acc, i.arg)
    [] i.op \in {"self", "super"} -> Invoke(s, Self, i.arg)
    [] OTHER -> s

LabelAt(code, l) ==
  CHOOSE n \in 1..Len(code) : code[n].op = "label" /\ code[n].arg = l

Jumps(s, i) == \/ i.op = "jmp"
               \/ i.op = "bt" /\ s.acc # 0
               \/ i.op = "bnt" /\ s.acc = 0

(* One instruction.  Taking more from the stack than there is, or running  *)
(* off the end, is a fault.                                                *)
Step(code, s) ==
  IF s.status # "running" THEN s
  ELSE IF s.pc \notin 1..Len(code) \/ Takes(code[s.pc]) > Len(s.stack)
  THEN [s EXCEPT !.status = "fault"]
  ELSE LET i == code[s.pc]
       IN  IF i.op = "ret" THEN [s EXCEPT !.status = "done"]
           ELSE IF i.op \in BranchOps
           THEN [s EXCEPT !.pc = IF Jumps(s, i) THEN LabelAt(code, i.arg)
                                 ELSE @ + 1]
           ELSE [Effect(s, i) EXCEPT !.pc = @ + 1]

(* The state after at most n instructions.                                 *)
Run(code, s, n) ==
  LET run[k \in 0..n] == IF k = 0 THEN s ELSE Step(code, run[k - 1])
  IN  IF s.status = "running" THEN run[n] ELSE s

Start(acc, stack, mem) ==
  [acc |-> acc, prev |-> 0, stack |-> stack, mem |-> mem, calls |-> <<>>,
   pc |-> 1, status |-> "running"]

(* What can be seen of a procedure: how it ended, the value it returns and *)
(* what it did to the stack, the variables and others.                     *)
Outcome(s) == IF s.status = "running" THEN <<"running">>
              ELSE <<s.status, s.acc, s.stack, s.mem, s.calls>>

=============================================================================
