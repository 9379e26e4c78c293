------------------------------ MODULE Peephole ------------------------------
(***************************************************************************)
(* The peephole optimizer of a procedure: OptimizeProc in                  *)
(* scic/codegen/optimize.cpp, called again and again by OptimizeHunk       *)
(* (scic/codegen/code_generator.cpp) until a pass changes nothing.         *)
(*                                                                         *)
(* A pass walks once over the instructions.  It keeps in mind what the     *)
(* accumulator and the top of the stack hold, and replaces or removes      *)
(* instructions by what it knows.  The list is edited in place, so what    *)
(* follows the cursor changes under it.  The byte flag of an op, which     *)
(* the optimizer masks or carries along, is left out.                      *)
(***************************************************************************)
EXTENDS SciMachine, SequencesExt

CONSTANT Procs      (* the procedures to optimize: sequences of instructions *)

(* What the code generator hands over: BuildGenericProcedure ends every    *)
(* procedure with a return, what is pushed or stored was computed first,   *)
(* the arguments of a call are counted, and every branch has its label,    *)
(* once.                                                                   *)
IsProc(p) ==
  /\ p \in Seq(Instruction)
  /\ Len(p) > 0
  /\ p[Len(p)].op = "ret"
  /\ p[1].op \notin {"push", "store"}
  /\ \A i \in 1..Len(p) : p[i].op \in CallOps \cup SendOps => p[i].arg >= 0
  /\ \A i \in 1..Len(p) :
       p[i].op \in BranchOps =>
         \E j \in 1..Len(p) : p[j].op = "label" /\ p[j].arg = p[i].arg
  /\ \A i, j \in 1..Len(p) :
       p[i].op = "label" /\ p[j].op = "label" /\ p[i].arg = p[j].arg => i = j

ASSUME ProcsAssumption == \A p \in Procs : IsProc(p)

VARIABLES
  source,    (* history: the procedure as it was handed over               *)
  list,      (* its instructions now                                       *)
  cursor,    (* the instruction the pass is at                             *)
  accum,     (* accType and accVal                                         *)
  top,       (* stackType and stackVal                                     *)
  changed,   (* nOptimizations # 0                                         *)
  hop,       (* the label a branch is being led on from, or None           *)
  phase      (* "pass" or "done"                                           *)

vars == <<source, list, cursor, accum, top, changed, hop, phase>>

None == -1

(* What is known of a place: what kind of thing it holds, and which.       *)
Known(type, val) == [type |-> type, val |-> val]
Unknown == Known("unknown", 0)

Types == {"unknown", "imm", "prop", "self"} \cup VarClasses

-----------------------------------------------------------------------------
(* Does the accumulator matter to what follows?                            *)

(* The ops OpReadsAccum says read the accumulator, the cautious ones too.  *)
ReadingOps ==
  UnaryOps \cup BinaryOps \cup BranchOps
  \cup {"push", "call", "ret", "send", "aTop", "lofsa", "lofss",
        "push0", "push1", "push2", "pushSelf"}

OpReadsAccum(i) ==
  \/ i.op \in ReadingOps
  \/ i.op = "lea" /\ i.index
  \/ i.op = "store" /\ ~i.stack
  \/ i.op \in AccessOps /\ i.index

OpCanModifyAccum(i) ==
  \/ i.op \in UnaryOps \cup BinaryOps \cup CallOps \cup SendOps
  \/ i.op \in {"loadi", "class", "lea", "selfID", "lofsa"}
  \/ i.op \in {"pToa", "ipToa", "dpToa"}
  \/ i.op \in AccessOps /\ i.op # "store" /\ ~i.stack

(* From n on the accumulator is overwritten before anything reads it.      *)
ExecutionClobbersAccum(code, n) ==
  \E j \in n..Len(code) :
    /\ \A k \in n..j : ~OpReadsAccum(code[k])
    /\ OpCanModifyAccum(code[j])

(* The first op after a label that is not a label itself.                  *)
FindNextOp(code, label) ==
  CHOOSE n \in (LabelAt(code, label) + 1)..Len(code) :
    /\ code[n].op # "label"
    /\ \A k \in (LabelAt(code, label) + 1)..(n - 1) : code[k].op = "label"

-----------------------------------------------------------------------------
(* A pass starts with locals that know nothing.                            *)
Begin(p) ==
  /\ source = p
  /\ list = p
  /\ cursor = 1
  /\ accum = Unknown
  /\ top = Unknown
  /\ changed = FALSE
  /\ hop = None

Init == phase = "pass" /\ \E p \in Procs : Begin(p)

It == list[cursor]

(* The pass has come to one of these ops.                                  *)
Reached(ops) ==
  /\ phase = "pass"
  /\ hop = None
  /\ cursor <= Len(list)
  /\ It.op \in ops
  /\ UNCHANGED <<source, phase>>

NextOp == list[cursor + 1].op

Value == Known("imm", It.arg)
Variable == Known(It.var, It.arg)

Advance == cursor' = cursor + 1 /\ hop' = None

Replace(i) == list' = [list EXCEPT ![cursor] = i]
RemoveOp(n) == list' = RemoveAt(list, n)

(* iterator::remove() leaves the iterator at the node it has destroyed,    *)
(* and the loop then reads its next pointer, which was cleared: the pass   *)
(* ends there, or goes on to what followed, as the freed memory has it.    *)
RemoveIt ==
  /\ RemoveOp(cursor)
  /\ cursor' \in {cursor, Len(list)}
  /\ hop' = None

Keep == list' = list /\ Advance /\ UNCHANGED changed

-----------------------------------------------------------------------------
ForgetAccum ==
  /\ Reached(UnaryOps \cup {"class", "lofsa", "ipToa", "dpToa"})
  /\ accum' = Unknown
  /\ UNCHANGED top
  /\ Keep

ForgetBoth ==
  /\ Reached(BinaryOps \cup CallOps \cup SendOps \cup {"lea", "label", "lofss"})
  /\ accum' = Unknown
  /\ top' = Unknown
  /\ Keep

ForgetTop ==
  /\ Reached({"link", "toss", "ipTos", "dpTos"})
  /\ top' = Unknown
  /\ UNCHANGED accum
  /\ Keep

(* Mutant: the pass does not note what was pushed.                         *)
PushAccum_Unnoticed ==
  /\ Reached({"push"})
  /\ UNCHANGED <<accum, top>>
  /\ Keep

PushAccum ==
  /\ Reached({"push"})
  /\ top' = accum
  /\ UNCHANGED accum
  /\ Keep

PushKnown ==
  /\ Reached({"push0", "push1", "push2", "pushSelf"})
  /\ top' = CASE It.op = "push0" -> Known("imm", 0)
              [] It.op = "push1" -> Known("imm", 1)
              [] It.op = "push2" -> Known("imm", 2)
              [] It.op = "pushSelf" -> Known("self", 0)
  /\ UNCHANGED accum
  /\ Keep

ShortPush == CASE It.arg = 0 -> "push0" [] It.arg = 1 -> "push1"
               [] It.arg = 2 -> "push2" [] OTHER -> "pushi"

(* A constant is pushed by the shortest instruction that pushes it.        *)
PushImmediate ==
  /\ Reached({"pushi"})
  /\ \/ /\ It.arg \in 0..2 \/ accum = Value \/ top = Value
        /\ Replace(Instr(IF It.arg \in 0..2 THEN ShortPush
                         ELSE IF accum = Value THEN "push" ELSE "dup", 0))
        /\ changed' = TRUE
     \/ /\ ~(It.arg \in 0..2 \/ accum = Value \/ top = Value)
        /\ UNCHANGED <<list, changed>>
  /\ top' = Value
  /\ UNCHANGED accum
  /\ Advance

(* The second of two returns is never reached.                             *)
Return ==
  /\ Reached({"ret"})
  /\ IF cursor < Len(list) /\ NextOp = "ret"
     THEN RemoveOp(cursor + 1) /\ changed' = TRUE
     ELSE UNCHANGED <<list, changed>>
  /\ UNCHANGED <<accum, top>>
  /\ Advance

LoadImmediate ==
  /\ Reached({"loadi"})
  /\ \/ /\ NextOp = "push"
        /\ list' = RemoveAt([list EXCEPT ![cursor] = Instr("pushi", It.arg)],
                            cursor + 1)
        /\ accum' = Unknown
        /\ top' = Value
        /\ changed' = TRUE
        /\ Advance
     \/ /\ NextOp # "push"
        /\ accum = Value
        /\ RemoveIt
        /\ changed' = TRUE
        /\ UNCHANGED <<accum, top>>
     \/ /\ NextOp # "push"
        /\ accum # Value
        /\ accum' = Value
        /\ UNCHANGED top
        /\ Keep

(* Mutant: a branch to itself is followed, too.                            *)
LeadsOn_Itself(i, next) == next.op = "jmp" \/ next.op = i.op

(* A branch to a branch that will be taken goes where that one goes.       *)
LeadsOn(i, next) ==
  /\ next.op = "jmp" \/ next.op = i.op
  /\ next.arg # hop

Branch ==
  /\ Reached(BranchOps)
  /\ hop' = It.arg
  /\ UNCHANGED <<list, cursor, accum, top, changed>>

FollowBranch ==
  /\ phase = "pass"
  /\ hop # None
  /\ LET next == list[FindNextOp(list, hop)]
     IN  IF LeadsOn(It, next)
         THEN /\ Replace([It EXCEPT !.arg = next.arg])
              /\ hop' = next.arg
              /\ changed' = TRUE
              /\ UNCHANGED cursor
         ELSE Keep
  /\ UNCHANGED <<source, accum, top, phase>>

Property == Known("prop", It.arg)

LoadProperty ==
  /\ Reached({"pToa"})
  /\ \/ /\ NextOp = "push"
        /\ list' = RemoveAt([list EXCEPT ![cursor].op = "pTos"], cursor + 1)
        /\ accum' = Unknown
        /\ top' = accum
        /\ changed' = TRUE
        /\ Advance
     \/ /\ NextOp # "push"
        /\ accum = Property
        /\ RemoveIt
        /\ changed' = TRUE
        /\ UNCHANGED <<accum, top>>
     \/ /\ NextOp # "push"
        /\ accum # Property
        /\ accum' = Property
        /\ UNCHANGED top
        /\ Keep

(* The variable bits of op_pTos, which no property has, read "parameter".  *)
PushProperty ==
  /\ Reached({"pTos"})
  /\ IF accum = Property \/ top = Property
     THEN /\ Replace(Instr(IF accum = Property THEN "push" ELSE "dup", 0))
          /\ changed' = TRUE
          /\ UNCHANGED top
     ELSE /\ top' = Known("parm", It.arg)
          /\ UNCHANGED <<list, changed>>
  /\ UNCHANGED accum
  /\ Advance

LoadSelf ==
  /\ Reached({"selfID"})
  /\ \/ /\ NextOp = "push"
        /\ list' = RemoveAt([list EXCEPT ![cursor].op = "pushSelf"], cursor + 1)
        /\ top' = Known("self", 0)
        /\ changed' = TRUE
        /\ UNCHANGED accum
     \/ /\ NextOp = "send"
        /\ list' = RemoveAt([list EXCEPT ![cursor] =
                               Instr("self", list[cursor + 1].arg)], cursor + 1)
        /\ accum' = Unknown
        /\ top' = Unknown
        /\ changed' = TRUE
     \/ /\ NextOp \notin {"push", "send"}
        /\ accum' = Unknown
        /\ UNCHANGED <<list, top, changed>>
  /\ Advance

(* The value to store was just pushed from the accumulator.                *)
FollowsPush ==
  /\ list[cursor - 1].op = "push"
  /\ It.stack
  /\ ~It.index

StoreVariable ==
  /\ Reached({"store"})
  /\ IF FollowsPush
     THEN /\ list' = RemoveAt([list EXCEPT ![cursor].stack = FALSE], cursor - 1)
          /\ cursor' = cursor
          /\ changed' = TRUE
     ELSE /\ cursor' = cursor + 1
          /\ UNCHANGED <<list, changed>>
  /\ accum' = Unknown
  /\ top' = Unknown
  /\ hop' = None

IncDecVariable ==
  /\ Reached({"inc", "dec"})
  /\ IF It.index THEN accum' = Unknown /\ top' = Unknown
     ELSE accum' = Variable /\ UNCHANGED top
  /\ Keep

(* Mutant: the accumulator is not looked after.                            *)
IsPushedOnly_Always ==
  /\ ~It.stack
  /\ NextOp = "push"

(* A load into the accumulator only to push it.                            *)
IsPushedOnly ==
  /\ ~It.stack
  /\ NextOp = "push"
  /\ ExecutionClobbersAccum(list, cursor + 2)

(* A load to the stack: of what acc and stk, the knowledge so far, say is  *)
(* there already, or of something new.                                     *)
StackLoad(code, acc, stk) ==
  /\ list' = IF acc = Variable THEN [code EXCEPT ![cursor] = Instr("push", 0)]
             ELSE IF stk = Variable THEN [code EXCEPT ![cursor] = Instr("dup", 0)]
             ELSE code
  /\ top' = IF acc = Variable THEN acc
            ELSE IF stk = Variable THEN stk
            ELSE IF It.index THEN Unknown
            ELSE Variable

LoadVariable ==
  /\ Reached({"load"})
  /\ LET redundant == ~It.stack /\ ~It.index /\ accum = Variable
     IN  \/ /\ redundant
            /\ RemoveIt
            /\ changed' = TRUE
            /\ UNCHANGED <<accum, top>>
         \/ /\ ~redundant
            /\ IsPushedOnly
            /\ accum' = Unknown
            /\ StackLoad(RemoveAt([list EXCEPT ![cursor].stack = TRUE],
                                  cursor + 1), Unknown, accum)
            /\ changed' = TRUE
            /\ Advance
         \/ /\ ~redundant
            /\ ~IsPushedOnly
            /\ ~It.stack
            /\ accum' = Variable
            /\ UNCHANGED top
            /\ Keep
         \/ /\ It.stack
            /\ StackLoad(list, accum, top)
            /\ changed' = (changed \/ list' # list)
            /\ UNCHANGED accum
            /\ Advance

(* The default case: nothing to do, and nothing forgotten.                 *)
PassOver ==
  /\ Reached({"dup", "aTop", "sTop", "rest", "pprev"})
  /\ UNCHANGED <<accum, top>>
  /\ Keep

(* OptimizeHunk: as long as a pass changed something there is another.     *)
EndPass ==
  /\ phase = "pass"
  /\ hop = None
  /\ cursor > Len(list)
  /\ cursor' = 1
  /\ accum' = Unknown
  /\ top' = Unknown
  /\ changed' = FALSE
  /\ phase' = IF changed THEN "pass" ELSE "done"
  /\ UNCHANGED <<source, list, hop>>

Next ==
  \/ ForgetAccum \/ ForgetBoth \/ ForgetTop
  \/ PushAccum \/ PushKnown \/ PushImmediate
  \/ Return \/ LoadImmediate
  \/ Branch \/ FollowBranch
  \/ LoadProperty \/ PushProperty \/ LoadSelf
  \/ StoreVariable \/ IncDecVariable \/ LoadVariable
  \/ PassOver \/ EndPass

Spec == Init /\ [][Next]_vars

(* One thread runs the optimizer.                                          *)
FairSpec == Spec /\ WF_vars(Next)

=============================================================================
