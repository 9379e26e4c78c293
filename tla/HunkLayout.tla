----------------------------- MODULE HunkLayout -----------------------------
(***************************************************************************)
(* How the code generator lays out and writes the code hunk of a script    *)
(* (scic/codegen: OptimizeHunk and CodeGenerator::Assemble in              *)
(* code_generator.cpp, ANode::setOffset/tryShrink/emit in anode.cpp and    *)
(* anode_impls.cpp, ANComposite in alist.hpp, FixupList::emit).            *)
(*                                                                         *)
(* Every node of the hunk gets an offset in a first pass, with every jump  *)
(* and call at its word length.  Then passes over the nodes shorten the    *)
(* jumps and calls whose target is near, judging by the offsets of the     *)
(* previous pass, and lay the nodes out again, until no node shrinks.  The *)
(* emitter then writes the nodes in order.  The tree of composite nodes is *)
(* flattened into the order in which its leaves are visited; a code block  *)
(* (the target of a call) is a node of no bytes before its contents, as a  *)
(* label is.  A run of instructions that never change length may stand as  *)
(* one "op" node.                                                          *)
(***************************************************************************)
EXTENDS HunkNodes

CONSTANTS
  Programs,   (* the hunks to lay out: a set of sequences of nodes        *)
  SciTarget   (* the architecture: "SCI_1_1" or "SCI_2"                   *)

ASSUME ProgramsAssumption == \A p \in Programs : IsProgram(p)
ASSUME SciTargetAssumption == SciTarget \in {"SCI_1_1", "SCI_2"}

VARIABLES
  prog,      (* the nodes of the hunk, in order                            *)
  opByte,    (* opByte[i]: OP_BYTE is set in the op of node i              *)
  offset,    (* offset[i] of node i; offset[Len + 1] is the returned end   *)
  previous,  (* history: the offsets of the last complete pass             *)
  phase,     (* what Assemble is doing                                     *)
  cursor,    (* the node the current pass is at                            *)
  changed,   (* some node shrank in this tryShrink pass                    *)
  out        (* what was written, a record for each node                   *)

vars == <<prog, opByte, offset, previous, phase, cursor, changed, out>>

Unset == -1

Nodes == 1..Len(prog)
End == Len(prog) + 1

IsTransfer(i) == prog[i].kind \in Transfers
IsResolved(i) == IsTransfer(i) /\ prog[i].target # 0

-----------------------------------------------------------------------------
(* Sizes.                                                                  *)

(* Mutant: every architecture writes a word.                               *)
NumArgsWritten_Word == 2

(* The bytes WriteNumArgs writes: the SCI_2 strategy writes a word.        *)
NumArgsWritten == IF SciTarget = "SCI_2" THEN 2 ELSE 1

Size(i) == SizeOf(prog[i], opByte[i])

(* How many bytes emit() writes for a node.                                *)
Written(i) ==
  IF prog[i].kind \in {"send", "call"}
  THEN Size(i) - NumArgsSize + NumArgsWritten
  ELSE Size(i)

-----------------------------------------------------------------------------
(* Distances.                                                              *)

(* Mutant: a call is taken to be as short as a branch.                     *)
Reference_OfBranch(i) == offset[i] + 4

(* What a transfer of each kind adds to its own offset before it compares. *)
Reference(i) == offset[i] + (IF prog[i].kind = "call" THEN 5 ELSE 4)

IsNear(i) == canOptimizeTransfer(offset[prog[i].target], Reference(i))

(* A displacement as the interpreter reads it back: a signed field.        *)
AsSigned(n, isByte) ==
  LET range == IF isByte THEN 256 ELSE 65536
      low == n % range
  IN  IF low < range \div 2 THEN low ELSE low - range

-----------------------------------------------------------------------------
Init ==
  /\ prog \in Programs
  /\ opByte = [i \in Nodes |-> FALSE]
  /\ offset = [[i \in 1..End |-> Unset] EXCEPT ![1] = 0]
  /\ previous = [i \in 1..End |-> Unset]
  /\ phase = "setOffset"
  /\ cursor = 1
  /\ changed = FALSE
  /\ out = <<>>

(* setOffset of one node: the node after it starts where it ends.          *)
SetOffset ==
  /\ phase \in {"setOffset", "emitSetOffset"}
  /\ cursor \in Nodes
  /\ offset' = [offset EXCEPT ![cursor + 1] = offset[cursor] + Size(cursor)]
  /\ cursor' = cursor + 1
  /\ UNCHANGED <<prog, opByte, previous, phase, changed, out>>

(* Mutant: the next pass starts before the first node.                     *)
EndSetOffset_FromZero ==
  /\ phase \in {"setOffset", "emitSetOffset"}
  /\ cursor = End
  /\ phase' = IF phase = "setOffset" THEN "tryShrink" ELSE "emit"
  /\ cursor' = 0
  /\ changed' = FALSE
  /\ previous' = offset
  /\ UNCHANGED <<prog, opByte, offset, out>>

(* The pass is over: the shrinking loop goes on to its tryShrink, the      *)
(* emitter to writing.                                                     *)
EndSetOffset ==
  /\ phase \in {"setOffset", "emitSetOffset"}
  /\ cursor = End
  /\ phase' = IF phase = "setOffset" THEN "tryShrink" ELSE "emit"
  /\ cursor' = 1
  /\ changed' = FALSE
  /\ previous' = offset
  /\ UNCHANGED <<prog, opByte, offset, out>>

(* Mutant: the byte flag is flipped instead of set.                        *)
TryShrink_Flip ==
  /\ phase = "tryShrink"
  /\ cursor \in Nodes
  /\ opByte' = IF IsResolved(cursor) /\ IsNear(cursor)
               THEN [opByte EXCEPT ![cursor] = ~@]
               ELSE opByte
  /\ changed' = (changed \/ SizeOf(prog[cursor], opByte'[cursor]) < Size(cursor))
  /\ cursor' = cursor + 1
  /\ UNCHANGED <<prog, offset, previous, phase, out>>

(* Mutant: calls are never shortened.                                      *)
TryShrink_BranchesOnly ==
  /\ phase = "tryShrink"
  /\ cursor \in Nodes
  /\ opByte' = IF IsResolved(cursor) /\ prog[cursor].kind = "branch"
               THEN [opByte EXCEPT ![cursor] = IsNear(cursor)]
               ELSE opByte
  /\ changed' = (changed \/ SizeOf(prog[cursor], opByte'[cursor]) < Size(cursor))
  /\ cursor' = cursor + 1
  /\ UNCHANGED <<prog, offset, previous, phase, out>>

(* tryShrink of one node.  A transfer with a target is made byte or word   *)
(* by the offsets of the last layout pass; nothing else does anything.     *)
TryShrink ==
  /\ phase = "tryShrink"
  /\ cursor \in Nodes
  /\ opByte' = IF IsResolved(cursor)
               THEN [opByte EXCEPT ![cursor] = IsNear(cursor)]
               ELSE opByte
  /\ changed' = (changed \/ SizeOf(prog[cursor], opByte'[cursor]) < Size(cursor))
  /\ cursor' = cursor + 1
  /\ UNCHANGED <<prog, offset, previous, phase, out>>

(* Mutant: another layout pass follows in any case.                       *)
EndTryShrink_Always ==
  /\ phase = "tryShrink" /\ cursor = End
  /\ phase' = "setOffset"
  /\ cursor' = 1
  /\ UNCHANGED <<prog, opByte, offset, previous, changed, out>>

(* A pass in which some node shrank is followed by another layout pass.    *)
EndTryShrink ==
  /\ phase = "tryShrink"
  /\ cursor = End
  /\ phase' = IF changed THEN "setOffset" ELSE "emitSetOffset"
  /\ cursor' = 1
  /\ UNCHANGED <<prog, opByte, offset, previous, changed, out>>

(* emit of one node.                                                       *)
Position == IF out = <<>> THEN 0 ELSE out[Len(out)].next

(* Mutant: the displacement is measured from the start of the instruction. *)
Displacement_FromStart(i) == offset[prog[i].target] - offset[i]

Displacement(i) == offset[prog[i].target] - (offset[i] + Size(i))

Emit ==
  /\ phase = "emit"
  /\ cursor \in Nodes
  /\ IsTransfer(cursor) => IsResolved(cursor)
  /\ out' = Append(out,
       [at   |-> Position,
        next |-> Position + Written(cursor),
        disp |-> IF IsTransfer(cursor)
                 THEN AsSigned(Displacement(cursor), opByte[cursor])
                 ELSE 0])
  /\ cursor' = cursor + 1
  /\ UNCHANGED <<prog, opByte, offset, previous, phase, changed>>

(* A call of a procedure that has no code: emit throws.                    *)
EmitUndefined ==
  /\ phase = "emit"
  /\ cursor \in Nodes
  /\ IsTransfer(cursor) /\ ~IsResolved(cursor)
  /\ phase' = "undefinedProcedure"
  /\ UNCHANGED <<prog, opByte, offset, previous, cursor, changed, out>>

EndEmit ==
  /\ phase = "emit"
  /\ cursor = End
  /\ phase' = "done"
  /\ UNCHANGED <<prog, opByte, offset, previous, cursor, changed, out>>

Next ==
  \/ SetOffset \/ EndSetOffset
  \/ TryShrink \/ EndTryShrink
  \/ Emit \/ EmitUndefined \/ EndEmit

Spec == Init /\ [][Next]_vars

(* One thread runs Assemble from beginning to end.                         *)
FairSpec == Spec /\ WF_vars(Next)

-----------------------------------------------------------------------------
(* Type invariant: the flags and offsets are of the hunk being laid out,   *)
(* and an offset is missing only before the first layout pass reaches it.  *)
TypeOK ==
  /\ prog \in Programs
  /\ opByte \in [Nodes -> BOOLEAN]
  /\ offset \in [1..End -> Nat \cup {Unset}]
  /\ previous \in [1..End -> Nat \cup {Unset}]
  /\ phase \in {"setOffset", "tryShrink", "emitSetOffset", "emit", "done",
                "undefinedProcedure"}
  /\ cursor \in 1..End
  /\ changed \in BOOLEAN
  /\ out \in Seq([at : Nat, next : Nat, disp : Int])

(* The code hunk is fixed: what is written must be what was laid out.      *)
IsSettled == phase \in {"emit", "done", "undefinedProcedure"}

(* Once a jump or call has been shortened, no later pass makes it long     *)
(* again, although tryShrink decides anew from the current offsets each    *)
(* time (anode_impls.cpp: both branches of the test assign OP_BYTE).  The  *)
(* loop of OptimizeHunk stops only because of this.                        *)
ShortStaysShort ==
  [][\A i \in Nodes : opByte[i] => opByte'[i]]_vars

(* When emission begins no offset is stale: every node starts where its    *)
(* predecessor, at its final length, ends.                                 *)
LayoutIsTight ==
  IsSettled => /\ offset[1] = 0
               /\ \A i \in Nodes : offset[i + 1] = offset[i] + Size(i)

(* The shrinking loop ends at a fixed point: in the layout that is written *)
(* a transfer with a target is short exactly if its target is near.        *)
ShrunkAsFarAsItGoes ==
  IsSettled => \A i \in Nodes : IsResolved(i) => (opByte[i] <=> IsNear(i))

(* The displacement of a short transfer, measured from the end of the      *)
(* instruction although it was judged from another point, is -125..128.    *)
ShortDisplacementBound ==
  IsSettled =>
    \A i \in Nodes : IsResolved(i) /\ opByte[i] => Displacement(i) \in -125..128

(* Every node is written at the offset the layout gave it.                 *)
WrittenWhereLaidOut ==
  \A i \in 1..Len(out) : out[i].at = offset[i]

(* Where the interpreter goes when it runs the transfer written for i.     *)
Landing(i) == out[i].next + out[i].disp

Destination(i) == out[prog[i].target].at

(* A written transfer lands on its target, but for the one displacement    *)
(* that passes the nearness test and does not fit a signed byte.           *)
TransfersLandOrWrap ==
  phase = "done" =>
    \A i \in Nodes : IsTransfer(i) =>
      \/ Landing(i) = Destination(i)
      \/ opByte[i] /\ Destination(i) - out[i].next = 128

(* The abstract specification, of which HunkLayout is an implementation.   *)
Relaxation == INSTANCE BranchRelaxation WITH
  short <- {i \in Nodes : opByte[i]},
  settled <- phase \notin {"setOffset", "tryShrink"}

(* Every step of the layout is a step of the relaxation, or none.          *)
RefinesRelaxation == Relaxation!Spec

(* The layout that is written is the one any order would have led to.      *)
SettlesOnLeast == Relaxation!OrderDoesNotMatter

(* Assemble ends: the shrinking loop does not go round forever.            *)
Termination == <>(phase \in {"done", "undefinedProcedure"})

=============================================================================
