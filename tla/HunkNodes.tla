----------------------------- MODULE HunkNodes ------------------------------
(***************************************************************************)
(* The nodes of a code hunk as far as its layout tells them apart: how     *)
(* long they are (size() of the ANode classes in scic/codegen/             *)
(* anode_impls.cpp) and when a transfer may be a short one.                *)
(***************************************************************************)
EXTENDS Integers, Sequences

Kinds == {"op", "send", "label", "branch", "call"}

Transfers == {"branch", "call"}

(* A node: its kind, the bytes it takes besides an argument count ("op"    *)
(* and "send" only), and the index of the node it jumps to or calls, 0 for *)
(* a call of a procedure that is declared and never defined.               *)
Node == [kind : Kinds, size : Nat, target : Nat]

(* ExprBuilder places every label it makes, so a branch always has one.    *)
IsProgram(p) ==
  /\ p \in Seq(Node)
  /\ Len(p) > 0
  /\ \A i \in 1..Len(p) :
       /\ p[i].kind = "branch" => /\ p[i].target \in 1..Len(p)
                                  /\ p[p[i].target].kind = "label"
       /\ p[i].kind = "call" => \/ p[i].target = 0
                                \/ /\ p[i].target \in 1..Len(p)
                                   /\ p[p[i].target].kind = "label"

NumArgsSize == 1

(* size() of a node, given whether its op has OP_BYTE set.                 *)
SizeOf(node, isByte) ==
  CASE node.kind = "op"     -> node.size
    [] node.kind = "send"   -> node.size + NumArgsSize
    [] node.kind = "label"  -> 0
    [] node.kind = "branch" -> IF isByte THEN 2 ELSE 3
    [] node.kind = "call"   -> (IF isByte THEN 2 ELSE 3) + NumArgsSize

Distance(a, b) == IF a < b THEN b - a ELSE a - b

canOptimizeTransfer(a, b) == Distance(a, b) < 128

=============================================================================
