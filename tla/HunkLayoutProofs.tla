-------------------------- MODULE HunkLayoutProofs --------------------------
(***************************************************************************)
(* Proofs about HunkLayout, for hunks of any length.  The argument: sizes  *)
(* never grow, so from one layout pass to the next no two nodes get        *)
(* farther apart, so a target that was near stays near, so no transfer     *)
(* becomes long again.  The history variable "previous" holds the offsets  *)
(* of the pass before, against which the present pass is compared.         *)
(***************************************************************************)
EXTENDS HunkLayout, Induction

LayingOut == phase \in {"setOffset", "emitSetOffset"}

(* The nodes 1..Frontier have offsets of the present pass.                 *)
Frontier == IF LayingOut THEN cursor ELSE End

(* An earlier pass has laid the hunk out.                                  *)
HasPrevious == previous[1] # Unset

(* The offsets of the present pass: numbers, in order, and a node is as    *)
(* long as the gap it got when it was laid out.                            *)
OffsetsInv ==
  /\ offset[1] = 0
  /\ \A i \in 1..Frontier : offset[i] \in Nat
  /\ \A i, j \in 1..Frontier : i <= j => offset[i] <= offset[j]
  /\ phase # "tryShrink" =>
       \A i \in Nodes : i < Frontier => offset[i + 1] = offset[i] + Size(i)
  /\ ~LayingOut => previous = offset

(* The last complete pass: until there is one nothing is short, and after  *)
(* it no node is larger and no two nodes are farther apart than it had     *)
(* them.  Unless a node has shrunk since, the sizes are the gaps it left.  *)
PreviousInv ==
  /\ ~HasPrevious => /\ \A i \in Nodes : ~opByte[i]
                     /\ phase = "setOffset"
  /\ HasPrevious =>
       /\ \A i \in 1..End : previous[i] \in Nat
       /\ \A i, j \in 1..End : i <= j => previous[i] <= previous[j]
       /\ \A i \in Nodes : Size(i) <= previous[i + 1] - previous[i]
       /\ \A i, j \in 1..Frontier :
            i <= j => offset[j] - offset[i] <= previous[j] - previous[i]
  /\ phase = "tryShrink" =>
       \A i \in Nodes : i >= cursor \/ ~changed =>
                          Size(i) = previous[i + 1] - previous[i]

(* Node i is near its target by the previous offsets.                      *)
WasNear(i) ==
  canOptimizeTransfer(previous[prog[i].target],
                      previous[i] + (IF prog[i].kind = "call" THEN 5 ELSE 4))

(* A short transfer was near in the last complete pass, and its target, if *)
(* it lies ahead, at most 128 bytes from its end.                          *)
ShortInv ==
  \A i \in Nodes : opByte[i] =>
    /\ IsResolved(i)
    /\ WasNear(i)
    /\ prog[i].target > i => previous[prog[i].target] - previous[i + 1] <= 128

(* The last shrinking pass left every transfer as the test has it, and the *)
(* layout pass of the emitter repeats the offsets of that pass.            *)
FixpointInv ==
  /\ phase = "tryShrink" =>
       \A i \in Nodes : i < cursor /\ IsResolved(i) => (opByte[i] <=> WasNear(i))
  /\ phase = "emitSetOffset" \/ IsSettled =>
       /\ HasPrevious
       /\ previous[1] = 0
       /\ \A i \in Nodes : previous[i + 1] = previous[i] + Size(i)
       /\ \A i \in 1..Frontier : offset[i] = previous[i]
       /\ \A i \in Nodes : IsResolved(i) => (opByte[i] <=> WasNear(i))

(* The nodes before the cursor are the ones that have been written.        *)
OutInv ==
  /\ ~IsSettled => out = <<>>
  /\ phase = "done" => cursor = End
  /\ IsSettled => /\ Len(out) = cursor - 1
                  /\ \A i \in 1..Len(out) :
                       /\ out[i].next = out[i].at + Written(i)
                       /\ IsTransfer(i) => /\ IsResolved(i)
                                           /\ out[i].disp =
                                                AsSigned(Displacement(i), opByte[i])
  /\ SciTarget = "SCI_1_1" => /\ \A i \in 1..Len(out) : out[i].at = offset[i]
                              /\ IsSettled => Position = offset[cursor]

IInv ==
  /\ TypeOK
  /\ OffsetsInv
  /\ PreviousInv
  /\ ShortInv
  /\ FixpointInv
  /\ OutInv

-----------------------------------------------------------------------------
(* Lemmas about the nodes and their sizes.                                 *)

(* A hunk is a nonempty sequence of nodes.                                 *)
LEMMA ProgramType ==
  ASSUME prog \in Programs
  PROVE  /\ Len(prog) \in Nat \ {0}
         /\ \A i \in Nodes : prog[i] \in Node
         /\ \A i \in Nodes : IsResolved(i) => prog[i].target \in Nodes
  <1>1. IsProgram(prog)
    BY ProgramsAssumption
  <1>2. /\ prog \in Seq(Node)
        /\ Len(prog) > 0
    BY <1>1 DEF IsProgram
  <1>3. /\ Len(prog) \in Nat \ {0}
        /\ \A i \in Nodes : prog[i] \in Node
    BY <1>2 DEF Nodes
  <1>4. \A i \in Nodes : IsResolved(i) => prog[i].target \in Nodes
    BY <1>1 DEF IsProgram, IsResolved, IsTransfer, Transfers, Nodes
  <1> QED
    BY <1>3, <1>4

(* A node has a size, and no larger one when its op is of the byte form.   *)
LEMMA SizeOfType ==
  ASSUME NEW node \in Node, NEW b \in BOOLEAN
  PROVE  /\ SizeOf(node, b) \in Nat
         /\ SizeOf(node, TRUE) <= SizeOf(node, b)
  BY DEF SizeOf, Node, Kinds, NumArgsSize

(* The word form of a transfer is one byte longer than its byte form.      *)
LEMMA TransferSizes ==
  ASSUME NEW node \in Node, node.kind \in Transfers
  PROVE  /\ node.kind = "call" => /\ SizeOf(node, TRUE) = 3
                                  /\ SizeOf(node, FALSE) = 4
         /\ node.kind # "call" => /\ SizeOf(node, TRUE) = 2
                                  /\ SizeOf(node, FALSE) = 3
  BY DEF SizeOf, Node, Kinds, NumArgsSize, Transfers

(* The size of a node does not depend on its flag unless it is a transfer. *)
LEMMA SizesAreNat ==
  ASSUME TypeOK
  PROVE  \A i \in Nodes : Size(i) \in Nat /\ Written(i) \in Nat
  <1> SUFFICES ASSUME NEW i \in Nodes
               PROVE  Size(i) \in Nat /\ Written(i) \in Nat
    OBVIOUS
  <1>1. prog[i] \in Node /\ opByte[i] \in BOOLEAN
    BY ProgramType DEF TypeOK
  <1>2. Size(i) \in Nat
    BY <1>1, SizeOfType DEF Size
  <1>3. prog[i].kind \in {"send", "call"} => Size(i) >= 1
    BY <1>1 DEF Size, SizeOf, Node, NumArgsSize
  <1> QED
    BY <1>2, <1>3, SciTargetAssumption
       DEF Written, NumArgsSize, NumArgsWritten

(* The last element of a nonempty sequence is one of its elements.         *)
LEMMA LastInSeq ==
  ASSUME NEW S, NEW s \in Seq(S), s # <<>>
  PROVE  s[Len(s)] \in S
  OBVIOUS

-----------------------------------------------------------------------------
(* The invariant holds initially.                                          *)
LEMMA InitInv == Init => IInv
  <1> SUFFICES ASSUME Init PROVE IInv
    OBVIOUS
  <1> USE DEF Init, Nodes, End, LayingOut, Frontier, HasPrevious, Unset
  <1>0. Len(prog) \in Nat \ {0}
    BY ProgramType
  <1>1. TypeOK
    <2>1. offset \in [1..End -> Nat \cup {Unset}]
      BY <1>0
    <2>2. out \in Seq([at : Nat, next : Nat, disp : Int])
      OBVIOUS
    <2>3. /\ opByte \in [Nodes -> BOOLEAN]
          /\ previous \in [1..End -> Nat \cup {Unset}]
      OBVIOUS
    <2>4. prog \in Programs /\ changed \in BOOLEAN
      OBVIOUS
    <2>6. cursor \in 1..End
      BY <1>0
    <2>5. phase \in {"setOffset", "tryShrink", "emitSetOffset", "emit", "done",
                    "undefinedProcedure"}
      OBVIOUS
    <2> QED
      BY <2>1, <2>2, <2>3, <2>4, <2>5, <2>6 DEF TypeOK
  <1>2. OffsetsInv
    BY <1>0 DEF OffsetsInv
  <1>3. PreviousInv
    BY <1>0 DEF PreviousInv
  <1>4. ShortInv
    BY <1>0 DEF ShortInv
  <1>5. FixpointInv
    BY <1>0 DEF FixpointInv, IsSettled
  <1>6. OutInv
    BY <1>0 DEF OutInv, IsSettled
  <1> QED
    BY <1>1, <1>2, <1>3, <1>4, <1>5, <1>6 DEF IInv

(* Laying out the next node preserves it: the new gap is the node's size,  *)
(* which is no more than the gap of the previous pass.                     *)
LEMMA SetOffsetInv == ASSUME IInv, SetOffset PROVE IInv'
  <1> USE DEF IInv
  <1>0. /\ Len(prog) \in Nat \ {0}
        /\ \A i \in Nodes : Size(i) \in Nat
    BY ProgramType, SizesAreNat DEF TypeOK
  <1>1. /\ cursor \in Nodes /\ LayingOut /\ LayingOut'
        /\ Frontier = cursor /\ Frontier' = cursor + 1
        /\ cursor \in 1..Len(prog)
        /\ UNCHANGED <<prog, opByte, previous, phase, changed, out>>
        /\ Nodes' = Nodes /\ End' = End
        /\ phase # "tryShrink" /\ ~IsSettled
    BY <1>0 DEF SetOffset, LayingOut, Frontier, Nodes, End, IsSettled
  <1>2. offset[cursor] \in Nat /\ offset[cursor] + Size(cursor) \in Nat
    BY <1>0, <1>1 DEF OffsetsInv
  <1>3. \A i \in 1..End :
          offset'[i] = IF i = cursor + 1 THEN offset[cursor] + Size(cursor)
                       ELSE offset[i]
    BY <1>0, <1>1 DEF SetOffset, TypeOK, Nodes, End
  <1>4. \A i \in Nodes : Size(i)' = Size(i) /\ IsResolved(i)' = IsResolved(i)
    BY <1>1 DEF Size, IsResolved, IsTransfer
  <1>5. TypeOK'
    <2>1. offset' \in [1..End -> Nat \cup {Unset}]
      BY <1>0, <1>1, <1>2 DEF SetOffset, TypeOK
    <2>2. cursor' \in 1..End
      BY <1>0, <1>1 DEF SetOffset, End
    <2> QED
      BY <2>1, <2>2, <1>1 DEF TypeOK
  <1>6. OffsetsInv'
    <2>1. offset'[1] = 0
      BY <1>0, <1>1, <1>3 DEF OffsetsInv, End
    <2>2. \A i \in 1..Frontier' : offset'[i] \in Nat
      BY <1>0, <1>1, <1>2, <1>3 DEF OffsetsInv, End
    <2>3. \A i, j \in 1..Frontier' : i <= j => offset'[i] <= offset'[j]
      <3> SUFFICES ASSUME NEW i \in 1..(cursor + 1), NEW j \in 1..(cursor + 1),
                          i <= j
                   PROVE  offset'[i] <= offset'[j]
        BY <1>1
      <3>1. CASE j <= cursor
        BY <3>1, <1>0, <1>1, <1>3 DEF OffsetsInv, End
      <3>2. CASE j = cursor + 1 /\ i <= cursor
        <4>1. offset[i] <= offset[cursor]
          BY <3>2, <1>0, <1>1 DEF OffsetsInv
        <4>2. offset[i] \in Nat /\ offset'[i] = offset[i]
          BY <3>2, <1>0, <1>1, <1>3 DEF OffsetsInv, End
        <4>3. offset'[j] = offset[cursor] + Size(cursor)
          BY <3>2, <1>0, <1>1, <1>3 DEF End
        <4> QED
          BY <4>1, <4>2, <4>3, <1>0, <1>1, <1>2
      <3>3. CASE i = cursor + 1 /\ j = cursor + 1
        BY <3>3, <2>2, <1>0, <1>1
      <3> QED
        BY <3>1, <3>2, <3>3, <1>0, <1>1
    <2>4. \A i \in Nodes : i < Frontier' => offset'[i + 1] = offset'[i] + Size(i)'
      <3> SUFFICES ASSUME NEW i \in Nodes, i < cursor + 1
                   PROVE  offset'[i + 1] = offset'[i] + Size(i)
        BY <1>1, <1>4
      <3>1. CASE i < cursor
        <4>1. offset[i + 1] = offset[i] + Size(i)
          BY <3>1, <1>1 DEF OffsetsInv
        <4> QED
          BY <4>1, <3>1, <1>0, <1>1, <1>3 DEF Nodes, End
      <3>2. CASE i = cursor
        BY <3>2, <1>0, <1>1, <1>3 DEF Nodes, End
      <3> QED
        BY <3>1, <3>2, <1>0, <1>1 DEF Nodes
    <2> QED
      BY <2>1, <2>2, <2>3, <2>4, <1>1 DEF OffsetsInv
  <1>7. PreviousInv'
    <2>1. ASSUME HasPrevious, NEW i \in 1..(cursor + 1), NEW j \in 1..(cursor + 1),
                 i <= j
          PROVE  offset'[j] - offset'[i] <= previous[j] - previous[i]
      <3>1. CASE j <= cursor
        BY <3>1, <2>1, <1>0, <1>1, <1>3 DEF PreviousInv, End
      <3>2. CASE j = cursor + 1 /\ i <= cursor
        <4>1. offset[cursor] - offset[i] <= previous[cursor] - previous[i]
          BY <3>2, <2>1, <1>0, <1>1 DEF PreviousInv
        <4>2. Size(cursor) <= previous[cursor + 1] - previous[cursor]
          BY <2>1, <1>1 DEF PreviousInv
        <4>3. /\ previous[cursor] \in Nat /\ previous[cursor + 1] \in Nat
              /\ previous[i] \in Nat
          BY <2>1, <1>0, <1>1 DEF PreviousInv, End
        <4>4. offset[i] \in Nat /\ offset'[i] = offset[i]
          BY <3>2, <1>0, <1>1, <1>3 DEF OffsetsInv, End
        <4>5. offset'[j] = offset[cursor] + Size(cursor)
          BY <3>2, <1>0, <1>1, <1>3 DEF End
        <4>6. offset[cursor] \in Nat /\ Size(cursor) \in Nat
          BY <1>0, <1>1, <1>2
        <4>7. previous[j] = previous[cursor + 1]
          BY <3>2
        <4> QED
          BY <4>1, <4>2, <4>3, <4>4, <4>5, <4>6, <4>7
      <3>3. CASE i = cursor + 1 /\ j = cursor + 1
        <4>1. offset'[j] \in Nat /\ previous[j] \in Nat
          BY <3>3, <2>1, <1>0, <1>1, <1>2, <1>3 DEF PreviousInv, End
        <4> QED
          BY <3>3, <4>1
      <3> QED
        BY <3>1, <3>2, <3>3, <1>0, <1>1
    <2>2. HasPrevious' = HasPrevious
      BY <1>1 DEF HasPrevious
    <2> QED
      BY <2>1, <2>2, <1>1, <1>4 DEF PreviousInv
  <1>8. ShortInv'
    BY <1>1, <1>4 DEF ShortInv, WasNear
  <1>9. FixpointInv'
    <2>1. ASSUME phase = "emitSetOffset", NEW i \in 1..(cursor + 1)
          PROVE  offset'[i] = previous[i]
      <3>1. /\ previous[cursor + 1] = previous[cursor] + Size(cursor)
            /\ offset[cursor] = previous[cursor]
        BY <2>1, <1>0, <1>1 DEF FixpointInv
      <3> QED
        BY <3>1, <2>1, <1>0, <1>1, <1>3 DEF FixpointInv, End
    <2> QED
      BY <2>1, <1>1, <1>4 DEF FixpointInv, HasPrevious, WasNear, IsSettled
  <1>10. OutInv'
    BY <1>1 DEF OutInv, IsSettled
  <1> QED
    BY <1>5, <1>6, <1>7, <1>8, <1>9, <1>10

(* Ending a layout pass preserves it: the new offsets become the previous  *)
(* ones, in which every short transfer is still near.                      *)
LEMMA EndSetOffsetInv == ASSUME IInv, EndSetOffset PROVE IInv'
  <1> USE DEF IInv
  <1>0. /\ Len(prog) \in Nat \ {0}
        /\ \A i \in Nodes : Size(i) \in Nat
        /\ \A i \in Nodes : IsResolved(i) => prog[i].target \in Nodes
    BY ProgramType, SizesAreNat DEF TypeOK
  <1>1. /\ LayingOut /\ ~LayingOut' /\ cursor = End
        /\ Frontier = End /\ Frontier' = End
        /\ UNCHANGED <<prog, opByte, offset, out>>
        /\ previous' = offset /\ cursor' = 1 /\ changed' = FALSE
        /\ Nodes' = Nodes /\ End' = End /\ ~IsSettled
        /\ phase # "tryShrink"
    BY DEF EndSetOffset, LayingOut, Frontier, Nodes, End, IsSettled
  <1>2. \/ phase = "setOffset" /\ phase' = "tryShrink" /\ ~IsSettled'
        \/ phase = "emitSetOffset" /\ phase' = "emit" /\ IsSettled'
    BY DEF EndSetOffset, IsSettled
  <1>3. \A i \in Nodes : Size(i)' = Size(i) /\ IsResolved(i)' = IsResolved(i)
    BY <1>1 DEF Size, IsResolved, IsTransfer
  <1>4. \A i \in 1..End : offset[i] \in Nat
    BY <1>1 DEF OffsetsInv
  <1>5. \A i \in Nodes : offset[i + 1] = offset[i] + Size(i)
    BY <1>0, <1>1 DEF OffsetsInv, Nodes, End
  <1>6. TypeOK'
    <2>1. /\ prog' \in Programs /\ changed' \in BOOLEAN
          /\ opByte' \in [Nodes' -> BOOLEAN]
          /\ offset' \in [1..End' -> Nat \cup {Unset}]
          /\ previous' \in [1..End' -> Nat \cup {Unset}]
          /\ out' \in Seq([at : Nat, next : Nat, disp : Int])
      BY <1>1 DEF TypeOK
    <2>2. cursor' \in 1..End'
      BY <1>0, <1>1 DEF End
    <2>3. phase' \in {"tryShrink", "emit"}
      BY <1>2
    <2> QED
      BY <2>1, <2>2, <2>3 DEF TypeOK
  <1>7. OffsetsInv'
    BY <1>1, <1>3, <1>4, <1>5 DEF OffsetsInv
  <1>8. HasPrevious'
    BY <1>0, <1>1, <1>4 DEF HasPrevious, Unset, End
  <1>9. PreviousInv'
    <2>1. \A i, j \in 1..End : i <= j => offset[i] <= offset[j]
      BY <1>1 DEF OffsetsInv
    <2>2. \A i \in Nodes : Size(i) = offset[i + 1] - offset[i]
      <3> TAKE i \in Nodes
      <3>1. offset[i + 1] = offset[i] + Size(i) /\ Size(i) \in Nat
        BY <1>0, <1>5
      <3>2. offset[i] \in Nat
        BY <1>0, <1>4 DEF Nodes, End
      <3> QED
        BY <3>1, <3>2
    <2>3. \A i \in Nodes : Size(i) <= offset[i + 1] - offset[i]
      BY <1>0, <2>2
    <2>4. \A i, j \in 1..End : offset[j] - offset[i] <= offset[j] - offset[i]
      BY <1>4
    <2> QED
      BY <2>1, <2>2, <2>3, <2>4, <1>1, <1>3, <1>4, <1>8 DEF PreviousInv
  <1>10. ShortInv'
    <2> SUFFICES ASSUME NEW i \in Nodes, opByte[i]
                 PROVE  /\ IsResolved(i)
                        /\ IsNear(i)
                        /\ prog[i].target > i =>
                             offset[prog[i].target] - offset[i + 1] <= 128
      BY <1>1, <1>3 DEF ShortInv, WasNear, IsNear, Reference
    <2>1. HasPrevious
      BY DEF PreviousInv
    <2>2. /\ IsResolved(i) /\ WasNear(i)
          /\ prog[i].target > i =>
               previous[prog[i].target] - previous[i + 1] <= 128
      BY DEF ShortInv
    <2> DEFINE t == prog[i].target
    <2>3. i \in 1..End /\ i + 1 \in 1..End /\ t \in 1..End
      BY <2>2, <1>0 DEF Nodes, End
    <2>4. /\ previous[t] \in Nat /\ previous[i] \in Nat /\ previous[i + 1] \in Nat
          /\ offset[t] \in Nat /\ offset[i] \in Nat /\ offset[i + 1] \in Nat
      BY <2>1, <2>3, <1>4 DEF PreviousInv
    <2>5. \A j, k \in 1..End : j <= k =>
            /\ offset[j] <= offset[k]
            /\ previous[j] <= previous[k]
            /\ offset[k] - offset[j] <= previous[k] - previous[j]
      BY <2>1, <1>1 DEF PreviousInv, OffsetsInv
    <2>6. IsNear(i)
      <3> DEFINE ref == IF prog[i].kind = "call" THEN 5 ELSE 4
      <3>1. canOptimizeTransfer(previous[t], previous[i] + ref)
        BY <2>2 DEF WasNear
      <3>2. CASE t <= i
        <4>1. /\ offset[t] <= offset[i] /\ previous[t] <= previous[i]
              /\ offset[i] - offset[t] <= previous[i] - previous[t]
          BY <3>2, <2>3, <2>5
        <4>2. canOptimizeTransfer(offset[t], offset[i] + ref)
          BY <4>1, <3>1, <2>4 DEF canOptimizeTransfer, Distance
        <4> QED
          BY <4>2 DEF IsNear, Reference
      <3>3. CASE i <= t
        <4>1. /\ offset[i] <= offset[t] /\ previous[i] <= previous[t]
              /\ offset[t] - offset[i] <= previous[t] - previous[i]
          BY <3>3, <2>3, <2>5
        <4>2. canOptimizeTransfer(offset[t], offset[i] + ref)
          BY <4>1, <3>1, <2>4 DEF canOptimizeTransfer, Distance
        <4> QED
          BY <4>2 DEF IsNear, Reference
      <3> QED
        BY <3>2, <3>3, <2>3, <1>0 DEF End
    <2>7. t > i => offset[t] - offset[i + 1] <= 128
      <3> SUFFICES ASSUME t > i PROVE offset[t] - offset[i + 1] <= 128
        OBVIOUS
      <3>1. i + 1 <= t
        BY <2>3, <1>0 DEF End
      <3>2. offset[t] - offset[i + 1] <= previous[t] - previous[i + 1]
        BY <3>1, <2>3, <2>5
      <3> QED
        BY <3>2, <2>2, <2>4
    <2> QED
      BY <2>2, <2>6, <2>7
  <1>11. FixpointInv'
    <2>1. CASE phase = "setOffset"
      BY <2>1, <1>1, <1>2 DEF FixpointInv, Nodes
    <2>2. CASE phase = "emitSetOffset"
      <3>1. \A i \in 1..End : offset[i] = previous[i]
        BY <2>2, <1>1 DEF FixpointInv
      <3>2. \A i \in Nodes : IsResolved(i) =>
              i \in 1..End /\ prog[i].target \in 1..End
        BY <1>0 DEF Nodes, End
      <3>3. \A i \in Nodes : IsResolved(i) => (opByte[i] <=> IsNear(i))
        BY <3>1, <3>2, <2>2 DEF FixpointInv, WasNear, IsNear, Reference
      <3>4. \A i \in Nodes : IsResolved(i)' => (opByte'[i] <=> WasNear(i)')
        BY <3>3, <1>1, <1>3 DEF WasNear, IsNear, Reference
      <3> QED
        BY <3>4, <2>2, <1>1, <1>2, <1>3, <1>5, <1>8 DEF FixpointInv, OffsetsInv
    <2> QED
      BY <2>1, <2>2, <1>2
  <1>12. OutInv'
    <2>1. out = <<>> /\ out' = <<>>
      BY <1>1 DEF OutInv
    <2>2. Position' = 0
      BY <2>1 DEF Position
    <2> QED
      BY <2>1, <2>2, <1>1, <1>2 DEF OutInv, OffsetsInv
  <1> QED
    BY <1>6, <1>7, <1>9, <1>10, <1>11, <1>12

(* Shrinking one node preserves it.  What matters is that a node that is   *)
(* short is found near again, and that one that becomes short now was laid *)
(* out at its word length.                                                 *)
LEMMA TryShrinkInv == ASSUME IInv, TryShrink PROVE IInv'
  <1> USE DEF IInv
  <1>0. /\ Len(prog) \in Nat \ {0}
        /\ \A i \in Nodes : Size(i) \in Nat /\ prog[i] \in Node
        /\ \A i \in Nodes : IsResolved(i) => prog[i].target \in Nodes
    BY ProgramType, SizesAreNat DEF TypeOK
  <1>1. /\ phase = "tryShrink" /\ ~LayingOut /\ ~LayingOut'
        /\ Frontier = End /\ Frontier' = End
        /\ UNCHANGED <<prog, offset, previous, phase, out>>
        /\ Nodes' = Nodes /\ End' = End /\ ~IsSettled /\ ~IsSettled'
        /\ cursor \in Nodes /\ cursor \in 1..Len(prog) /\ cursor' = cursor + 1
    BY DEF TryShrink, LayingOut, Frontier, Nodes, End, IsSettled
  <1>2. previous = offset /\ HasPrevious /\ HasPrevious'
    BY <1>1 DEF OffsetsInv, PreviousInv, HasPrevious
  <1>3. \A i \in Nodes : IsResolved(i)' = IsResolved(i) /\ WasNear(i)' = WasNear(i)
    BY <1>1 DEF IsResolved, IsTransfer, WasNear
  <1>4. IsNear(cursor) = WasNear(cursor)
    BY <1>2 DEF IsNear, WasNear, Reference
  <1>5. opByte' \in [Nodes -> BOOLEAN]
    BY <1>1 DEF TryShrink, TypeOK, IsNear, canOptimizeTransfer
  <1>6. /\ \A i \in Nodes : i # cursor => opByte'[i] = opByte[i]
        /\ IsResolved(cursor) => opByte'[cursor] = WasNear(cursor)
        /\ ~IsResolved(cursor) => opByte'[cursor] = opByte[cursor]
    BY <1>1, <1>4 DEF TryShrink, TypeOK
  <1>7. opByte[cursor] => opByte'[cursor]
    BY <1>1, <1>6 DEF ShortInv
  <1>8. \A i \in Nodes : Size(i)' \in Nat /\ Size(i)' <= Size(i)
    <2> TAKE i \in Nodes
    <2>1. /\ prog[i] \in Node /\ opByte[i] \in BOOLEAN /\ opByte'[i] \in BOOLEAN
          /\ prog' = prog
      BY <1>0, <1>1, <1>5 DEF TypeOK
    <2>2. CASE opByte'[i] = TRUE
      BY <2>1, <2>2, SizeOfType DEF Size
    <2>3. CASE opByte'[i] = FALSE
      <3>1. opByte[i] = FALSE
        BY <2>1, <2>3, <1>6, <1>7
      <3>2. Size(i)' = Size(i)
        BY <3>1, <2>1, <2>3 DEF Size
      <3> QED
        BY <3>2, <1>0
    <2> QED
      BY <2>1, <2>2, <2>3
  <1>9. TypeOK'
    <2>1. changed' \in BOOLEAN
      BY DEF TryShrink, TypeOK
    <2>2. cursor' \in 1..End
      BY <1>0, <1>1 DEF End
    <2> QED
      BY <2>1, <2>2, <1>1, <1>5 DEF TypeOK
  <1>10. OffsetsInv'
    BY <1>1, <1>2 DEF OffsetsInv
  <1>11. PreviousInv'
    <2>1. \A i \in 1..End : previous[i] \in Nat
      BY <1>2 DEF PreviousInv
    <2>2. \A i \in Nodes : Size(i)' <= previous[i + 1] - previous[i]
      <3> TAKE i \in Nodes
      <3>1. Size(i) <= previous[i + 1] - previous[i]
        BY <1>2 DEF PreviousInv
      <3>2. previous[i] \in Nat /\ previous[i + 1] \in Nat
        BY <2>1, <1>0 DEF Nodes, End
      <3> QED
        BY <3>1, <3>2, <1>0, <1>8
    <2>3. ASSUME NEW i \in Nodes, i >= cursor + 1 \/ ~changed'
          PROVE  Size(i)' = previous[i + 1] - previous[i]
      <3>1. CASE i >= cursor + 1
        <4>1. i # cursor /\ i >= cursor
          BY <3>1, <1>0, <1>1 DEF Nodes
        <4>2. Size(i)' = Size(i)
          BY <4>1, <1>1, <1>6 DEF Size
        <4> QED
          BY <4>1, <4>2, <1>1 DEF PreviousInv
      <3>2. CASE ~changed'
        <4>0. PICK c \in Nodes : c = cursor
          BY <1>1
        <4>1. ~changed /\ ~(Size(c)' < Size(c))
          BY <3>2, <4>0, <1>1 DEF TryShrink, Size
        <4>2. Size(c)' = Size(c)
          BY <4>1, <1>0, <1>8
        <4>3. Size(i)' = Size(i)
          BY <4>0, <4>2, <1>1, <1>6 DEF Size
        <4> QED
          BY <4>1, <4>3, <1>1 DEF PreviousInv
      <3> QED
        BY <2>3, <3>1, <3>2
    <2> QED
      BY <2>2, <2>3, <1>1, <1>2 DEF PreviousInv
  <1>12. ShortInv'
    <2> SUFFICES ASSUME NEW i \in Nodes, opByte'[i]
                 PROVE  /\ IsResolved(i)
                        /\ WasNear(i)
                        /\ prog[i].target > i =>
                             previous[prog[i].target] - previous[i + 1] <= 128
      BY <1>1, <1>3 DEF ShortInv
    <2>1. CASE opByte[i]
      BY <2>1 DEF ShortInv
    <2>2. CASE ~opByte[i]
      <3>1. i = cursor /\ IsResolved(i) /\ WasNear(i)
        BY <2>2, <1>6
      <3> DEFINE t == prog[i].target
      <3> SUFFICES ASSUME t > i
                   PROVE  previous[t] - previous[i + 1] <= 128
        BY <3>1
      <3>2. previous[i] \in Nat /\ previous[i + 1] \in Nat /\ previous[t] \in Nat
        BY <3>1, <1>0, <1>2 DEF PreviousInv, Nodes, End
      <3>3. Size(i) = previous[i + 1] - previous[i]
        BY <3>1, <1>0, <1>1 DEF PreviousInv, Nodes
      <3>4. previous[i] <= previous[t]
        <4>1. i \in 1..End /\ t \in 1..End /\ i <= t
          BY <3>1, <1>0 DEF Nodes, End
        <4> QED
          BY <4>1, <1>2 DEF PreviousInv
      <3>5. /\ prog[i].kind = "call" => Size(i) = 4
            /\ prog[i].kind # "call" => Size(i) = 3
        <4>1. prog[i].kind \in Transfers /\ opByte[i] = FALSE
          BY <3>1, <2>2 DEF IsResolved, IsTransfer, TypeOK
        <4> QED
          BY <4>1, <1>0, TransferSizes DEF Size
      <3> QED
        BY <3>1, <3>2, <3>3, <3>4, <3>5
           DEF WasNear, canOptimizeTransfer, Distance
    <2> QED
      BY <2>1, <2>2
  <1>13. FixpointInv'
    <2> SUFFICES ASSUME NEW i \in Nodes, i < cursor + 1, IsResolved(i)
                 PROVE  opByte'[i] <=> WasNear(i)
      BY <1>1, <1>3 DEF FixpointInv
    <2>1. CASE i = cursor
      BY <2>1, <1>6
    <2>2. CASE i < cursor
      BY <2>2, <1>1, <1>6 DEF FixpointInv
    <2> QED
      BY <2>1, <2>2, <1>0, <1>1 DEF Nodes
  <1>14. OutInv'
    BY <1>1 DEF OutInv
  <1> QED
    BY <1>9, <1>10, <1>11, <1>12, <1>13, <1>14

(* Ending a shrinking pass preserves it.                                   *)
LEMMA EndTryShrinkInv == ASSUME IInv, EndTryShrink PROVE IInv'
  <1> USE DEF IInv
  <1>0. /\ Len(prog) \in Nat \ {0}
        /\ \A i \in Nodes : Size(i) \in Nat
        /\ \A i \in Nodes : IsResolved(i) => prog[i].target \in Nodes
    BY ProgramType, SizesAreNat DEF TypeOK
  <1>1. /\ phase = "tryShrink" /\ ~LayingOut /\ LayingOut'
        /\ Frontier = End /\ Frontier' = 1 /\ cursor = End /\ cursor' = 1
        /\ UNCHANGED <<prog, opByte, offset, previous, changed, out>>
        /\ Nodes' = Nodes /\ End' = End /\ ~IsSettled /\ ~IsSettled'
        /\ phase' \in {"setOffset", "emitSetOffset"}
        /\ changed <=> phase' = "setOffset"
    BY DEF EndTryShrink, LayingOut, Frontier, Nodes, End, IsSettled, TypeOK
  <1>2. previous = offset /\ HasPrevious /\ HasPrevious'
    BY <1>1 DEF OffsetsInv, PreviousInv, HasPrevious
  <1>3. \A i \in Nodes : /\ Size(i)' = Size(i) /\ IsResolved(i)' = IsResolved(i)
                         /\ WasNear(i)' = WasNear(i)
    BY <1>1 DEF Size, IsResolved, IsTransfer, WasNear
  <1>4. \A i \in 1..End : offset[i] \in Nat
    BY <1>1 DEF OffsetsInv
  <1>5. TypeOK'
    <2>1. cursor' \in 1..End'
      BY <1>0, <1>1 DEF End
    <2> QED
      BY <2>1, <1>1 DEF TypeOK
  <1>6. OffsetsInv'
    <2>1. \A i \in Nodes : ~(i < Frontier')
      BY <1>0, <1>1 DEF Nodes
    <2>2. \A i \in 1..Frontier' : i = 1
      BY <1>1
    <2>3. offset[1] = 0
      BY DEF OffsetsInv
    <2> QED
      BY <2>1, <2>2, <2>3, <1>1 DEF OffsetsInv
  <1>7. PreviousInv'
    <2>1. \A i \in 1..Frontier' : i \in 1..Frontier
      BY <1>0, <1>1 DEF End
    <2> QED
      BY <2>1, <1>1, <1>2, <1>3 DEF PreviousInv
  <1>8. ShortInv'
    BY <1>1, <1>3 DEF ShortInv
  <1>9. FixpointInv'
    <2> SUFFICES ASSUME ~changed
                 PROVE  /\ previous[1] = 0
                        /\ \A i \in Nodes : previous[i + 1] = previous[i] + Size(i)
                        /\ \A i \in 1..1 : offset[i] = previous[i]
                        /\ \A i \in Nodes :
                             IsResolved(i) => (opByte[i] <=> WasNear(i))
      BY <1>1, <1>2, <1>3 DEF FixpointInv
    <2>1. previous[1] = 0
      BY <1>2 DEF OffsetsInv
    <2>2. \A i \in Nodes : previous[i + 1] = previous[i] + Size(i)
      <3> TAKE i \in Nodes
      <3>1. Size(i) = previous[i + 1] - previous[i]
        BY <1>1 DEF PreviousInv
      <3>2. previous[i] \in Nat /\ previous[i + 1] \in Nat
        BY <1>0, <1>2, <1>4 DEF Nodes, End
      <3> QED
        BY <3>1, <3>2
    <2>3. \A i \in Nodes : IsResolved(i) => (opByte[i] <=> WasNear(i))
      <3> TAKE i \in Nodes
      <3>1. i < cursor
        BY <1>0, <1>1 DEF Nodes, End
      <3> QED
        BY <3>1, <1>1 DEF FixpointInv
    <2> QED
      BY <2>1, <2>2, <2>3, <1>2
  <1>10. OutInv'
    BY <1>1 DEF OutInv
  <1> QED
    BY <1>5, <1>6, <1>7, <1>8, <1>9, <1>10

(* Writing one node preserves it: the next node is written where this one  *)
(* ends, and so is it laid out if the bytes written are the node's size.   *)
LEMMA EmitInv == ASSUME IInv, Emit PROVE IInv'
  <1> USE DEF IInv
  <1>0. /\ Len(prog) \in Nat \ {0}
        /\ \A i \in Nodes : Size(i) \in Nat /\ Written(i) \in Nat
        /\ \A i \in Nodes : IsResolved(i) => prog[i].target \in Nodes
    BY ProgramType, SizesAreNat DEF TypeOK
  <1>1. /\ phase = "emit" /\ ~LayingOut /\ ~LayingOut'
        /\ Frontier = End /\ Frontier' = End
        /\ UNCHANGED <<prog, opByte, offset, previous, phase, changed>>
        /\ Nodes' = Nodes /\ End' = End /\ IsSettled /\ IsSettled'
        /\ cursor \in Nodes /\ cursor \in 1..Len(prog) /\ cursor' = cursor + 1
    BY DEF Emit, LayingOut, Frontier, Nodes, End, IsSettled
  <1>2. \A i \in Nodes :
          /\ Size(i)' = Size(i) /\ IsResolved(i)' = IsResolved(i)
          /\ WasNear(i)' = WasNear(i) /\ IsTransfer(i)' = IsTransfer(i)
          /\ Written(i)' = Written(i) /\ Displacement(i)' = Displacement(i)
    BY <1>1 DEF Size, IsResolved, IsTransfer, WasNear, Written, Displacement
  <1>3. \A i \in 1..End : offset[i] \in Nat
    BY <1>1 DEF OffsetsInv
  <1>4. /\ out \in Seq([at : Nat, next : Nat, disp : Int])
        /\ Len(out) = cursor - 1 /\ Position \in Nat
    <2>1. /\ out \in Seq([at : Nat, next : Nat, disp : Int])
          /\ Len(out) = cursor - 1
      BY <1>1 DEF OutInv, TypeOK
    <2>3. out # <<>> => out[Len(out)] \in [at : Nat, next : Nat, disp : Int]
      BY <2>1, LastInSeq
    <2> QED
      BY <2>1, <2>3 DEF Position
  <1> DEFINE rec == [at   |-> Position,
                     next |-> Position + Written(cursor),
                     disp |-> IF IsTransfer(cursor)
                              THEN AsSigned(Displacement(cursor), opByte[cursor])
                              ELSE 0]
  <1>5. out' = Append(out, rec)
    BY DEF Emit
  <1>6. rec \in [at : Nat, next : Nat, disp : Int]
    <2>1. IsTransfer(cursor) => Displacement(cursor) \in Int
      <3> SUFFICES ASSUME IsTransfer(cursor) PROVE Displacement(cursor) \in Int
        OBVIOUS
      <3>1. prog[cursor].target \in Nodes
        BY <1>0, <1>1 DEF Emit
      <3>2. offset[prog[cursor].target] \in Nat /\ offset[cursor] \in Nat
        BY <3>1, <1>0, <1>1, <1>3 DEF Nodes, End
      <3>3. Size(cursor) \in Nat
        BY <1>0, <1>1
      <3> QED
        BY <3>2, <3>3 DEF Displacement
    <2>2. IsTransfer(cursor) =>
            AsSigned(Displacement(cursor), opByte[cursor]) \in Int
      BY <2>1 DEF AsSigned
    <2>3. Position + Written(cursor) \in Nat
      BY <1>0, <1>1, <1>4
    <2> QED
      BY <2>2, <2>3, <1>4
  <1>7. /\ out' \in Seq([at : Nat, next : Nat, disp : Int])
        /\ Len(out') = cursor /\ out'[cursor] = rec
        /\ \A i \in 1..(cursor - 1) : out'[i] = out[i]
    BY <1>1, <1>4, <1>5, <1>6
  <1>8. TypeOK'
    <2>1. cursor' \in 1..End'
      BY <1>0, <1>1 DEF End
    <2> QED
      BY <2>1, <1>1, <1>7 DEF TypeOK
  <1>9. OffsetsInv'
    BY <1>1, <1>2 DEF OffsetsInv
  <1>10. PreviousInv'
    BY <1>1, <1>2 DEF PreviousInv, HasPrevious
  <1>11. ShortInv'
    BY <1>1, <1>2 DEF ShortInv
  <1>12. FixpointInv'
    BY <1>1, <1>2 DEF FixpointInv, HasPrevious
  <1>13. OutInv'
    <2>1. Len(out') = cursor' - 1
      BY <1>1, <1>7
    <2>2. ASSUME NEW i \in 1..cursor
          PROVE  /\ out'[i].next = out'[i].at + Written(i)
                 /\ IsTransfer(i) =>
                      /\ IsResolved(i)
                      /\ out'[i].disp = AsSigned(Displacement(i), opByte[i])
      <3>1. CASE i = cursor
        BY <3>1, <1>7 DEF Emit
      <3>2. CASE i < cursor
        <4>1. i \in 1..Len(out) /\ out'[i] = out[i]
          <5>1. i \in 1..(cursor - 1)
            BY <3>2, <1>1
          <5> QED
            BY <5>1, <1>4, <1>7
        <4> QED
          BY <4>1, <1>1 DEF OutInv
      <3> QED
        BY <3>1, <3>2, <1>1
    <2>3. ASSUME SciTarget = "SCI_1_1"
          PROVE  /\ \A i \in 1..cursor : out'[i].at = offset[i]
                 /\ Position' = offset[cursor + 1]
      <3>1. Position = offset[cursor]
        BY <2>3, <1>1 DEF OutInv
      <3>2. \A i \in 1..cursor : out'[i].at = offset[i]
        <4> TAKE i \in 1..cursor
        <4>1. CASE i = cursor
          BY <4>1, <3>1, <1>7
        <4>2. CASE i < cursor
          <5>1. i \in 1..(cursor - 1)
            BY <4>2, <1>1
          <5>2. out[i].at = offset[i]
            BY <5>1, <2>3, <1>4 DEF OutInv
          <5> QED
            BY <5>1, <5>2, <1>7
        <4> QED
          BY <4>1, <4>2, <1>1
      <3>3. Written(cursor) = Size(cursor)
        BY <2>3, <1>0, <1>1 DEF Written, NumArgsSize, NumArgsWritten
      <3>4. Position' = Position + Written(cursor)
        BY <1>1, <1>7 DEF Position
      <3>5. offset[cursor + 1] = offset[cursor] + Size(cursor)
        BY <1>0, <1>1, SMTT(30) DEF OffsetsInv, Nodes, End
      <3> QED
        BY <3>1, <3>2, <3>3, <3>4, <3>5
    <2>4. \A i \in 1..cursor : i \in Nodes
      BY <1>0, <1>1 DEF Nodes
    <2> QED
      BY <2>1, <2>2, <2>3, <2>4, <1>1, <1>2, <1>7, ZenonT(60) DEF OutInv
  <1> QED
    BY <1>8, <1>9, <1>10, <1>11, <1>12, <1>13

(* Nothing but the phase changes when emission ends or fails.              *)
LEMMA EndOfEmitInv == ASSUME IInv, EmitUndefined \/ EndEmit PROVE IInv'
  <1> USE DEF IInv
  <1>1. /\ phase = "emit" /\ ~LayingOut /\ ~LayingOut'
        /\ phase' \in {"done", "undefinedProcedure"}
        /\ Frontier = End /\ Frontier' = End
        /\ UNCHANGED <<prog, opByte, offset, previous, cursor, changed, out>>
        /\ Nodes' = Nodes /\ End' = End /\ IsSettled /\ IsSettled'
    BY DEF EmitUndefined, EndEmit, LayingOut, Frontier, Nodes, End, IsSettled
  <1>2. \A i \in Nodes :
          /\ Size(i)' = Size(i) /\ IsResolved(i)' = IsResolved(i)
          /\ WasNear(i)' = WasNear(i) /\ IsTransfer(i)' = IsTransfer(i)
          /\ Written(i)' = Written(i) /\ Displacement(i)' = Displacement(i)
    BY <1>1 DEF Size, IsResolved, IsTransfer, WasNear, Written, Displacement
  <1>3. TypeOK'
    BY <1>1 DEF TypeOK
  <1>4. OffsetsInv'
    BY <1>1, <1>2 DEF OffsetsInv
  <1>5. PreviousInv'
    BY <1>1, <1>2 DEF PreviousInv, HasPrevious
  <1>6. ShortInv'
    BY <1>1, <1>2 DEF ShortInv
  <1>7. FixpointInv'
    BY <1>1, <1>2 DEF FixpointInv, HasPrevious
  <1>8. OutInv'
    <2>1. \A i \in 1..Len(out) : i \in Nodes
      BY <1>1, ProgramType DEF OutInv, TypeOK, Nodes, End
    <2>2. Position' = Position
      BY <1>1 DEF Position
    <2>3. phase' = "done" => cursor = End
      BY DEF EmitUndefined, EndEmit
    <2> QED
      BY <2>1, <2>2, <2>3, <1>1, <1>2 DEF OutInv
  <1> QED
    BY <1>3, <1>4, <1>5, <1>6, <1>7, <1>8

LEMMA StutterInv == ASSUME IInv, UNCHANGED vars PROVE IInv'
  <1> USE DEF IInv, vars
  <1>1. /\ Nodes' = Nodes /\ End' = End /\ Frontier' = Frontier
        /\ LayingOut' = LayingOut /\ IsSettled' = IsSettled
        /\ HasPrevious' = HasPrevious /\ Position' = Position
    BY DEF Nodes, End, Frontier, LayingOut, IsSettled, HasPrevious, Position
  <1>2. \A i \in Nodes :
          /\ Size(i)' = Size(i) /\ IsResolved(i)' = IsResolved(i)
          /\ WasNear(i)' = WasNear(i) /\ IsTransfer(i)' = IsTransfer(i)
          /\ Written(i)' = Written(i) /\ Displacement(i)' = Displacement(i)
    BY DEF Size, IsResolved, IsTransfer, WasNear, Written, Displacement
  <1>3. TypeOK'
    BY <1>1 DEF TypeOK
  <1>4. OffsetsInv'
    BY <1>1, <1>2 DEF OffsetsInv
  <1>5. PreviousInv'
    BY <1>1, <1>2 DEF PreviousInv
  <1>6. ShortInv'
    BY <1>1, <1>2 DEF ShortInv
  <1>7. FixpointInv'
    BY <1>1, <1>2 DEF FixpointInv
  <1>8. OutInv'
    <2>1. IsSettled => \A i \in 1..Len(out) : i \in Nodes
      BY ProgramType DEF OutInv, TypeOK, Nodes, End
    <2>2. out' = out
      OBVIOUS
    <2> QED
      BY <2>1, <2>2, <1>1, <1>2 DEF OutInv
  <1> QED
    BY <1>3, <1>4, <1>5, <1>6, <1>7, <1>8

LEMMA StepInv == ASSUME IInv, [Next]_vars PROVE IInv'
  BY SetOffsetInv, EndSetOffsetInv, TryShrinkInv, EndTryShrinkInv, EmitInv,
     EndOfEmitInv, StutterInv DEF Next

(* The inductive invariant holds of every hunk layout.                     *)
THEOREM Invariance == Spec => []IInv
  <1>1. Init => IInv
    BY InitInv
  <1>2. IInv /\ [Next]_vars => IInv'
    BY StepInv
  <1> QED
    BY <1>1, <1>2, PTL DEF Spec

-----------------------------------------------------------------------------
(* What the invariant gives, for every hunk.                               *)

(* The offsets, flags and records stay of the hunk being laid out.         *)
THEOREM TypeCorrectness == Spec => []TypeOK
  <1>1. IInv => TypeOK
    BY DEF IInv
  <1> QED
    BY <1>1, Invariance, PTL

(* A transfer that OptimizeHunk has shortened is never long again.         *)
THEOREM ShortForGood == Spec => ShortStaysShort
  <1>1. ASSUME IInv, [Next]_vars
        PROVE  [\A i \in Nodes : opByte[i] => opByte'[i]]_vars
    <2>1. CASE TryShrink
      <3> SUFFICES ASSUME NEW i \in Nodes, opByte[i]
                   PROVE  opByte'[i]
        OBVIOUS
      <3>1. CASE i # cursor
        BY <1>1, <2>1, <3>1 DEF TryShrink, IInv, TypeOK
      <3>2. CASE i = cursor
        <4>1. IsResolved(i) /\ WasNear(i)
          BY <1>1 DEF IInv, ShortInv
        <4>2. previous = offset
          BY <1>1, <2>1 DEF IInv, OffsetsInv, TryShrink, LayingOut
        <4>3. IsNear(i)
          BY <4>1, <4>2 DEF WasNear, IsNear, Reference
        <4> QED
          BY <1>1, <2>1, <3>2, <4>1, <4>3 DEF TryShrink, IInv, TypeOK
      <3> QED
        BY <3>1, <3>2
    <2>2. CASE ~TryShrink
      <3>1. opByte' = opByte
        BY <1>1, <2>2 DEF Next, vars, SetOffset, EndSetOffset, EndTryShrink,
                          Emit, EmitUndefined, EndEmit
      <3> QED
        BY <3>1
    <2> QED
      BY <2>1, <2>2
  <1> QED
    BY <1>1, Invariance, PTL DEF Spec, ShortStaysShort

(* The layout that is written has no stale offset.                         *)
THEOREM TightLayout == Spec => []LayoutIsTight
  <1>1. IInv => LayoutIsTight
    <2> SUFFICES ASSUME IInv, IsSettled PROVE LayoutIsTight
      BY DEF LayoutIsTight
    <2>1. Len(prog) \in Nat
      BY ProgramType DEF IInv, TypeOK
    <2>2. Frontier = End /\ phase # "tryShrink"
      BY DEF IsSettled, Frontier, LayingOut
    <2> QED
      BY <2>1, <2>2 DEF IInv, OffsetsInv, LayoutIsTight, Nodes, End
  <1> QED
    BY <1>1, Invariance, PTL

(* The passes end at a fixed point of the nearness test.                   *)
THEOREM FixedPoint == Spec => []ShrunkAsFarAsItGoes
  <1>1. IInv => ShrunkAsFarAsItGoes
    <2> SUFFICES ASSUME IInv, IsSettled PROVE ShrunkAsFarAsItGoes
      BY DEF ShrunkAsFarAsItGoes
    <2>1. previous = offset
      BY DEF IInv, OffsetsInv, IsSettled, LayingOut
    <2>2. \A i \in Nodes : IsResolved(i) => (opByte[i] <=> WasNear(i))
      BY DEF IInv, FixpointInv
    <2> QED
      BY <2>1, <2>2 DEF ShrunkAsFarAsItGoes, WasNear, IsNear, Reference
  <1> QED
    BY <1>1, Invariance, PTL

(* The displacement of a short transfer is at most one more than fits.     *)
THEOREM ShortDisplacements == Spec => []ShortDisplacementBound
  <1>1. IInv => ShortDisplacementBound
    <2> SUFFICES ASSUME IInv, IsSettled,
                        NEW i \in Nodes, IsResolved(i), opByte[i]
                 PROVE  Displacement(i) \in -125..128
      BY DEF ShortDisplacementBound
    <2> DEFINE t == prog[i].target
               ref == IF prog[i].kind = "call" THEN 5 ELSE 4
    <2>1. /\ Len(prog) \in Nat /\ prog[i] \in Node /\ t \in Nodes
      BY ProgramType DEF IInv, TypeOK
    <2>2. previous = offset /\ Frontier = End /\ phase # "tryShrink"
      BY DEF IInv, OffsetsInv, IsSettled, LayingOut, Frontier
    <2>3. /\ i \in 1..End /\ i + 1 \in 1..End /\ t \in 1..End /\ i < End
      BY <2>1 DEF Nodes, End
    <2>4. /\ offset[i] \in Nat /\ offset[i + 1] \in Nat /\ offset[t] \in Nat
          /\ offset[i + 1] = offset[i] + Size(i)
          /\ t <= i => offset[t] <= offset[i]
          /\ i <= t => offset[i] <= offset[t]
          /\ t > i => offset[i + 1] <= offset[t]
      BY <2>1, <2>2, <2>3 DEF IInv, OffsetsInv, End
    <2>5. /\ canOptimizeTransfer(offset[t], offset[i] + ref)
          /\ t > i => offset[t] - offset[i + 1] <= 128
      BY <2>2 DEF IInv, ShortInv, WasNear
    <2>6. Size(i) = ref - 2
      <3>1. prog[i].kind \in Transfers
        BY DEF IsResolved, IsTransfer
      <3>2. opByte[i] = TRUE
        BY DEF IInv, TypeOK
      <3>3. Size(i) = SizeOf(prog[i], TRUE)
        BY <3>2 DEF Size
      <3> QED
        <4>1. /\ prog[i].kind = "call" => SizeOf(prog[i], TRUE) = 3
              /\ prog[i].kind # "call" => SizeOf(prog[i], TRUE) = 2
          BY <3>1, <2>1, TransferSizes
        <4>2. CASE prog[i].kind = "call"
          <5>1. Size(i) = 3 /\ ref = 5
            BY <3>3, <4>1, <4>2
          <5> QED
            BY <5>1
        <4>3. CASE prog[i].kind # "call"
          <5>1. Size(i) = 2 /\ ref = 4
            BY <3>3, <4>1, <4>3
          <5> QED
            BY <5>1
        <4> QED
          BY <4>2, <4>3
    <2>7. Displacement(i) = offset[t] - offset[i] - (ref - 2)
      BY <2>4, <2>6 DEF Displacement
    <2> DEFINE from == offset[i]  behind == offset[i + 1]  to == offset[t]
               long == Displacement(i)
    <2>8. CASE t > i
      <3>1. /\ from \in Nat /\ behind \in Nat /\ to \in Nat /\ ref \in {4, 5}
            /\ behind = from + (ref - 2) /\ behind <= to /\ to - behind <= 128
            /\ long = to - from - (ref - 2)
        BY <2>4, <2>5, <2>6, <2>7, <2>8
      <3>2. long \in 0..128
        <4> HIDE DEF from, behind, to, long, ref
        <4> QED
          BY <3>1
      <3> QED
        BY <3>2
    <2>9. CASE t <= i
      <3>1. /\ from \in Nat /\ to \in Nat /\ ref \in {4, 5} /\ to <= from
            /\ canOptimizeTransfer(to, from + ref) /\ long = to - from - (ref - 2)
        BY <2>4, <2>5, <2>7, <2>9
      <3>2. (from + ref) - to < 128
        <4> HIDE DEF from, to, long, ref
        <4> QED
          BY <3>1 DEF canOptimizeTransfer, Distance
      <3>3. long \in -125..0
        <4> HIDE DEF from, to, long, ref
        <4> QED
          BY <3>1, <3>2
      <3> QED
        BY <3>3
    <2>10. t > i \/ t <= i
      BY <2>1, <2>3 DEF Nodes, End
    <2> QED
      BY <2>8, <2>9, <2>10
  <1> QED
    BY <1>1, Invariance, PTL

(* On SCI 1.1, where an argument count is written at the size it was laid  *)
(* out with, every node is written at its offset.                          *)
THEOREM FaithfulEmission ==
  SciTarget = "SCI_1_1" => (Spec => []WrittenWhereLaidOut)
  <1> SUFFICES ASSUME SciTarget = "SCI_1_1"
               PROVE  Spec => []WrittenWhereLaidOut
    OBVIOUS
  <1>1. IInv => WrittenWhereLaidOut
    BY DEF IInv, OutInv, WrittenWhereLaidOut
  <1> QED
    BY <1>1, Invariance, PTL

(* A displacement that fits its field is read back as it was.              *)
LEMMA FittingDisplacement ==
  ASSUME NEW n \in Int, NEW b \in BOOLEAN,
         b => -128 <= n /\ n <= 127,
         ~b => -32768 <= n /\ n <= 32767
  PROVE  AsSigned(n, b) = n
  <1>1. 256 \div 2 = 128 /\ 65536 \div 2 = 32768
    OBVIOUS
  <1>2. /\ 0 <= n /\ n < 256 => n % 256 = n
        /\ -256 <= n /\ n < 0 => n % 256 = n + 256
        /\ 0 <= n /\ n < 65536 => n % 65536 = n
        /\ -65536 <= n /\ n < 0 => n % 65536 = n + 65536
    OBVIOUS
  <1>3. CASE b
    BY <1>1, <1>2, <1>3 DEF AsSigned
  <1>4. CASE ~b
    BY <1>1, <1>2, <1>4 DEF AsSigned
  <1> QED
    BY <1>3, <1>4

(* On SCI 1.1, in a hunk of less than 32 KB, every transfer that is        *)
(* written lands on its target or has the one displacement that wraps.     *)
THEOREM TransfersLandInSmallHunks ==
  SciTarget = "SCI_1_1" =>
    (Spec => [](offset[End] <= 32767 => TransfersLandOrWrap))
  <1> SUFFICES ASSUME SciTarget = "SCI_1_1"
               PROVE  Spec => [](offset[End] <= 32767 => TransfersLandOrWrap)
    OBVIOUS
  <1>1. IInv /\ ShortDisplacementBound =>
          (offset[End] <= 32767 => TransfersLandOrWrap)
    <2> SUFFICES ASSUME IInv, ShortDisplacementBound, offset[End] <= 32767,
                        phase = "done", NEW i \in Nodes, IsTransfer(i)
                 PROVE  \/ Landing(i) = Destination(i)
                        \/ opByte[i] /\ Destination(i) - out[i].next = 128
      BY DEF TransfersLandOrWrap
    <2> DEFINE t == prog[i].target
    <2>1. /\ Len(prog) \in Nat /\ prog[i] \in Node
          /\ IsResolved(i) => t \in Nodes
          /\ Size(i) \in Nat
      BY ProgramType, SizesAreNat DEF IInv, TypeOK
    <2>2. IsSettled /\ Frontier = End
      BY DEF IsSettled, Frontier, LayingOut
    <2>3. Len(out) = Len(prog)
      BY <2>1, <2>2 DEF IInv, OutInv, End
    <2>4. /\ out[i].at = offset[i] /\ out[i].next = out[i].at + Written(i)
          /\ IsResolved(i)
          /\ out[i].disp = AsSigned(Displacement(i), opByte[i])
      BY <2>1, <2>2, <2>3 DEF IInv, OutInv, Nodes
    <2>5. out[t].at = offset[t]
      BY <2>1, <2>3, <2>4 DEF IInv, OutInv, Nodes
    <2>6. Written(i) = Size(i)
      BY <2>1 DEF Written, NumArgsSize, NumArgsWritten
    <2>7. /\ offset[i] \in Nat /\ offset[t] \in Nat /\ offset[i + 1] \in Nat
          /\ offset[End] \in Nat /\ offset[t] <= offset[End]
          /\ offset[i + 1] <= offset[End] /\ offset[i + 1] = offset[i] + Size(i)
      <3>1. /\ i \in 1..End /\ i + 1 \in 1..End /\ t \in 1..End
            /\ End \in 1..End /\ i < End /\ t <= End /\ i + 1 <= End
        BY <2>1, <2>4 DEF Nodes, End
      <3> QED
        BY <3>1, <2>2 DEF IInv, OffsetsInv
    <2>8. Displacement(i) = offset[t] - (offset[i] + Size(i))
      BY DEF Displacement
    <2>9. /\ Displacement(i) \in Int
          /\ -32768 <= Displacement(i) /\ Displacement(i) <= 32767
      BY <2>1, <2>7, <2>8, SMTT(30)
    <2>10. CASE opByte[i] /\ Displacement(i) = 128
      BY <2>1, <2>4, <2>5, <2>6, <2>7, <2>8, <2>10 DEF Destination
    <2>11. CASE ~(opByte[i] /\ Displacement(i) = 128)
      <3>1. opByte[i] \in BOOLEAN
        BY DEF IInv, TypeOK
      <3>2. opByte[i] => -128 <= Displacement(i) /\ Displacement(i) <= 127
        BY <2>2, <2>4, <2>9, <2>11 DEF ShortDisplacementBound
      <3>3. AsSigned(Displacement(i), opByte[i]) = Displacement(i)
        BY <3>1, <3>2, <2>9, FittingDisplacement
      <3> QED
        BY <3>3, <2>1, <2>4, <2>5, <2>6, <2>7, <2>8 DEF Destination, Landing
    <2> QED
      BY <2>10, <2>11
  <1> QED
    BY <1>1, Invariance, ShortDisplacements, PTL

-----------------------------------------------------------------------------
(* The relaxation: layouts without passes.                                 *)

(* Layouts that are tight nowhere looser than another are nowhere longer.  *)
LEMMA GapsAdd ==
  ASSUME NEW n \in Nat,
         NEW f \in [1..(n + 1) -> Int], NEW g \in [1..(n + 1) -> Int],
         \A i \in 1..n : f[i + 1] - f[i] <= g[i + 1] - g[i]
  PROVE  \A i, j \in 1..(n + 1) : i <= j => f[j] - f[i] <= g[j] - g[i]
  <1> SUFFICES ASSUME NEW i \in 1..(n + 1)
               PROVE  \A j \in i..(n + 1) : f[j] - f[i] <= g[j] - g[i]
    OBVIOUS
  <1> DEFINE S == {j \in 1..(n + 1) : f[j] - f[i] <= g[j] - g[i]}
  <1>1. i \in S
    OBVIOUS
  <1>2. ASSUME NEW j \in i..(n + 1), j < n + 1, j \in S
        PROVE  j + 1 \in S
    <2>1. /\ j \in 1..n /\ j + 1 \in 1..(n + 1)
          /\ f[j] \in Int /\ f[j + 1] \in Int /\ g[j] \in Int /\ g[j + 1] \in Int
          /\ f[i] \in Int /\ g[i] \in Int
      BY <1>2
    <2>2. f[j + 1] - f[j] <= g[j + 1] - g[j] /\ f[j] - f[i] <= g[j] - g[i]
      BY <1>2, <2>1
    <2> DEFINE a == f[j]  b == f[j + 1]  c == f[i]  d == g[j]  e == g[j + 1]  h == g[i]
    <2>3. /\ a \in Int /\ b \in Int /\ c \in Int /\ d \in Int /\ e \in Int /\ h \in Int
          /\ b - a <= e - d /\ a - c <= d - h
      BY <2>1, <2>2
    <2>4. b - c <= e - h
      <3> HIDE DEF a, b, c, d, e, h
      <3> QED
        BY <2>3
    <2> QED
      BY <2>1, <2>4
  <1>3. i..(n + 1) \subseteq S
    <2>1. i \in Int /\ n + 1 \in Int
      OBVIOUS
    <2> HIDE DEF S
    <2> QED
      BY <1>1, <1>2, <2>1, IntervalInduction
  <1> QED
    BY <1>3

(* What is less than a part of a distance is less than all of it.          *)
LEMMA LowerBound ==
  ASSUME NEW a \in Int, NEW b \in Int, NEW c \in Int, NEW d \in Int,
         a <= b - c, b <= d
  PROVE  a <= d - c
  OBVIOUS

(* A distance that falls, or that is ahead and no less than a transfer     *)
(* leaves, stays near.                                                     *)
LEMMA NearerDistance ==
  ASSUME NEW fi \in Int, NEW ft \in Int, NEW gi \in Int, NEW gt \in Int,
         NEW ref \in Nat, 2 <= ref, ref < 128,
         canOptimizeTransfer(gt, gi + ref),
         \/ ft <= fi /\ fi - ft <= gi - gt
         \/ ref - 2 <= ft - fi /\ ft - fi <= gt - gi
  PROVE  canOptimizeTransfer(ft, fi + ref)
  <1>1. CASE ft <= fi /\ fi - ft <= gi - gt
    BY <1>1 DEF canOptimizeTransfer, Distance
  <1>2. CASE ref - 2 <= ft - fi /\ ft - fi <= gt - gi
    BY <1>2 DEF canOptimizeTransfer, Distance
  <1> QED
    BY <1>1, <1>2

(* What is near in a layout is near in every layout that is nowhere        *)
(* longer: behind it the distance only falls, and ahead the target is at   *)
(* least the transfer's own length away.                                   *)
LEMMA NearerStaysNear ==
  ASSUME NEW n \in Nat,
         NEW f \in [1..(n + 1) -> Int], NEW g \in [1..(n + 1) -> Int],
         \A i \in 1..n : f[i] <= f[i + 1],
         \A i \in 1..n : f[i + 1] - f[i] <= g[i + 1] - g[i],
         NEW i \in 1..n, NEW t \in 1..n, NEW ref \in Nat,
         2 <= ref, ref < 128,
         ref - 2 <= f[i + 1] - f[i],
         canOptimizeTransfer(g[t], g[i] + ref)
  PROVE  canOptimizeTransfer(f[t], f[i] + ref)
  <1> DEFINE zero == [k \in 1..(n + 1) |-> 0]
  <1>1. \A a, b \in 1..(n + 1) : a <= b => f[b] - f[a] <= g[b] - g[a]
    BY GapsAdd
  <1>2. \A a, b \in 1..(n + 1) : a <= b => f[a] <= f[b]
    <2>1. zero \in [1..(n + 1) -> Int]
      OBVIOUS
    <2>2. ASSUME NEW a \in 1..n
          PROVE  zero[a + 1] - zero[a] <= f[a + 1] - f[a]
      <3>1. a \in 1..(n + 1) /\ a + 1 \in 1..(n + 1)
        OBVIOUS
      <3>2. zero[a] = 0 /\ zero[a + 1] = 0 /\ f[a] \in Int /\ f[a + 1] \in Int
        BY <3>1
      <3>3. f[a] <= f[a + 1]
        OBVIOUS
      <3> QED
        BY <3>2, <3>3, SMTT(30)
    <2>3. \A a, b \in 1..(n + 1) : a <= b => zero[b] - zero[a] <= f[b] - f[a]
      <3> HIDE DEF zero
      <3> QED
        BY <2>1, <2>2, GapsAdd
    <2>4. \A a \in 1..(n + 1) : zero[a] = 0 /\ f[a] \in Int
      OBVIOUS
    <2> HIDE DEF zero
    <2> TAKE a, b \in 1..(n + 1)
    <2> HAVE a <= b
    <2>5. zero[b] - zero[a] <= f[b] - f[a]
      BY <2>3
    <2>6. /\ zero[a] = 0 /\ zero[b] = 0 /\ f[a] \in Int /\ f[b] \in Int
      BY <2>4
    <2> QED
      BY <2>5, <2>6
  <1>3. /\ i \in 1..(n + 1) /\ t \in 1..(n + 1) /\ i + 1 \in 1..(n + 1)
        /\ f[i] \in Int /\ f[t] \in Int /\ g[i] \in Int /\ g[t] \in Int
        /\ f[i + 1] \in Int
    OBVIOUS
  <1>4. CASE t <= i
    <2>1. f[t] <= f[i] /\ f[i] - f[t] <= g[i] - g[t]
      BY <1>1, <1>2, <1>3, <1>4
    <2> QED
      BY <1>3, <2>1, NearerDistance
  <1>5. CASE i < t
    <2>1. f[i + 1] <= f[t] /\ f[t] - f[i] <= g[t] - g[i]
      BY <1>1, <1>2, <1>3, <1>5
    <2>2. ref - 2 <= f[i + 1] - f[i] /\ ref \in Int
      OBVIOUS
    <2>3. ref - 2 <= f[t] - f[i]
      BY <1>3, <2>1, <2>2, LowerBound, SMTT(30)
    <2> QED
      BY <1>3, <2>1, <2>3, NearerDistance
  <1>6. t <= i \/ i < t
    OBVIOUS
  <1> QED
    BY <1>4, <1>5, <1>6

(* The layout of a hunk, given which of its transfers are short: the first *)
(* node is at 0, and each node follows the one before it.                  *)
LEMMA LayoutStarts ==
  ASSUME NEW p \in Seq(Node), NEW S
  PROVE  LET start == Relaxation!Layout(p, S)
         IN  /\ start \in [1..(Len(p) + 1) -> Int]
             /\ start[1] = 0
             /\ \A i \in 1..Len(p) : start[i + 1] - start[i] = SizeOf(p[i], i \in S)
  <1> DEFINE n == Len(p)
             D == [x \in (1..n) \X Int |-> x[2] + SizeOf(p[x[1]], x[1] \in S)]
             Body(f) == [i \in 1..(n + 1) |->
                           IF i = 1 THEN 0
                           ELSE f[i - 1] + SizeOf(p[i - 1], (i - 1) \in S)]
  <1>1. n \in Nat /\ \A i \in 1..n : SizeOf(p[i], i \in S) \in Nat
    <2>1. n \in Nat /\ \A i \in 1..n : p[i] \in Node
      OBVIOUS
    <2> QED
      BY <2>1 DEF SizeOf, Node, Kinds, NumArgsSize
  <1>2. D \in [(1..n) \X Int -> Int]
    BY <1>1
  <1>3. PICK g : IsIteration(g, n, Int, 0, D)
    <2> HIDE DEF D
    <2>1. 0 \in Int /\ n \in Nat
      BY <1>1
    <2> HIDE DEF n
    <2> QED
      BY <1>2, <2>1, IterationExists
  <1>4. ASSUME NEW i \in 1..n
        PROVE  g[i] = g[i - 1] + SizeOf(p[i], i \in S)
    <2>1. <<i, g[i - 1]>> \in (1..n) \X Int
      <3>1. i - 1 \in 0..n
        BY <1>1
      <3>2. g[i - 1] \in Int
        BY <3>1, <1>3 DEF IsIteration
      <3> QED
        BY <3>2
    <2>2. D[<<i, g[i - 1]>>] = g[i - 1] + SizeOf(p[i], i \in S)
      BY <2>1
    <2> QED
      BY <1>3, <2>2 DEF IsIteration
  <1> DEFINE h == [i \in 1..(n + 1) |-> g[i - 1]]
  <1>5. h = Body(h)
    <2>1. ASSUME NEW i \in 1..(n + 1)
          PROVE  h[i] = Body(h)[i]
      <3>1. CASE i = 1
        BY <3>1, <1>3 DEF IsIteration
      <3>2. CASE i # 1
        <4>1. i - 1 \in 1..n /\ i - 1 \in 1..(n + 1)
          BY <3>2, <1>1
        <4>2. h[i] = g[i - 1] /\ h[i - 1] = g[(i - 1) - 1]
          BY <4>1
        <4>3. g[i - 1] = g[(i - 1) - 1] + SizeOf(p[i - 1], (i - 1) \in S)
          BY <4>1, <1>4
        <4> QED
          BY <3>2, <4>2, <4>3
      <3> QED
        BY <3>1, <3>2
    <2>2. h = [i \in 1..(n + 1) |-> h[i]] /\ Body(h) = [i \in 1..(n + 1) |-> Body(h)[i]]
      OBVIOUS
    <2> HIDE DEF h, Body
    <2> QED
      BY <2>1, <2>2
  <1> DEFINE start == Relaxation!Layout(p, S)
  <1>6. start = CHOOSE f : f = Body(f)
    BY DEF Relaxation!Layout, SizeOf, Relaxation!SizeOf
  <1>7. start = Body(start)
    <2> HIDE DEF h, Body, start
    <2> QED
      BY <1>5, <1>6
  <1>8. start[1] = 0
    <2>1. Body(start)[1] = 0
      BY <1>1
    <2> HIDE DEF Body, start
    <2> QED
      BY <1>7, <2>1
  <1>9. ASSUME NEW i \in 1..n
        PROVE  start[i + 1] = start[i] + SizeOf(p[i], i \in S)
    <2> HIDE DEF start
    <2>1. Body(start)[i + 1] = start[i] + SizeOf(p[i], i \in S)
      BY <1>1
    <2> HIDE DEF Body
    <2> QED
      BY <1>7, <2>1
  <1>10. ASSUME NEW i \in 1..(n + 1) PROVE start[i] \in Int
    <2> DEFINE T == {j \in 1..(n + 1) : start[j] \in Int}
    <2> HIDE DEF start
    <2>1. 1 \in T
      BY <1>1, <1>8
    <2>2. ASSUME NEW j \in 1..(n + 1), j < n + 1, j \in T
          PROVE  j + 1 \in T
      <3>1. j \in 1..n /\ start[j] \in Int
        BY <2>2, <1>1
      <3>2. start[j + 1] \in Int
        BY <3>1, <1>1, <1>9
      <3> QED
        BY <3>1, <3>2, <1>1
    <2>3. 1..(n + 1) \subseteq T
      <3>1. 1 \in Int /\ n + 1 \in Int
        BY <1>1
      <3> HIDE DEF T
      <3> QED
        BY <2>1, <2>2, <3>1, IntervalInduction
    <2> QED
      BY <2>3
  <1>11. start \in [1..(n + 1) -> Int]
    <2>1. DOMAIN start = 1..(n + 1) /\ start = [i \in 1..(n + 1) |-> start[i]]
      <3>1. /\ DOMAIN Body(start) = 1..(n + 1)
            /\ Body(start) = [i \in 1..(n + 1) |-> Body(start)[i]]
        OBVIOUS
      <3> HIDE DEF start, Body
      <3> QED
        BY <1>7, <3>1
    <2> HIDE DEF start
    <2> QED
      BY <1>10, <2>1
  <1>12. \A i \in 1..n : start[i + 1] - start[i] = SizeOf(p[i], i \in S)
    <2> TAKE i \in 1..n
    <2> HIDE DEF start
    <2>1. start[i] \in Int /\ SizeOf(p[i], i \in S) \in Int
      BY <1>1, <1>10
    <2> QED
      BY <1>9, <2>1
  <1> QED
    BY <1>8, <1>11, <1>12

(* What a transfer adds to its own offset before it compares.              *)
Ahead(node) == IF node.kind = "call" THEN 5 ELSE 4

(* The transfers of a hunk with a target, and the near ones of a layout.   *)
LEMMA NearMembers ==
  ASSUME NEW p, NEW S
  PROVE  LET start == Relaxation!Layout(p, S)
         IN  /\ Relaxation!CanShrink(p) =
                  {i \in DOMAIN p : p[i].kind \in Transfers /\ p[i].target # 0}
             /\ Relaxation!Near(p, S) =
                  {i \in Relaxation!CanShrink(p) :
                     canOptimizeTransfer(start[p[i].target], start[i] + Ahead(p[i]))}
  BY DEF Relaxation!CanShrink, Relaxation!Transfers, Transfers, Relaxation!Near,
         Relaxation!canOptimizeTransfer, Relaxation!Distance,
         canOptimizeTransfer, Distance, Ahead

(* The nodes of a hunk, its transfers and their targets.                   *)
LEMMA ShrinkableNodes ==
  ASSUME NEW p, IsProgram(p)
  PROVE  /\ p \in Seq(Node) /\ Len(p) \in Nat /\ DOMAIN p = 1..Len(p)
         /\ \A i \in 1..Len(p) : p[i] \in Node
         /\ \A i \in Relaxation!CanShrink(p) :
              /\ i \in 1..Len(p) /\ p[i].target \in 1..Len(p)
              /\ p[i].kind \in Transfers
  <1>1. p \in Seq(Node) /\ Len(p) \in Nat /\ DOMAIN p = 1..Len(p)
    BY DEF IsProgram
  <1>2. \A i \in 1..Len(p) : p[i] \in Node
    BY <1>1
  <1>3. ASSUME NEW i \in Relaxation!CanShrink(p)
        PROVE  /\ i \in 1..Len(p) /\ p[i].target \in 1..Len(p)
               /\ p[i].kind \in Transfers
    BY <1>1, NearMembers DEF IsProgram, Transfers
  <1> QED
    BY <1>1, <1>2, <1>3

(* A transfer of either form is two bytes shorter than what it adds.       *)
LEMMA TransferReach ==
  ASSUME NEW node \in Node, node.kind \in Transfers, NEW S, NEW i
  PROVE  /\ Ahead(node) \in Nat /\ 2 <= Ahead(node) /\ Ahead(node) < 128
         /\ Ahead(node) - 2 <= SizeOf(node, i \in S)
  BY DEF Ahead, SizeOf, Node, Kinds, Transfers, NumArgsSize

(* The more transfers are short, the more are near.                        *)
LEMMA NearGrows ==
  ASSUME NEW p, IsProgram(p), NEW S, NEW T, S \subseteq T
  PROVE  Relaxation!Near(p, S) \subseteq Relaxation!Near(p, T)
  <1> DEFINE n == Len(p)
             f == Relaxation!Layout(p, T)
             g == Relaxation!Layout(p, S)
  <1>1. /\ p \in Seq(Node) /\ n \in Nat /\ \A i \in 1..n : p[i] \in Node
    BY ShrinkableNodes
  <1>2. /\ f \in [1..(n + 1) -> Int] /\ g \in [1..(n + 1) -> Int]
        /\ \A i \in 1..n : /\ f[i + 1] - f[i] = SizeOf(p[i], i \in T)
                           /\ g[i + 1] - g[i] = SizeOf(p[i], i \in S)
    BY <1>1, LayoutStarts
  <1>3. ASSUME NEW i \in 1..n
        PROVE  /\ SizeOf(p[i], i \in T) \in Nat
               /\ SizeOf(p[i], i \in T) <= SizeOf(p[i], i \in S)
    <2>1. p[i] \in Node
      BY <1>1
    <2>2. i \in S => i \in T
      OBVIOUS
    <2> QED
      BY <2>1, <2>2 DEF SizeOf, Node, Kinds, NumArgsSize
  <1> HIDE DEF f, g
  <1>4. /\ \A i \in 1..n : f[i] <= f[i + 1]
        /\ \A i \in 1..n : f[i + 1] - f[i] <= g[i + 1] - g[i]
    <2> SUFFICES ASSUME NEW i \in 1..n
                 PROVE  f[i] <= f[i + 1] /\ f[i + 1] - f[i] <= g[i + 1] - g[i]
      OBVIOUS
    <2>1. f[i] \in Int /\ f[i + 1] \in Int
      <3>1. i \in 1..(n + 1) /\ i + 1 \in 1..(n + 1)
        BY <1>1
      <3> QED
        BY <3>1, <1>2
    <2>2. 0 <= f[i + 1] - f[i] /\ f[i + 1] - f[i] <= g[i + 1] - g[i]
      BY <1>2, <1>3
    <2> QED
      BY <2>1, <2>2
  <1>5. ASSUME NEW i \in Relaxation!Near(p, S)
        PROVE  i \in Relaxation!Near(p, T)
    <2>1. /\ i \in Relaxation!CanShrink(p)
          /\ canOptimizeTransfer(g[p[i].target], g[i] + Ahead(p[i]))
      BY NearMembers DEF g
    <2>2. i \in 1..n /\ p[i].target \in 1..n /\ p[i].kind \in Transfers
      BY <2>1, ShrinkableNodes
    <2>3. /\ Ahead(p[i]) \in Nat /\ 2 <= Ahead(p[i]) /\ Ahead(p[i]) < 128
          /\ Ahead(p[i]) - 2 <= f[i + 1] - f[i]
      BY <1>1, <1>2, <2>2, TransferReach
    <2>4. canOptimizeTransfer(f[p[i].target], f[i] + Ahead(p[i]))
      <3> HIDE DEF n
      <3> QED
        BY <1>1, <1>2, <1>4, <2>1, <2>2, <2>3, NearerStaysNear
    <2> QED
      BY <2>1, <2>4, NearMembers DEF f
  <1> QED
    BY <1>5

Short == {i \in Nodes : opByte[i]}

(* The sets of transfers that no transfer can be added to.                 *)
Closed(S) ==
  S \subseteq Relaxation!CanShrink(prog) /\ Relaxation!Near(prog, S) \subseteq S

(* What is short is short in every closed set, and once the shrinking loop *)
(* has ended it is closed itself.                                          *)
LeastInv ==
  /\ Short \subseteq Relaxation!CanShrink(prog)
  /\ \A S \in SUBSET Relaxation!CanShrink(prog) : Closed(S) => Short \subseteq S
  /\ phase \notin {"setOffset", "tryShrink"} => Closed(Short)

(* A node that is near by the offsets of the last pass is near in the      *)
(* layout of the moment, in which nodes can only have become smaller.      *)
LEMMA NearByOffsets ==
  ASSUME IInv, HasPrevious, NEW i \in Nodes, IsResolved(i), WasNear(i)
  PROVE  i \in Relaxation!Near(prog, Short)
  <1> DEFINE n == Len(prog)
             f == Relaxation!Layout(prog, Short)
  <1>1. /\ IsProgram(prog) /\ prog \in Seq(Node) /\ n \in Nat
        /\ DOMAIN prog = 1..n /\ prog[i] \in Node /\ Nodes = 1..n /\ End = n + 1
    BY ProgramsAssumption, ShrinkableNodes DEF IInv, TypeOK, Nodes, End
  <1>2. /\ f \in [1..(n + 1) -> Int]
        /\ \A k \in 1..n : f[k + 1] - f[k] = SizeOf(prog[k], k \in Short)
    BY <1>1, LayoutStarts
  <1> HIDE DEF f
  <1>3. \A k \in 1..n : Size(k) = SizeOf(prog[k], k \in Short) /\ Size(k) \in Nat
    <2>1. \A k \in Nodes : opByte[k] \in BOOLEAN /\ (k \in Short <=> opByte[k])
      BY DEF IInv, TypeOK, Short
    <2> QED
      BY <2>1, <1>1, SizesAreNat DEF IInv, Size, SizeOf
  <1>4. /\ previous \in [1..(n + 1) -> Int]
        /\ \A k \in 1..n : Size(k) <= previous[k + 1] - previous[k]
    BY <1>1 DEF IInv, TypeOK, PreviousInv, Unset
  <1>5. /\ \A k \in 1..n : f[k] <= f[k + 1]
        /\ \A k \in 1..n : f[k + 1] - f[k] <= previous[k + 1] - previous[k]
    <2> SUFFICES ASSUME NEW k \in 1..n
                 PROVE  /\ f[k] <= f[k + 1]
                        /\ f[k + 1] - f[k] <= previous[k + 1] - previous[k]
      OBVIOUS
    <2>1. f[k] \in Int /\ f[k + 1] \in Int
      <3>1. k \in 1..(n + 1) /\ k + 1 \in 1..(n + 1)
        BY <1>1
      <3> QED
        BY <3>1, <1>2
    <2>2. f[k + 1] - f[k] = Size(k) /\ Size(k) \in Nat
      BY <1>2, <1>3
    <2> QED
      BY <2>1, <2>2, <1>4
  <1>6. /\ i \in Relaxation!CanShrink(prog)
        /\ i \in 1..n /\ prog[i].target \in 1..n /\ prog[i].kind \in Transfers
    <2>1. i \in Relaxation!CanShrink(prog)
      BY <1>1, NearMembers DEF IsResolved, IsTransfer
    <2> QED
      BY <2>1, <1>1, ShrinkableNodes
  <1>7. /\ Ahead(prog[i]) \in Nat /\ 2 <= Ahead(prog[i]) /\ Ahead(prog[i]) < 128
        /\ Ahead(prog[i]) - 2 <= f[i + 1] - f[i]
    BY <1>1, <1>2, <1>6, TransferReach
  <1>8. canOptimizeTransfer(previous[prog[i].target], previous[i] + Ahead(prog[i]))
    BY DEF WasNear, Ahead
  <1>9. canOptimizeTransfer(f[prog[i].target], f[i] + Ahead(prog[i]))
    <2> HIDE DEF n
    <2> QED
      BY <1>1, <1>2, <1>4, <1>5, <1>6, <1>7, <1>8, NearerStaysNear
  <1> QED
    BY <1>6, <1>9, NearMembers DEF f

(* A node that is near in the layout of the moment is near by the offsets  *)
(* of the last pass, if no node has shrunk since.                          *)
LEMMA NearInLayout ==
  ASSUME IInv, HasPrevious, phase = "tryShrink", ~changed,
         NEW i \in Relaxation!Near(prog, Short)
  PROVE  i \in Nodes /\ IsResolved(i) /\ WasNear(i)
  <1> DEFINE n == Len(prog)
             g == Relaxation!Layout(prog, Short)
  <1>1. /\ IsProgram(prog) /\ prog \in Seq(Node) /\ n \in Nat
        /\ DOMAIN prog = 1..n /\ \A k \in 1..n : prog[k] \in Node
        /\ Nodes = 1..n /\ End = n + 1
    BY ProgramsAssumption, ShrinkableNodes DEF IInv, TypeOK, Nodes, End
  <1>2. /\ g \in [1..(n + 1) -> Int]
        /\ \A k \in 1..n : g[k + 1] - g[k] = SizeOf(prog[k], k \in Short)
    BY <1>1, LayoutStarts
  <1>3. /\ i \in Relaxation!CanShrink(prog)
        /\ canOptimizeTransfer(g[prog[i].target], g[i] + Ahead(prog[i]))
    BY NearMembers
  <1> HIDE DEF g
  <1>4. i \in 1..n /\ prog[i].target \in 1..n /\ prog[i].kind \in Transfers
    BY <1>1, <1>3, ShrinkableNodes
  <1>5. \A k \in 1..n : Size(k) = SizeOf(prog[k], k \in Short) /\ Size(k) \in Nat
    <2>1. \A k \in Nodes : opByte[k] \in BOOLEAN /\ (k \in Short <=> opByte[k])
      BY DEF IInv, TypeOK, Short
    <2> QED
      BY <2>1, <1>1, SizesAreNat DEF IInv, Size, SizeOf
  <1>6. /\ previous \in [1..(n + 1) -> Int]
        /\ \A k \in 1..n : Size(k) = previous[k + 1] - previous[k]
    BY <1>1 DEF IInv, TypeOK, PreviousInv, Unset
  <1>7. /\ \A k \in 1..n : previous[k] <= previous[k + 1]
        /\ \A k \in 1..n : previous[k + 1] - previous[k] <= g[k + 1] - g[k]
    <2> SUFFICES ASSUME NEW k \in 1..n
                 PROVE  /\ previous[k] <= previous[k + 1]
                        /\ previous[k + 1] - previous[k] <= g[k + 1] - g[k]
      OBVIOUS
    <2>1. previous[k] \in Int /\ previous[k + 1] \in Int
      <3>1. k \in 1..(n + 1) /\ k + 1 \in 1..(n + 1)
        BY <1>1
      <3> QED
        BY <3>1, <1>6
    <2>2. g[k + 1] - g[k] = Size(k) /\ Size(k) \in Nat
      BY <1>2, <1>5
    <2> QED
      BY <2>1, <2>2, <1>6
  <1>8. /\ Ahead(prog[i]) \in Nat /\ 2 <= Ahead(prog[i]) /\ Ahead(prog[i]) < 128
        /\ Ahead(prog[i]) - 2 <= previous[i + 1] - previous[i]
    BY <1>1, <1>4, <1>5, <1>6, TransferReach
  <1>9. canOptimizeTransfer(previous[prog[i].target], previous[i] + Ahead(prog[i]))
    <2> HIDE DEF n
    <2> QED
      BY <1>1, <1>2, <1>3, <1>4, <1>6, <1>7, <1>8, NearerStaysNear
  <1>10. IsResolved(i)
    BY <1>1, <1>3, NearMembers DEF IsResolved, IsTransfer
  <1> QED
    BY <1>1, <1>4, <1>9, <1>10 DEF WasNear, Ahead

(* At the start nothing is short.                                          *)
LEMMA InitRelaxed == ASSUME Init PROVE Relaxation!Init /\ LeastInv
  <1>1. Short = {} /\ phase = "setOffset"
    BY DEF Init, Short
  <1>2. IsProgram(prog)
    BY ProgramsAssumption DEF Init
  <1>3. Relaxation!IsProgram(prog)
    BY <1>2 DEF IsProgram, Relaxation!IsProgram, Node, Relaxation!Node,
                Kinds, Relaxation!Kinds
  <1>4. Relaxation!Init
    BY <1>1, <1>3 DEF Relaxation!Init, Short
  <1>5. LeastInv
    BY <1>1 DEF LeastInv
  <1> QED
    BY <1>4, <1>5

(* Deciding about a transfer shortens one that is near in the layout of    *)
(* the moment, or changes nothing: one that is short already was near.     *)
LEMMA TryShrinkRelaxed ==
  ASSUME IInv, TryShrink
  PROVE  /\ prog' = prog /\ phase' = phase /\ phase = "tryShrink"
         /\ \/ Short' = Short
            \/ \E i \in Relaxation!Near(prog, Short) \ Short :
                 i \in DOMAIN prog /\ Short' = Short \cup {i}
  <1>1. /\ phase = "tryShrink" /\ cursor \in Nodes /\ prog' = prog
        /\ phase' = phase /\ Nodes' = Nodes
        /\ opByte \in [Nodes -> BOOLEAN] /\ previous = offset /\ HasPrevious
    BY DEF TryShrink, Nodes, IInv, TypeOK, OffsetsInv, LayingOut, PreviousInv
  <1>2. WasNear(cursor) <=> IsNear(cursor)
    BY <1>1 DEF WasNear, IsNear, Reference
  <1>3. CASE ~IsResolved(cursor)
    <2>1. opByte' = opByte
      BY <1>3 DEF TryShrink
    <2> QED
      BY <1>1, <2>1 DEF Short
  <1>4. CASE IsResolved(cursor) /\ ~IsNear(cursor)
    <2>1. ~opByte[cursor]
      BY <1>1, <1>2, <1>4 DEF IInv, ShortInv
    <2>2. opByte' = [opByte EXCEPT ![cursor] = IsNear(cursor)]
      BY <1>4 DEF TryShrink
    <2>3. \A i \in Nodes \ {cursor} : opByte'[i] = opByte[i]
      BY <1>1, <2>2
    <2>4. ~opByte'[cursor]
      BY <1>1, <1>4, <2>2
    <2>5. \A i \in Nodes : i \in Short' <=> i \in Short
      BY <1>1, <2>1, <2>3, <2>4 DEF Short
    <2>6. Short' \subseteq Nodes /\ Short \subseteq Nodes
      BY <1>1 DEF Short
    <2> QED
      BY <1>1, <2>5, <2>6
  <1>5. CASE IsResolved(cursor) /\ IsNear(cursor)
    <2>1. opByte' = [opByte EXCEPT ![cursor] = TRUE]
      BY <1>5 DEF TryShrink
    <2>2. Short' = Short \cup {cursor}
      BY <1>1, <2>1 DEF Short
    <2>3. cursor \in Relaxation!Near(prog, Short)
      BY <1>1, <1>2, <1>5, NearByOffsets
    <2>4. cursor \in DOMAIN prog
      BY <2>3, NearMembers
    <2>5. CASE cursor \in Short
      BY <1>1, <2>2, <2>5
    <2>6. CASE cursor \notin Short
      BY <1>1, <2>2, <2>3, <2>4, <2>6
    <2> QED
      BY <2>5, <2>6
  <1> QED
    BY <1>3, <1>4, <1>5

(* The shrinking loop ends only when no other transfer is near.            *)
LEMMA EndTryShrinkRelaxed ==
  ASSUME IInv, EndTryShrink
  PROVE  /\ prog' = prog /\ Short' = Short /\ phase = "tryShrink"
         /\ \/ phase' = "setOffset"
            \/ /\ phase' = "emitSetOffset"
               /\ Relaxation!Near(prog, Short) \subseteq Short
  <1>1. /\ prog' = prog /\ Short' = Short /\ phase = "tryShrink" /\ cursor = End
        /\ phase' = IF changed THEN "setOffset" ELSE "emitSetOffset"
    BY DEF EndTryShrink, Short, Nodes
  <1>2. CASE changed
    BY <1>1, <1>2
  <1>3. CASE ~changed
    <2>1. HasPrevious
      BY <1>1 DEF IInv, PreviousInv
    <2>2. ASSUME NEW i \in Relaxation!Near(prog, Short)
          PROVE  i \in Short
      <3>1. i \in Nodes /\ IsResolved(i) /\ WasNear(i)
        BY <1>1, <1>3, <2>1, NearInLayout
      <3>2. i < cursor
        BY <3>1, <1>1, ProgramType DEF IInv, TypeOK, Nodes, End
      <3>3. opByte[i] <=> WasNear(i)
        BY <3>1, <3>2, <1>1 DEF IInv, FixpointInv
      <3> QED
        BY <3>1, <3>3 DEF Short
    <2> QED
      BY <1>1, <1>3, <2>2
  <1> QED
    BY <1>2, <1>3

(* No other step changes what is short, or whether that is settled.        *)
LEMMA OthersRelaxed ==
  ASSUME [Next]_vars, ~TryShrink, ~EndTryShrink
  PROVE  /\ prog' = prog /\ Short' = Short
         /\ phase' \in {"setOffset", "tryShrink"} <=>
              phase \in {"setOffset", "tryShrink"}
  BY DEF Next, vars, Short, Nodes, SetOffset, EndSetOffset, Emit, EmitUndefined,
         EndEmit

(* Every step of the layout is a step of the relaxation or changes nothing *)
(* the relaxation sees.                                                    *)
LEMMA StepRelaxed ==
  ASSUME IInv, [Next]_vars
  PROVE  [Relaxation!Next]_(Relaxation!vars)
  <1> USE DEF Relaxation!vars
  <1>1. CASE TryShrink
    <2>1. CASE Short' = Short
      BY <1>1, <2>1, TryShrinkRelaxed DEF Short
    <2>2. CASE Short' # Short
      <3>1. PICK i \in Relaxation!Near(prog, Short) \ Short :
              i \in DOMAIN prog /\ Short' = Short \cup {i}
        BY <1>1, <2>2, TryShrinkRelaxed
      <3>2. prog' = prog /\ phase' = phase /\ phase = "tryShrink"
        BY <1>1, TryShrinkRelaxed
      <3>3. Relaxation!Shorten(i)
        BY <3>1, <3>2 DEF Relaxation!Shorten, Short
      <3> QED
        BY <3>1, <3>3 DEF Relaxation!Next
    <2> QED
      BY <2>1, <2>2
  <1>2. CASE EndTryShrink
    <2>1. /\ prog' = prog /\ Short' = Short /\ phase = "tryShrink"
          /\ \/ phase' = "setOffset"
             \/ /\ phase' = "emitSetOffset"
                /\ Relaxation!Near(prog, Short) \subseteq Short
      BY <1>2, EndTryShrinkRelaxed
    <2>2. CASE phase' = "setOffset"
      BY <2>1, <2>2 DEF Short
    <2>3. CASE phase' = "emitSetOffset" /\ Relaxation!Near(prog, Short) \subseteq Short
      <3>1. Relaxation!Settle
        BY <2>1, <2>3 DEF Relaxation!Settle, Short
      <3> QED
        BY <3>1 DEF Relaxation!Next
    <2> QED
      BY <2>1, <2>2, <2>3
  <1>3. CASE ~TryShrink /\ ~EndTryShrink
    BY <1>3, OthersRelaxed DEF Short
  <1> QED
    BY <1>1, <1>2, <1>3

(* What is short stays within every closed set, because near in a part of  *)
(* a set is near in the set.                                               *)
LEMMA LeastStep ==
  ASSUME IInv, LeastInv, [Next]_vars
  PROVE  LeastInv'
  <1> DEFINE Shrinkable == Relaxation!CanShrink(prog)
  <1>1. IsProgram(prog)
    BY ProgramsAssumption DEF IInv, TypeOK
  <1>2. prog' = prog
    BY DEF Next, vars, SetOffset, EndSetOffset, TryShrink, EndTryShrink, Emit,
           EmitUndefined, EndEmit
  <1>3. CASE TryShrink /\ Short' # Short
    <2>1. PICK i \in Relaxation!Near(prog, Short) \ Short :
            i \in DOMAIN prog /\ Short' = Short \cup {i}
      BY <1>3, TryShrinkRelaxed
    <2>2. phase' = "tryShrink"
      BY <1>3, TryShrinkRelaxed
    <2>3. i \in Shrinkable
      BY <2>1, NearMembers
    <2>4. ASSUME NEW S \in SUBSET Shrinkable, Closed(S)
          PROVE  Short' \subseteq S
      <3>1. Short \subseteq S
        BY <2>4 DEF LeastInv
      <3>2. Relaxation!Near(prog, Short) \subseteq Relaxation!Near(prog, S)
        BY <3>1, <1>1, NearGrows
      <3> QED
        BY <2>1, <2>4, <3>1, <3>2 DEF Closed
    <2> QED
      BY <1>2, <2>1, <2>2, <2>3, <2>4 DEF LeastInv, Closed
  <1>4. CASE Short' = Short
    <2>1. \/ phase' \in {"setOffset", "tryShrink"}
          \/ phase \notin {"setOffset", "tryShrink"}
          \/ Relaxation!Near(prog, Short) \subseteq Short
      BY TryShrinkRelaxed, EndTryShrinkRelaxed, OthersRelaxed
    <2> QED
      BY <1>2, <1>4, <2>1 DEF LeastInv, Closed
  <1>5. TryShrink \/ Short' = Short
    BY EndTryShrinkRelaxed, OthersRelaxed
  <1> QED
    BY <1>3, <1>4, <1>5

(* The passes of OptimizeHunk do what the relaxation allows: they shorten  *)
(* only what is near in the layout of the moment, although they judge by   *)
(* older offsets, and end only when nothing else is near.                  *)
THEOREM PassesRefineRelaxation == Spec => RefinesRelaxation
  <1>1. Init => Relaxation!Init
    BY InitRelaxed
  <1>2. IInv /\ [Next]_vars => [Relaxation!Next]_(Relaxation!vars)
    BY StepRelaxed
  <1> QED
    BY <1>1, <1>2, Invariance, PTL DEF Spec, RefinesRelaxation, Relaxation!Spec

(* The layout that is written is the least one, which any other order of   *)
(* shortening leads to as well.                                            *)
THEOREM LeastLayout == Spec => []SettlesOnLeast
  <1>1. Init => LeastInv
    BY InitRelaxed
  <1>2. IInv /\ LeastInv /\ [Next]_vars => LeastInv'
    BY LeastStep
  <1>3. LeastInv => SettlesOnLeast
    <2> SUFFICES ASSUME LeastInv, phase \notin {"setOffset", "tryShrink"}
                 PROVE  Short = Relaxation!LeastClosed(prog)
      BY DEF SettlesOnLeast, Relaxation!OrderDoesNotMatter, Short
    <2>1. Closed(Short)
      BY DEF LeastInv
    <2> QED
      BY <2>1 DEF LeastInv, Closed, Relaxation!LeastClosed
  <1> QED
    BY <1>1, <1>2, <1>3, Invariance, PTL DEF Spec

=============================================================================
