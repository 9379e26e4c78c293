--------------------------- MODULE PeepholeProofs ---------------------------
(***************************************************************************)
(* What the optimizer believes is true, of every procedure the code        *)
(* generator may hand it.  Beside the pass there is a history: what the    *)
(* pass believed before each instruction it has gone by.  Every edit       *)
(* leaves a list of which such a history can be told, each belief of it    *)
(* following from the one before by the instruction between; and an        *)
(* execution of the list, instruction by instruction, finds the history to *)
(* be true.                                                                *)
(***************************************************************************)
EXTENDS Beliefs, Induction

-----------------------------------------------------------------------------
(* The interpreter: what an instruction makes of a state.                  *)

(* The states that differ in one place.                                    *)
LEMMA SetAccIsState ==
  ASSUME NEW s, IsState(s), NEW v \in Int
  PROVE  /\ IsState(SetAcc(s, v))
         /\ SetAcc(s, v).acc = v
         /\ SetAcc(s, v).stack = s.stack /\ SetAcc(s, v).mem = s.mem
         /\ SetAcc(s, v).pc = s.pc /\ SetAcc(s, v).status = s.status
  BY DEF SetAcc, IsState

LEMMA PushIsState ==
  ASSUME NEW s, IsState(s), NEW v \in Int
  PROVE  /\ IsState(Push(s, v))
         /\ Push(s, v).acc = s.acc /\ Push(s, v).mem = s.mem
         /\ Top(Push(s, v)) = v
         /\ Push(s, v).pc = s.pc /\ Push(s, v).status = s.status
  <1> DEFINE longer == Append(s.stack, v)
  <1>1. longer \in Seq(Int) /\ longer[Len(longer)] = v
    BY DEF IsState
  <1>2. Push(s, v) = [s EXCEPT !.stack = longer]
    BY DEF Push
  <1>3. Push(s, v).stack = longer
    BY <1>2 DEF IsState
  <1> HIDE DEF longer
  <1> QED
    BY <1>1, <1>2, <1>3 DEF IsState, Top

LEMMA PutIsState ==
  ASSUME NEW s, IsState(s), NEW cell, NEW v \in Int
  PROVE  /\ IsState(Put(s, cell, v))
         /\ \A c : Fetch(Put(s, cell, v), c) = IF c = cell THEN v ELSE Fetch(s, c)
         /\ Put(s, cell, v).acc = s.acc /\ Put(s, cell, v).stack = s.stack
         /\ Put(s, cell, v).pc = s.pc /\ Put(s, cell, v).status = s.status
  <1> DEFINE m == [c \in DOMAIN s.mem \cup {cell} |-> IF c = cell THEN v ELSE s.mem[c]]
  <1>1. Put(s, cell, v) = [s EXCEPT !.mem = m]
    BY DEF Put
  <1>2. m \in [DOMAIN m -> Int]
    BY DEF IsState
  <1>3. Put(s, cell, v).mem = m
    BY <1>1 DEF IsState
  <1>4. ASSUME NEW c
        PROVE  Fetch(Put(s, cell, v), c) = IF c = cell THEN v ELSE Fetch(s, c)
    BY <1>3 DEF Fetch
  <1>5. IsState(Put(s, cell, v))
    BY <1>1, <1>2, <1>3 DEF IsState
  <1>6. /\ Put(s, cell, v).acc = s.acc /\ Put(s, cell, v).stack = s.stack
        /\ Put(s, cell, v).pc = s.pc /\ Put(s, cell, v).status = s.status
    BY <1>1 DEF IsState
  <1> QED
    BY <1>4, <1>5, <1>6

Lower(s, n) == [s EXCEPT !.stack = Drop(s, n)]

LEMMA LowerIsState ==
  ASSUME NEW s, IsState(s), NEW n \in Int, 0 <= n, n <= Len(s.stack)
  PROVE  /\ IsState(Lower(s, n))
         /\ Lower(s, n).acc = s.acc /\ Lower(s, n).mem = s.mem
         /\ Lower(s, n).pc = s.pc /\ Lower(s, n).status = s.status
  <1>1. SubSeq(s.stack, 1, Len(s.stack) - n) \in Seq(Int)
    BY DEF IsState
  <1> QED
    BY <1>1 DEF Lower, Drop, IsState

LEMMA InvokeIsState ==
  ASSUME NEW s, IsState(s), NEW receiver \in Int,
         NEW n \in Int, 0 <= n, n <= Len(s.stack)
  PROVE  /\ IsState(Invoke(s, receiver, n))
         /\ Invoke(s, receiver, n).pc = s.pc
         /\ Invoke(s, receiver, n).status = s.status
  <1> DEFINE stk == SubSeq(s.stack, 1, Len(s.stack) - n)
             args == SubSeq(s.stack, Len(s.stack) - n + 1, Len(s.stack))
             m == [c \in DOMAIN s.mem |-> s.mem[c] + 1]
             cls == Append(s.calls, <<receiver, args>>)
             result == [s EXCEPT !.stack = stk, !.acc = 40 + Len(s.calls),
                                 !.mem = m, !.calls = cls]
  <1>1. stk \in Seq(Int) /\ args \in Seq(Int)
    BY DEF IsState
  <1>2. m \in [DOMAIN m -> Int]
    BY DEF IsState
  <1>3. cls \in Seq(Int \X Seq(Int)) /\ 40 + Len(s.calls) \in Int
    <2>1. s.calls \in Seq(Int \X Seq(Int))
      BY DEF IsState
    <2>2. <<receiver, args>> \in Int \X Seq(Int)
      BY <1>1
    <2> HIDE DEF args
    <2> QED
      BY <2>1, <2>2
  <1>4. Invoke(s, receiver, n) = result
    BY DEF Invoke, Drop
  <1> HIDE DEF stk, args, m, cls
  <1>5. result.mem = m
    BY DEF IsState
  <1>6. IsState(result)
    BY <1>1, <1>2, <1>3, <1>5 DEF IsState
  <1>7. result.pc = s.pc /\ result.status = s.status
    BY DEF IsState
  <1> QED
    BY <1>4, <1>6, <1>7

LEMMA FetchIsInt ==
  ASSUME NEW s, IsState(s), NEW cell
  PROVE  Fetch(s, cell) \in Int
  BY DEF Fetch, IsState

(* An instruction that does not add the accumulator to an offset.          *)
IsUnindexed(i) == i.op \in AccessOps \cup {"lea"} => ~i.index

(* Without an index the cell of an access is the variable it names.        *)
LEMMA PlainCell ==
  ASSUME NEW s, NEW i \in Instruction, IsUnindexed(i), i.op \in AccessOps \cup {"lea"}
  PROVE  CellOf(s, i) = At(i.var, i.arg) /\ ~i.index
  BY DEF CellOf, Instruction, IsUnindexed

(* Instructions that set the accumulator and nothing else.                 *)
SetOps == {"loadi", "class", "lofsa", "lea", "selfID", "pToa"} \cup UnaryOps

OnlySets(i) == i.op \in SetOps \/ (i.op = "load" /\ ~i.stack)

SetValue(s, i) ==
  IF i.op = "loadi" THEN i.arg
  ELSE IF i.op = "pToa" THEN Fetch(s, At("prop", i.arg))
  ELSE IF i.op = "load" THEN Fetch(s, At(i.var, i.arg))
  ELSE Effect(s, i).acc

LEMMA SetEffect ==
  ASSUME NEW s, IsState(s), NEW i \in Instruction, IsUnindexed(i), OnlySets(i)
  PROVE  SetValue(s, i) \in Int /\ Effect(s, i) = SetAcc(s, SetValue(s, i))
  <1>1. i.op \in {"load", "lea"} => CellOf(s, i) = At(i.var, i.arg)
    BY PlainCell DEF AccessOps
  <1>2. ASSUME NEW v \in Int, Effect(s, i) = SetAcc(s, v),
               i.op \notin {"loadi", "pToa", "load"}
        PROVE  SetValue(s, i) \in Int /\ Effect(s, i) = SetAcc(s, SetValue(s, i))
    BY <1>2, SetAccIsState DEF SetValue
  <1>3. i.arg \in Int /\ s.acc \in Int
    BY DEF Instruction, IsState
  <1>4. CASE i.op = "loadi"
    BY <1>3, <1>4, SMT
    DEF Effect, SetValue, SendOps, UnaryOps, BinaryOps, CallOps, ArithmeticOps,
        CompareOps
  <1>5. CASE i.op = "pToa"
    <2>1. Effect(s, i) = SetAcc(s, Fetch(s, At("prop", i.arg)))
      BY <1>5, SMT
      DEF Effect, SendOps, UnaryOps, BinaryOps, CallOps, ArithmeticOps,
          CompareOps
    <2> QED
      BY <1>5, <2>1, FetchIsInt DEF SetValue
  <1>6. CASE i.op = "load" /\ ~i.stack
    <2>1. Effect(s, i) = SetAcc(s, Fetch(s, CellOf(s, i)))
      BY <1>6, SMT
      DEF Effect, SendOps, UnaryOps, BinaryOps, CallOps, ArithmeticOps,
          CompareOps
    <2> QED
      BY <1>1, <1>6, <2>1, FetchIsInt DEF SetValue
  <1>7. CASE i.op = "class"
    <2>1. Effect(s, i) = SetAcc(s, 1000 + i.arg)
      BY <1>7, SMT
      DEF Effect, SendOps, UnaryOps, BinaryOps, CallOps, ArithmeticOps,
          CompareOps
    <2> QED
      BY <1>2, <1>3, <1>7, <2>1
  <1>8. CASE i.op = "lofsa"
    <2>1. Effect(s, i) = SetAcc(s, 2000 + i.arg)
      BY <1>8, SMT
      DEF Effect, SendOps, UnaryOps, BinaryOps, CallOps, ArithmeticOps,
          CompareOps
    <2> QED
      BY <1>2, <1>3, <1>8, <2>1
  <1>9. CASE i.op = "lea"
    <2>1. Effect(s, i) = SetAcc(s, 3000 + CellOf(s, i)[2])
      BY <1>9, SMT
      DEF Effect, SendOps, UnaryOps, BinaryOps, CallOps, ArithmeticOps,
          CompareOps
    <2>2. CellOf(s, i)[2] = i.arg
      BY <1>1, <1>9 DEF At
    <2> QED
      BY <1>2, <1>3, <1>9, <2>1, <2>2
  <1>10. CASE i.op = "selfID"
    <2>1. Effect(s, i) = SetAcc(s, 500)
      BY <1>10, SMT
      DEF Effect, Self, SendOps, UnaryOps, BinaryOps, CallOps, ArithmeticOps,
          CompareOps
    <2> QED
      BY <1>2, <1>10, <2>1
  <1>11. CASE i.op \in UnaryOps
    <2>1. Effect(s, i) = SetAcc(s, IF i.op = "not" THEN Truth(s.acc = 0) ELSE -s.acc)
      BY <1>11, SMT
      DEF Effect, SendOps, UnaryOps, BinaryOps, CallOps, ArithmeticOps,
          CompareOps
    <2>2. (IF i.op = "not" THEN Truth(s.acc = 0) ELSE -s.acc) \in Int
      BY <1>3 DEF Truth
    <2>3. i.op \notin {"loadi", "pToa", "load"}
      BY <1>11 DEF UnaryOps
    <2> QED
      BY <1>2, <2>1, <2>2, <2>3
  <1> QED
    BY <1>4, <1>5, <1>6, <1>7, <1>8, <1>9, <1>10, <1>11 DEF OnlySets, SetOps

LEMMA SetEffectIsState ==
  ASSUME NEW s, IsState(s), NEW i \in Instruction, IsUnindexed(i), OnlySets(i)
  PROVE  /\ IsState(Effect(s, i))
         /\ Effect(s, i).acc = SetValue(s, i)
         /\ Effect(s, i).stack = s.stack /\ Effect(s, i).mem = s.mem
         /\ Effect(s, i).pc = s.pc /\ Effect(s, i).status = s.status
  <1> DEFINE v == SetValue(s, i)
  <1>1. v \in Int /\ Effect(s, i) = SetAcc(s, v)
    BY SetEffect
  <1> HIDE DEF v
  <1>2. /\ IsState(SetAcc(s, v))
        /\ SetAcc(s, v).acc = v
        /\ SetAcc(s, v).stack = s.stack /\ SetAcc(s, v).mem = s.mem
        /\ SetAcc(s, v).pc = s.pc /\ SetAcc(s, v).status = s.status
    BY <1>1, SetAccIsState
  <1> QED
    BY <1>1, <1>2 DEF v

(* Instructions that push a word and nothing else.                         *)
PushOps ==
  {"push", "pushi", "push0", "push1", "push2", "pushSelf", "pprev", "lofss",
   "dup", "pTos"}

OnlyPushes(i) == i.op \in PushOps \/ (i.op = "load" /\ i.stack)

PushValue(s, i) ==
  CASE i.op = "push" -> s.acc
    [] i.op = "pushi" -> i.arg
    [] i.op = "push0" -> 0
    [] i.op = "push1" -> 1
    [] i.op = "push2" -> 2
    [] i.op = "pushSelf" -> Self
    [] i.op = "pprev" -> s.prev
    [] i.op = "lofss" -> 2000 + i.arg
    [] i.op = "dup" -> Top(s)
    [] i.op = "pTos" -> Fetch(s, At("prop", i.arg))
    [] i.op = "load" -> Fetch(s, At(i.var, i.arg))

LEMMA PushEffect ==
  ASSUME NEW s, IsState(s), NEW i \in Instruction, IsUnindexed(i), OnlyPushes(i),
         Takes(i) <= Len(s.stack)
  PROVE  PushValue(s, i) \in Int /\ Effect(s, i) = Push(s, PushValue(s, i))
  <1>1. i.arg \in Int /\ s.acc \in Int /\ s.prev \in Int /\ Self \in Int
    BY DEF Instruction, IsState, Self
  <1>2. CASE i.op = "push"
    <2>1. Effect(s, i) = Push(s, s.acc)
      BY <1>2, SMT
      DEF Effect, SendOps, UnaryOps, BinaryOps, CallOps, ArithmeticOps,
         CompareOps
    <2>2. PushValue(s, i) = s.acc
      BY <1>2 DEF PushValue
    <2> QED
      BY <1>1, <2>1, <2>2
  <1>3. CASE i.op = "pushi"
    <2>1. Effect(s, i) = Push(s, i.arg)
      BY <1>3, SMT
      DEF Effect, SendOps, UnaryOps, BinaryOps, CallOps, ArithmeticOps,
         CompareOps
    <2>2. PushValue(s, i) = i.arg
      BY <1>3 DEF PushValue
    <2> QED
      BY <1>1, <2>1, <2>2
  <1>4. CASE i.op = "push0"
    <2>1. Effect(s, i) = Push(s, 0)
      BY <1>4, SMT
      DEF Effect, SendOps, UnaryOps, BinaryOps, CallOps, ArithmeticOps,
         CompareOps
    <2>2. PushValue(s, i) = 0
      BY <1>4 DEF PushValue
    <2> QED
      BY <1>1, <2>1, <2>2
  <1>5. CASE i.op = "push1"
    <2>1. Effect(s, i) = Push(s, 1)
      BY <1>5, SMT
      DEF Effect, SendOps, UnaryOps, BinaryOps, CallOps, ArithmeticOps,
         CompareOps
    <2>2. PushValue(s, i) = 1
      BY <1>5 DEF PushValue
    <2> QED
      BY <1>1, <2>1, <2>2
  <1>6. CASE i.op = "push2"
    <2>1. Effect(s, i) = Push(s, 2)
      BY <1>6, SMT
      DEF Effect, SendOps, UnaryOps, BinaryOps, CallOps, ArithmeticOps,
         CompareOps
    <2>2. PushValue(s, i) = 2
      BY <1>6 DEF PushValue
    <2> QED
      BY <1>1, <2>1, <2>2
  <1>7. CASE i.op = "pushSelf"
    <2>1. Effect(s, i) = Push(s, Self)
      BY <1>7, SMT
      DEF Effect, SendOps, UnaryOps, BinaryOps, CallOps, ArithmeticOps,
         CompareOps
    <2>2. PushValue(s, i) = Self
      BY <1>7 DEF PushValue
    <2> QED
      BY <1>1, <2>1, <2>2
  <1>8. CASE i.op = "pprev"
    <2>1. Effect(s, i) = Push(s, s.prev)
      BY <1>8, SMT
      DEF Effect, SendOps, UnaryOps, BinaryOps, CallOps, ArithmeticOps,
         CompareOps
    <2>2. PushValue(s, i) = s.prev
      BY <1>8 DEF PushValue
    <2> QED
      BY <1>1, <2>1, <2>2
  <1>9. CASE i.op = "lofss"
    <2>1. Effect(s, i) = Push(s, 2000 + i.arg)
      BY <1>9, SMT
      DEF Effect, SendOps, UnaryOps, BinaryOps, CallOps, ArithmeticOps,
         CompareOps
    <2>2. PushValue(s, i) = 2000 + i.arg
      BY <1>9 DEF PushValue
    <2> QED
      BY <1>1, <2>1, <2>2
  <1>10. CASE i.op = "dup"
    <2>1. Effect(s, i) = Push(s, Top(s))
      BY <1>10, SMT
      DEF Effect, SendOps, UnaryOps, BinaryOps, CallOps, ArithmeticOps,
         CompareOps
    <2>2. PushValue(s, i) = Top(s)
      BY <1>10 DEF PushValue
    <2>3. Takes(i) = 1
      BY <1>10, SMT
      DEF Takes, CallOps, SendOps, BinaryOps, ArithmeticOps, CompareOps
    <2>4. Top(s) \in Int
      BY <2>3 DEF Top, IsState
    <2> QED
      BY <2>1, <2>2, <2>4
  <1>11. CASE i.op = "pTos"
    <2>1. Effect(s, i) = Push(s, Fetch(s, At("prop", i.arg)))
      BY <1>11, SMT
      DEF Effect, SendOps, UnaryOps, BinaryOps, CallOps, ArithmeticOps,
         CompareOps
    <2>2. PushValue(s, i) = Fetch(s, At("prop", i.arg))
      BY <1>11 DEF PushValue
    <2> QED
      BY <2>1, <2>2, FetchIsInt
  <1>12. CASE i.op = "load" /\ i.stack
    <2>1. Effect(s, i) = Push(s, Fetch(s, CellOf(s, i)))
      BY <1>12, SMT
      DEF Effect, SendOps, UnaryOps, BinaryOps, CallOps, ArithmeticOps,
         CompareOps
    <2>2. PushValue(s, i) = Fetch(s, At(i.var, i.arg))
      BY <1>12 DEF PushValue
    <2> QED
      BY <1>12, <2>1, <2>2, FetchIsInt, PlainCell DEF AccessOps
  <1> QED
    BY <1>2, <1>3, <1>4, <1>5, <1>6, <1>7, <1>8, <1>9, <1>10, <1>11, <1>12 DEF OnlyPushes, PushOps

(* Instructions that do nothing of their own.                              *)
IdleOps == {"label", "link", "rest", "sTop", "ipTos", "dpTos"}

LEMMA IdleEffect ==
  ASSUME NEW s, NEW i \in Instruction, i.op \in IdleOps
  PROVE  Effect(s, i) = s
  BY SMTT(30)
  DEF Effect, IdleOps, SendOps, UnaryOps, BinaryOps, CallOps, ArithmeticOps,
         CompareOps

LEMMA TossEffect ==
  ASSUME NEW s, NEW i \in Instruction, i.op = "toss"
  PROVE  Effect(s, i) = Lower(s, 1) /\ Takes(i) = 1
  <1>1. Effect(s, i) = Lower(s, 1)
    BY SMT
    DEF Effect, Lower, SendOps, UnaryOps, BinaryOps, CallOps, ArithmeticOps,
         CompareOps
  <1>2. Takes(i) = 1
    BY SMT
    DEF Takes, CallOps, SendOps, BinaryOps, ArithmeticOps, CompareOps
  <1> QED
    BY <1>1, <1>2

(* Writing a property leaves the accumulator.                              *)
LEMMA PropertyEffect ==
  ASSUME NEW s, NEW i \in Instruction, i.op = "aTop"
  PROVE  Effect(s, i) = Put(s, At("prop", i.arg), s.acc)
  BY SMT
  DEF Effect, SendOps, UnaryOps, BinaryOps, CallOps, ArithmeticOps,
         CompareOps

(* Counting: the variable or property, and the accumulator after it.       *)
CountOps == {"inc", "dec", "ipToa", "dpToa"}

Counted(i) == IF i.op \in {"inc", "dec"} THEN At(i.var, i.arg) ELSE At("prop", i.arg)

LEMMA CountEffect ==
  ASSUME NEW s, IsState(s), NEW i \in Instruction, IsUnindexed(i), i.op \in CountOps
  PROVE  LET v == Fetch(s, Counted(i)) + (IF i.op \in {"inc", "ipToa"} THEN 1 ELSE -1)
         IN  v \in Int /\ Effect(s, i) = SetAcc(Put(s, Counted(i), v), v)
  <1> DEFINE d == IF i.op \in {"inc", "ipToa"} THEN 1 ELSE -1
             after == Increment(s, Counted(i), d)
             v == Fetch(s, Counted(i)) + d
  <1>1. v \in Int
    BY FetchIsInt
  <1>2. after = Put(s, Counted(i), v) /\ Fetch(after, Counted(i)) = v
    BY <1>1, PutIsState DEF Increment
  <1>3. Effect(s, i) = SetAcc(after, Fetch(after, Counted(i)))
    <2>1. CASE i.op = "inc"
      <3>1. CellOf(s, i) = Counted(i) /\ d = 1
        BY <2>1, PlainCell DEF Counted, AccessOps
      <3>2. Effect(s, i) = SetAcc(Increment(s, CellOf(s, i), 1),
                                  Fetch(Increment(s, CellOf(s, i), 1), CellOf(s, i)))
        BY <2>1, SMT
        DEF Effect, SendOps, UnaryOps, BinaryOps, CallOps, ArithmeticOps,
         CompareOps
      <3> QED
        BY <3>1, <3>2
    <2>2. CASE i.op = "dec"
      <3>1. CellOf(s, i) = Counted(i) /\ d = -1
        BY <2>2, PlainCell DEF Counted, AccessOps
      <3>2. Effect(s, i) = SetAcc(Increment(s, CellOf(s, i), -1),
                                  Fetch(Increment(s, CellOf(s, i), -1), CellOf(s, i)))
        BY <2>2, SMT
        DEF Effect, SendOps, UnaryOps, BinaryOps, CallOps, ArithmeticOps,
         CompareOps
      <3> QED
        BY <3>1, <3>2
    <2>3. CASE i.op = "ipToa"
      <3>1. At("prop", i.arg) = Counted(i) /\ d = 1
        BY <2>3 DEF Counted
      <3>2. Effect(s, i) =
              SetAcc(Increment(s, At("prop", i.arg), 1),
                     Fetch(Increment(s, At("prop", i.arg), 1), At("prop", i.arg)))
        BY <2>3, SMT
        DEF Effect, SendOps, UnaryOps, BinaryOps, CallOps, ArithmeticOps,
         CompareOps
      <3> QED
        BY <3>1, <3>2
    <2>4. CASE i.op = "dpToa"
      <3>1. At("prop", i.arg) = Counted(i) /\ d = -1
        BY <2>4 DEF Counted
      <3>2. Effect(s, i) =
              SetAcc(Increment(s, At("prop", i.arg), -1),
                     Fetch(Increment(s, At("prop", i.arg), -1), At("prop", i.arg)))
        BY <2>4, SMT
        DEF Effect, SendOps, UnaryOps, BinaryOps, CallOps, ArithmeticOps,
         CompareOps
      <3> QED
        BY <3>1, <3>2
    <2> QED
      BY <2>1, <2>2, <2>3, <2>4 DEF CountOps
  <1>4. v \in Int /\ Effect(s, i) = SetAcc(Put(s, Counted(i), v), v)
    <2> HIDE DEF after, v
    <2> QED
      BY <1>1, <1>2, <1>3
  <1> QED
    BY <1>4 DEF v

LEMMA BinaryEffect ==
  ASSUME NEW s, IsState(s), NEW i \in Instruction, i.op \in BinaryOps,
         Takes(i) <= Len(s.stack)
  PROVE  IsState(Effect(s, i)) /\ Effect(s, i).pc = s.pc
         /\ Effect(s, i).status = s.status
  <1> DEFINE v == Compute(i.op, Top(s), s.acc)
             w == IF i.op \in CompareOps THEN s.acc ELSE s.prev
             lower == SubSeq(s.stack, 1, Len(s.stack) - 1)
  <1>1. Takes(i) = 1
    BY SMT
    DEF Takes, CallOps, SendOps, BinaryOps, ArithmeticOps, CompareOps
  <1>2. Top(s) \in Int /\ s.acc \in Int /\ s.prev \in Int
    BY <1>1 DEF Top, IsState
  <1>3. v \in Int
    BY <1>2, SMT DEF Compute, Truth
  <1>4. w \in Int /\ lower \in Seq(Int)
    BY <1>1, <1>2 DEF IsState
  <1>5. Effect(s, i) = [s EXCEPT !.acc = v, !.prev = w, !.stack = lower]
    BY SMTT(30)
    DEF Effect, Drop, SendOps, UnaryOps, BinaryOps, CallOps, ArithmeticOps,
         CompareOps
  <1> HIDE DEF v, w, lower
  <1> QED
    BY <1>3, <1>4, <1>5 DEF IsState

LEMMA StoreEffect ==
  ASSUME NEW s, IsState(s), NEW i \in Instruction, IsUnindexed(i), i.op = "store",
         Takes(i) <= Len(s.stack)
  PROVE  IsState(Effect(s, i)) /\ Effect(s, i).pc = s.pc
         /\ Effect(s, i).status = s.status
  <1>0. ~i.index
    BY DEF IsUnindexed, AccessOps
  <1>1. CASE i.stack
    <2>1. Takes(i) = 1
      BY <1>1, SMT
      DEF Takes, CallOps, SendOps, BinaryOps, ArithmeticOps, CompareOps
    <2>2. Effect(s, i) = Put(Lower(s, 1), CellOf(s, i), Top(s))
      BY <1>0, <1>1, SMT
      DEF Effect, Lower, SendOps, UnaryOps, BinaryOps, CallOps, ArithmeticOps,
         CompareOps
    <2>3. Top(s) \in Int
      BY <2>1 DEF Top, IsState
    <2> QED
      BY <2>1, <2>2, <2>3, LowerIsState, PutIsState
  <1>2. CASE ~i.stack
    <2>1. Effect(s, i) = Put(s, CellOf(s, i), s.acc)
      BY <1>0, <1>2, SMT
      DEF Effect, SendOps, UnaryOps, BinaryOps, CallOps, ArithmeticOps,
         CompareOps
    <2>2. s.acc \in Int
      BY DEF IsState
    <2> QED
      BY <2>1, <2>2, PutIsState
  <1> QED
    BY <1>1, <1>2

LEMMA CallEffect ==
  ASSUME NEW s, IsState(s), NEW i \in Instruction, i.op \in CallOps \cup SendOps,
         i.arg >= 0, Takes(i) <= Len(s.stack)
  PROVE  /\ IsState(Effect(s, i)) /\ Effect(s, i).pc = s.pc
         /\ Effect(s, i).status = s.status
         /\ i.op # "send" =>
              Effect(s, i) = Invoke(s, IF i.op \in CallOps THEN 0 ELSE Self, Takes(i))
  <1>1. i.arg \in Int /\ s.acc \in Int /\ 0 \in Int /\ Self \in Int
    BY DEF Instruction, IsState, Self
  <1>2. CASE i.op \in CallOps
    <2>1. Effect(s, i) = Invoke(s, 0, i.arg + 1)
      BY <1>2, SMT
      DEF Effect, SendOps, UnaryOps, BinaryOps, CallOps, ArithmeticOps,
         CompareOps
    <2>2. Takes(i) = i.arg + 1
      BY <1>2, SMT
      DEF Takes, CallOps, SendOps, BinaryOps, ArithmeticOps, CompareOps
    <2>3. i.op # "send"
      BY <1>2 DEF CallOps
    <2> QED
      BY <1>1, <1>2, <2>1, <2>2, <2>3, InvokeIsState
  <1>3. CASE i.op = "send"
    <2>1. Effect(s, i) = Invoke(s, s.acc, i.arg)
      BY <1>3, SMT
      DEF Effect, SendOps, UnaryOps, BinaryOps, CallOps, ArithmeticOps,
         CompareOps
    <2>2. Takes(i) = i.arg
      BY <1>3, SMT
      DEF Takes, CallOps, SendOps, BinaryOps, ArithmeticOps, CompareOps
    <2> QED
      BY <1>1, <1>3, <2>1, <2>2, InvokeIsState
  <1>4. CASE i.op \in {"self", "super"}
    <2>1. Effect(s, i) = Invoke(s, Self, i.arg)
      BY <1>4, SMT
      DEF Effect, SendOps, UnaryOps, BinaryOps, CallOps, ArithmeticOps,
         CompareOps
    <2>2. Takes(i) = i.arg
      BY <1>4, SMT
      DEF Takes, CallOps, SendOps, BinaryOps, ArithmeticOps, CompareOps
    <2>3. i.op \notin CallOps
      BY <1>4 DEF CallOps
    <2> QED
      BY <1>1, <1>4, <2>1, <2>2, <2>3, InvokeIsState
  <1> QED
    BY <1>2, <1>3, <1>4 DEF SendOps

(* A call takes as many words as are counted.                              *)
IsCounted(i) == i.op \in CallOps \cup SendOps => i.arg >= 0

(* Whatever the instruction: the state stays one, and goes on from where   *)
(* it is.                                                                  *)
LEMMA EffectIsState ==
  ASSUME NEW s, IsState(s), NEW i \in Instruction, IsUnindexed(i), IsCounted(i),
         i.op \notin BranchOps \cup {"ret"}, Takes(i) <= Len(s.stack)
  PROVE  /\ IsState(Effect(s, i))
         /\ Effect(s, i).pc = s.pc /\ Effect(s, i).status = s.status
  <1>1. CASE OnlySets(i)
    BY <1>1, SetEffectIsState
  <1>2. CASE OnlyPushes(i)
    BY <1>2, PushEffect, PushIsState
  <1>3. CASE i.op \in IdleOps
    BY <1>3, IdleEffect
  <1>4. CASE i.op = "toss"
    BY <1>4, TossEffect, LowerIsState
  <1>5. CASE i.op = "aTop"
    <2>1. s.acc \in Int
      BY DEF IsState
    <2> QED
      BY <1>5, <2>1, PropertyEffect, PutIsState
  <1>6. CASE i.op \in CountOps
    <2>1. PICK v \in Int : Effect(s, i) = SetAcc(Put(s, Counted(i), v), v)
      BY <1>6, CountEffect
    <2> QED
      BY <2>1, PutIsState, SetAccIsState, SMTT(30)
  <1>7. CASE i.op \in BinaryOps
    BY <1>7, BinaryEffect
  <1>8. CASE i.op = "store"
    BY <1>8, StoreEffect
  <1>9. CASE i.op \in CallOps \cup SendOps
    BY <1>9, CallEffect DEF IsCounted
  <1> QED
    <2>1. i.op \in Ops
      BY DEF Instruction
    <2>2. \/ i.op \in {"load", "store", "inc", "dec"}
          \/ i.op \in {"pToa", "aTop", "pTos", "sTop", "ipToa", "dpToa", "ipTos", "dpTos"}
          \/ i.op \in UnaryOps \/ i.op \in BinaryOps \/ i.op \in CallOps \cup SendOps
          \/ i.op \in {"label", "loadi", "push", "pushi", "push0", "push1", "push2",
                       "pushSelf", "toss", "dup", "link", "class", "rest", "lea",
                       "selfID", "pprev", "lofsa", "lofss"}
      BY <2>1 DEF Ops, AccessOps, PropOps
    <2>3. \/ OnlySets(i) \/ OnlyPushes(i) \/ i.op \in IdleOps \/ i.op \in {"toss", "aTop"}
          \/ i.op \in CountOps \/ i.op \in BinaryOps \/ i.op = "store"
          \/ i.op \in CallOps \cup SendOps
      BY <2>2 DEF OnlySets, SetOps, OnlyPushes, PushOps, IdleOps, CountOps
    <2> QED
      BY <1>1, <1>2, <1>3, <1>4, <1>5, <1>6, <1>7, <1>8, <1>9, <2>3

-----------------------------------------------------------------------------
(* A belief after an instruction that follows from the beliefs before it.  *)

Belief == [type : Types \cup {"none"}, val : Int]

LEMMA BeliefsOf ==
  /\ Unknown \in Belief
  /\ \A v \in Int : Known("imm", v) \in Belief /\ Known("prop", v) \in Belief
  /\ \A v \in Int : Known("self", v) \in Belief /\ Known("parm", v) \in Belief
  /\ \A i \in Instruction : Known(i.var, i.arg) \in Belief
  BY DEF Belief, Unknown, Known, Types, VarClasses, Instruction

(* The accumulator is left as it is, and no variable is written.           *)
AccKept(i) ==
  \/ OnlyPushes(i)
  \/ i.op \in IdleOps \cup BranchOps \cup {"toss", "ret", "aTop"}

(* b was believed of the accumulator before the instruction, c is after.   *)
AccAfter(i, b, c) ==
  \/ c = Unknown
  \/ c = b /\ AccKept(i) /\ i.op # "label"
  \/ c = Known("imm", i.arg) /\ i.op = "loadi"
  \/ c = Known("prop", i.arg) /\ i.op = "pToa"
  \/ c = Known(i.var, i.arg) /\ (i.op \in {"inc", "dec"} \/ (i.op = "load" /\ ~i.stack))

(* The top of the stack is left as it is, and no variable is written.      *)
TopKept(i) ==
  \/ OnlySets(i)
  \/ i.op \in {"link", "rest", "sTop", "ipTos", "dpTos", "dup", "ret"} \cup BranchOps

(* The same of the top of the stack, of which b was believed, when a was   *)
(* of the accumulator.                                                     *)
TopAfter(i, a, b, c) ==
  \/ c = Unknown
  \/ c = b /\ TopKept(i)
  \/ c = a /\ i.op = "push"
  \/ c = Known("imm", i.arg) /\ i.op = "pushi"
  \/ c = Known("imm", 0) /\ i.op = "push0"
  \/ c = Known("imm", 1) /\ i.op = "push1"
  \/ c = Known("imm", 2) /\ i.op = "push2"
  \/ c = Known("self", 0) /\ i.op = "pushSelf"
  \/ c = Known(i.var, i.arg) /\ i.op = "load" /\ i.stack

LEMMA AgreesWithUnknown ==
  ASSUME NEW value, NEW s
  PROVE  Agrees(Unknown, value, s)
  BY DEF Agrees, Unknown, Known

LEMMA AgreesWithConstant ==
  ASSUME NEW v, NEW s
  PROVE  Agrees(Known("imm", v), v, s)
  BY DEF Agrees, Known

LEMMA AgreesWithSelf ==
  ASSUME NEW s, NEW v
  PROVE  Agrees(Known("self", v), Self, s)
  BY DEF Agrees, Known

(* A place and what is in it.                                              *)
LEMMA AgreesWithPlace ==
  ASSUME NEW s, NEW type \in VarClasses \cup {"none", "prop"}, NEW v,
         NEW value, value = Fetch(s, At(type, v))
  PROVE  Agrees(Known(type, v), value, s)
  <1>1. type \notin {"imm", "self", "unknown"}
    BY DEF VarClasses
  <1>2. Known(type, v).type = type /\ Known(type, v).val = v
    BY DEF Known
  <1> QED
    BY <1>1, <1>2, SMT DEF Agrees

(* Of states with the same variables the same can be said.                 *)
LEMMA AgreesWithSameVariables ==
  ASSUME NEW b, NEW value, NEW s, NEW t,
         \A c : Fetch(t, c) = Fetch(s, c), Agrees(b, value, s)
  PROVE  Agrees(b, value, t)
  <1>1. Fetch(t, At(b.type, b.val)) = Fetch(s, At(b.type, b.val))
    OBVIOUS
  <1> QED
    BY <1>1, SMT DEF Agrees

LEMMA SameMemory ==
  ASSUME NEW s, NEW t, t.mem = s.mem
  PROVE  \A c : Fetch(t, c) = Fetch(s, c)
  BY DEF Fetch

(* What follows of the accumulator is so.                                  *)
LEMMA AccSound ==
  ASSUME NEW s, IsState(s), NEW i \in Instruction, IsUnindexed(i), IsCounted(i),
         i.op \notin BranchOps \cup {"ret"}, Takes(i) <= Len(s.stack),
         NEW b, NEW c, Agrees(b, s.acc, s) \/ i.op = "label", AccAfter(i, b, c)
  PROVE  Agrees(c, Effect(s, i).acc, Effect(s, i))
  <1> DEFINE t == Effect(s, i)
  <1>1. CASE c = Unknown
    BY <1>1, AgreesWithUnknown
  <1>2. CASE c = b /\ AccKept(i) /\ i.op # "label"
    <2>1. CASE OnlyPushes(i)
      <3>1. t.acc = s.acc /\ t.mem = s.mem
        BY <2>1, PushEffect, PushIsState
      <3> HIDE DEF t
      <3>2. Agrees(c, t.acc, t)
        BY <1>2, <3>1, SameMemory, AgreesWithSameVariables
      <3> QED
        BY <3>2 DEF t
    <2>2. CASE i.op \in IdleOps
      BY <1>2, <2>2, IdleEffect
    <2>3. CASE i.op = "toss"
      <3>1. t.acc = s.acc /\ t.mem = s.mem
        BY <2>3, TossEffect, LowerIsState
      <3> HIDE DEF t
      <3>2. Agrees(c, t.acc, t)
        BY <1>2, <3>1, SameMemory, AgreesWithSameVariables
      <3> QED
        BY <3>2 DEF t
    <2>4. CASE i.op = "aTop"
      <3>1. s.acc \in Int
        BY DEF IsState
      <3>2. /\ t.acc = s.acc
            /\ \A d : Fetch(t, d) = IF d = At("prop", i.arg) THEN s.acc ELSE Fetch(s, d)
        BY <2>4, <3>1, PropertyEffect, PutIsState
      <3> HIDE DEF t
      <3>3. Fetch(t, At(c.type, c.val)) = s.acc
            \/ Fetch(t, At(c.type, c.val)) = Fetch(s, At(c.type, c.val))
        BY <3>2
      <3>4. Agrees(c, s.acc, s)
        BY <1>2
      <3>5. Agrees(c, s.acc, t)
        BY <3>3, <3>4, SMT DEF Agrees
      <3> QED
        BY <3>2, <3>5 DEF t
    <2> QED
      BY <1>2, <2>1, <2>2, <2>3, <2>4 DEF AccKept
  <1>3. CASE c = Known("imm", i.arg) /\ i.op = "loadi"
    <2>1. OnlySets(i) /\ SetValue(s, i) = i.arg
      BY <1>3 DEF OnlySets, SetOps, SetValue
    <2> QED
      BY <1>3, <2>1, SetEffectIsState, AgreesWithConstant
  <1>4. CASE c = Known("prop", i.arg) /\ i.op = "pToa"
    <2>1. OnlySets(i) /\ SetValue(s, i) = Fetch(s, At("prop", i.arg))
      BY <1>4 DEF OnlySets, SetOps, SetValue
    <2>2. t.acc = Fetch(s, At("prop", i.arg)) /\ t.mem = s.mem
      BY <2>1, SetEffectIsState
    <2> HIDE DEF t
    <2>3. t.acc = Fetch(t, At("prop", i.arg))
      BY <2>2, SameMemory
    <2>4. Agrees(c, t.acc, t)
      BY <1>4, <2>3, AgreesWithPlace
    <2> QED
      BY <2>4 DEF t
  <1>5. CASE c = Known(i.var, i.arg) /\ i.op = "load" /\ ~i.stack
    <2>1. OnlySets(i) /\ SetValue(s, i) = Fetch(s, At(i.var, i.arg))
      BY <1>5 DEF OnlySets, SetOps, SetValue
    <2>2. t.acc = Fetch(s, At(i.var, i.arg)) /\ t.mem = s.mem
      BY <2>1, SetEffectIsState
    <2> HIDE DEF t
    <2>3. t.acc = Fetch(t, At(i.var, i.arg))
      BY <2>2, SameMemory
    <2>4. i.var \in VarClasses \cup {"none", "prop"}
      BY DEF Instruction
    <2>5. Agrees(c, t.acc, t)
      BY <1>5, <2>3, <2>4, AgreesWithPlace
    <2> QED
      BY <2>5 DEF t
  <1>6. CASE c = Known(i.var, i.arg) /\ i.op \in {"inc", "dec"}
    <2>1. i.op \in CountOps /\ Counted(i) = At(i.var, i.arg)
      BY <1>6 DEF CountOps, Counted
    <2>2. PICK v \in Int : t = SetAcc(Put(s, Counted(i), v), v)
      BY <2>1, CountEffect
    <2>3. /\ IsState(Put(s, Counted(i), v))
          /\ Fetch(Put(s, Counted(i), v), Counted(i)) = v
      BY PutIsState
    <2>4. t.acc = v /\ t.mem = Put(s, Counted(i), v).mem
      BY <2>2, <2>3, SetAccIsState
    <2>5. i.var \in VarClasses \cup {"none", "prop"}
      BY DEF Instruction
    <2> HIDE DEF t
    <2>6. t.acc = Fetch(t, At(i.var, i.arg))
      BY <2>1, <2>3, <2>4, SameMemory
    <2>7. Agrees(c, t.acc, t)
      BY <1>6, <2>5, <2>6, AgreesWithPlace
    <2> QED
      BY <2>7 DEF t
  <1> QED
    BY <1>1, <1>2, <1>3, <1>4, <1>5, <1>6 DEF AccAfter

(* What follows of the top of the stack is so.                             *)
LEMMA TopSound ==
  ASSUME NEW s, IsState(s), NEW i \in Instruction, IsUnindexed(i), IsCounted(i),
         i.op \notin BranchOps \cup {"ret"}, Takes(i) <= Len(s.stack),
         NEW a, NEW b, NEW c, Agrees(a, s.acc, s) \/ i.op = "label",
         (s.stack # <<>> => Agrees(b, Top(s), s)) \/ i.op = "label",
         TopAfter(i, a, b, c)
  PROVE  Effect(s, i).stack # <<>> => Agrees(c, Top(Effect(s, i)), Effect(s, i))
  <1> DEFINE t == Effect(s, i)
  <1>1. CASE c = Unknown
    BY <1>1, AgreesWithUnknown
  <1>2. CASE c = b /\ TopKept(i)
    <2>1. CASE OnlySets(i)
      <3>1. t.stack = s.stack /\ t.mem = s.mem
        BY <2>1, SetEffectIsState
      <3>2. i.op # "label"
        BY <2>1 DEF OnlySets, SetOps, UnaryOps
      <3> HIDE DEF t
      <3>3. t.stack # <<>> => Agrees(c, Top(t), t)
        BY <1>2, <3>1, <3>2, SameMemory, AgreesWithSameVariables DEF Top
      <3> QED
        BY <3>3 DEF t
    <2>2. CASE i.op \in {"link", "rest", "sTop", "ipTos", "dpTos"}
      <3>1. i.op \in IdleOps /\ i.op # "label"
        BY <2>2 DEF IdleOps
      <3> QED
        BY <1>2, <3>1, IdleEffect
    <2>3. CASE i.op = "dup"
      <3>1. OnlyPushes(i) /\ PushValue(s, i) = Top(s)
        BY <2>3 DEF OnlyPushes, PushOps, PushValue
      <3>2. Top(t) = Top(s) /\ t.mem = s.mem
        BY <3>1, PushEffect, PushIsState
      <3>3. Takes(i) = 1
        BY <2>3, SMT
        DEF Takes, CallOps, SendOps, BinaryOps, ArithmeticOps, CompareOps
      <3>4. s.stack # <<>>
        BY <3>3
      <3>5. Agrees(c, Top(s), s)
        BY <1>2, <2>3, <3>4
      <3> HIDE DEF t
      <3>6. Agrees(c, Top(t), t)
        BY <3>2, <3>5, SameMemory, AgreesWithSameVariables
      <3> QED
        BY <3>6 DEF t
    <2> QED
      BY <1>2, <2>1, <2>2, <2>3 DEF TopKept
  <1>3. ASSUME OnlyPushes(i), Agrees(c, PushValue(s, i), s)
        PROVE  Agrees(c, Top(t), t)
    <2>1. Top(t) = PushValue(s, i) /\ t.mem = s.mem
      BY <1>3, PushEffect, PushIsState
    <2> HIDE DEF t
    <2> QED
      BY <1>3, <2>1, SameMemory, AgreesWithSameVariables
  <1>4. CASE c = a /\ i.op = "push"
    <2>1. OnlyPushes(i) /\ PushValue(s, i) = s.acc
      BY <1>4 DEF OnlyPushes, PushOps, PushValue
    <2> QED
      BY <1>3, <1>4, <2>1
  <1>5. CASE \/ c = Known("imm", i.arg) /\ i.op = "pushi"
             \/ c = Known("imm", 0) /\ i.op = "push0"
             \/ c = Known("imm", 1) /\ i.op = "push1"
             \/ c = Known("imm", 2) /\ i.op = "push2"
    <2>1. OnlyPushes(i)
      BY <1>5 DEF OnlyPushes, PushOps
    <2>2. c = Known("imm", PushValue(s, i))
      BY <1>5 DEF PushValue
    <2> QED
      BY <1>3, <2>1, <2>2, AgreesWithConstant
  <1>6. CASE c = Known("self", 0) /\ i.op = "pushSelf"
    <2>1. OnlyPushes(i) /\ PushValue(s, i) = Self
      BY <1>6 DEF OnlyPushes, PushOps, PushValue
    <2> QED
      BY <1>3, <1>6, <2>1, AgreesWithSelf
  <1>7. CASE c = Known(i.var, i.arg) /\ i.op = "load" /\ i.stack
    <2>1. OnlyPushes(i) /\ PushValue(s, i) = Fetch(s, At(i.var, i.arg))
      BY <1>7 DEF OnlyPushes, PushOps, PushValue
    <2>2. i.var \in VarClasses \cup {"none", "prop"}
      BY DEF Instruction
    <2> QED
      BY <1>3, <1>7, <2>1, <2>2, AgreesWithPlace
  <1> QED
    BY <1>1, <1>2, <1>4, <1>5, <1>6, <1>7 DEF TopAfter

-----------------------------------------------------------------------------
(* An execution, instruction by instruction.                               *)

IsRun(f, code, s, n) == f = [k \in 0..n |-> IF k = 0 THEN s ELSE Step(code, f[k - 1])]

LEMMA RunExists ==
  ASSUME NEW code, NEW s, NEW n \in Nat
  PROVE  \E f : IsRun(f, code, s, n)
  <1> DEFINE S == {m \in 0..n : \E f : IsRun(f, code, s, m)}
  <1>1. 0 \in S
    <2> DEFINE f == [k \in 0..0 |-> s]
    <2>1. f = [k \in 0..0 |-> IF k = 0 THEN s ELSE Step(code, f[k - 1])]
      OBVIOUS
    <2>2. IsRun(f, code, s, 0)
      BY <2>1 DEF IsRun
    <2> QED
      BY <2>2
  <1>2. ASSUME NEW m \in 0..n, m < n, m \in S
        PROVE  m + 1 \in S
    <2>1. PICK f : IsRun(f, code, s, m)
      BY <1>2
    <2> DEFINE g == [k \in 0..(m + 1) |-> IF k = m + 1 THEN Step(code, f[m]) ELSE f[k]]
    <2>2. ASSUME NEW k \in 0..(m + 1)
          PROVE  g[k] = IF k = 0 THEN s ELSE Step(code, g[k - 1])
      <3>1. CASE k = m + 1
        <4>1. k # 0 /\ k - 1 \in 0..(m + 1) /\ k - 1 # m + 1 /\ k - 1 = m
          BY <3>1
        <4>2. g[k] = Step(code, f[m]) /\ g[k - 1] = f[m]
          BY <3>1, <4>1
        <4> QED
          BY <4>1, <4>2
      <3>2. CASE k # m + 1
        <4>1. k \in 0..m /\ g[k] = f[k]
          BY <3>2
        <4>2. f[k] = IF k = 0 THEN s ELSE Step(code, f[k - 1])
          BY <2>1, <4>1 DEF IsRun
        <4>3. k # 0 => g[k - 1] = f[k - 1]
          BY <4>1
        <4> QED
          BY <4>1, <4>2, <4>3
      <3> QED
        BY <3>1, <3>2
    <2>3. g = [k \in 0..(m + 1) |-> g[k]]
      OBVIOUS
    <2> HIDE DEF g
    <2>4. g = [k \in 0..(m + 1) |-> IF k = 0 THEN s ELSE Step(code, g[k - 1])]
      BY <2>2, <2>3
    <2>5. IsRun(g, code, s, m + 1)
      BY <2>4 DEF IsRun
    <2>6. m + 1 \in 0..n
      BY <1>2
    <2> QED
      BY <2>5, <2>6
  <1>3. 0..n \subseteq S
    <2> HIDE DEF S
    <2> QED
      BY <1>1, <1>2, IntervalInduction
  <1> QED
    BY <1>3

LEMMA RunSteps ==
  ASSUME NEW f, NEW code, NEW s, NEW n \in Nat, IsRun(f, code, s, n)
  PROVE  f[0] = s /\ \A k \in 1..n : f[k] = Step(code, f[k - 1])
  BY DEF IsRun

LEMMA MovedIsState ==
  ASSUME NEW s, IsState(s), NEW n \in Int
  PROVE  /\ IsState([s EXCEPT !.pc = n])
         /\ [s EXCEPT !.pc = n].pc = n
         /\ [s EXCEPT !.pc = n].acc = s.acc /\ [s EXCEPT !.pc = n].stack = s.stack
         /\ [s EXCEPT !.pc = n].mem = s.mem
         /\ [s EXCEPT !.pc = n].status = s.status
  BY DEF IsState

LEMMA StoppedIsState ==
  ASSUME NEW s, IsState(s), NEW how \in {"done", "fault"}
  PROVE  IsState([s EXCEPT !.status = how]) /\ [s EXCEPT !.status = how].status = how
  BY DEF IsState

(* A branch leads to a label.                                              *)
LEMMA BranchesHaveLabels ==
  ASSUME NEW code, IsProc(code), NEW n \in 1..Len(code), code[n].op \in BranchOps
  PROVE  /\ LabelAt(code, code[n].arg) \in 1..Len(code)
         /\ code[LabelAt(code, code[n].arg)].op = "label"
         /\ code[LabelAt(code, code[n].arg)].arg = code[n].arg
  <1>1. \E j \in 1..Len(code) : code[j].op = "label" /\ code[j].arg = code[n].arg
    BY DEF IsProc
  <1> QED
    BY <1>1 DEF LabelAt

(* A, T: what was believed of the accumulator and of the top of the stack  *)
(* before each of the instructions up to n.                                *)
IsHistory(code, n, A, T, honest) ==
  /\ A \in [Nat -> Belief] /\ T \in [Nat -> Belief]
  /\ A[1] = Unknown /\ T[1] = Unknown
  /\ \A k \in 1..(n - 1) :
       /\ AccAfter(code[k], A[k], A[k + 1])
       /\ honest => TopAfter(code[k], A[k], T[k], T[k + 1])

(* What the history says of the instruction an execution has come to, is   *)
(* so.                                                                     *)
IsTrue(code, n, A, T, honest, s) ==
  s.status = "running" /\ s.pc \in 1..n /\ code[s.pc].op # "label" =>
    /\ Agrees(A[s.pc], s.acc, s)
    /\ honest /\ s.stack # <<>> => Agrees(T[s.pc], Top(s), s)

LEMMA StepIsTrue ==
  ASSUME NEW code, IsProc(code), IsPlain(code), NEW n \in 1..Len(code),
         NEW A, NEW T, NEW honest \in BOOLEAN, IsHistory(code, n, A, T, honest),
         NEW s, IsState(s), IsTrue(code, n, A, T, honest, s)
  PROVE  IsState(Step(code, s)) /\ IsTrue(code, n, A, T, honest, Step(code, s))
  <1> DEFINE i == code[s.pc]
             t == Effect(s, i)
             u == [t EXCEPT !.pc = t.pc + 1]
  <1>1. CASE s.status # "running"
    BY <1>1 DEF Step
  <1>2. CASE s.status = "running"
             /\ (s.pc \notin 1..Len(code) \/ Takes(code[s.pc]) > Len(s.stack))
    <2>1. Step(code, s) = [s EXCEPT !.status = "fault"]
      BY <1>2 DEF Step
    <2> QED
      BY <2>1, StoppedIsState DEF IsTrue
  <1>3. ASSUME s.status = "running", s.pc \in 1..Len(code),
               ~(Takes(code[s.pc]) > Len(s.stack))
        PROVE  IsState(Step(code, s)) /\ IsTrue(code, n, A, T, honest, Step(code, s))
    <2>1. i \in Instruction /\ IsUnindexed(i) /\ IsCounted(i)
      BY <1>3 DEF IsProc, IsPlain, IsUnindexed, IsCounted
    <2>2. Takes(i) <= Len(s.stack)
      <3>1. Len(s.stack) \in Nat
        BY DEF IsState
      <3>2. Takes(i) \in Int
        BY <2>1, SMT
        DEF Takes, Instruction, CallOps, SendOps, BinaryOps, ArithmeticOps, CompareOps
      <3> QED
        BY <1>3, <3>1, <3>2
    <2>3. CASE i.op = "ret"
      <3>1. Step(code, s) = [s EXCEPT !.status = "done"]
        BY <1>3, <2>3 DEF Step
      <3> QED
        BY <3>1, StoppedIsState DEF IsTrue
    <2>4. CASE i.op \in BranchOps
      <3>1. Step(code, s) = [s EXCEPT !.pc = IF Jumps(s, i) THEN LabelAt(code, i.arg)
                                             ELSE s.pc + 1]
        BY <1>3, <2>4 DEF Step, BranchOps
      <3>2. CASE Jumps(s, i)
        <4>1. /\ Step(code, s) = [s EXCEPT !.pc = LabelAt(code, i.arg)]
              /\ LabelAt(code, i.arg) \in Int
              /\ code[LabelAt(code, i.arg)].op = "label"
          BY <1>3, <2>4, <3>1, <3>2, BranchesHaveLabels
        <4>2. Step(code, s).pc = LabelAt(code, i.arg) /\ IsState(Step(code, s))
          BY <4>1, MovedIsState
        <4> QED
          BY <4>1, <4>2 DEF IsTrue
      <3>3. CASE ~Jumps(s, i)
        <4>1. Step(code, s) = [s EXCEPT !.pc = s.pc + 1]
          BY <3>1, <3>3
        <4>2. s.pc + 1 \in Int
          BY <1>3
        <4> DEFINE v == [s EXCEPT !.pc = s.pc + 1]
        <4>3. /\ IsState(v) /\ v.pc = s.pc + 1 /\ v.acc = s.acc
              /\ v.stack = s.stack /\ v.mem = s.mem
          BY <4>2, MovedIsState
        <4> HIDE DEF v
        <4>4. ASSUME s.pc + 1 \in 1..n
              PROVE  /\ Agrees(A[s.pc + 1], s.acc, v)
                     /\ honest /\ s.stack # <<>> => Agrees(T[s.pc + 1], Top(s), v)
          <5>1. s.pc \in 1..(n - 1) /\ s.pc \in 1..n
            BY <1>3, <4>4
          <5>2. i.op # "label"
            BY <2>4 DEF BranchOps
          <5>3. /\ Agrees(A[s.pc], s.acc, s)
                /\ honest /\ s.stack # <<>> => Agrees(T[s.pc], Top(s), s)
            BY <1>3, <5>1, <5>2 DEF IsTrue
          <5>4. /\ AccAfter(i, A[s.pc], A[s.pc + 1])
                /\ honest => TopAfter(i, A[s.pc], T[s.pc], T[s.pc + 1])
            BY <5>1 DEF IsHistory
          <5>5. A[s.pc + 1] = Unknown \/ A[s.pc + 1] = A[s.pc]
            BY <2>4, <5>4 DEF AccAfter, BranchOps
          <5>6. honest => T[s.pc + 1] = Unknown \/ T[s.pc + 1] = T[s.pc]
            BY <2>4, <5>4 DEF TopAfter, BranchOps
          <5> QED
            BY <4>3, <5>3, <5>5, <5>6, AgreesWithUnknown, SameMemory,
               AgreesWithSameVariables
        <4>5. Top(v) = Top(s)
          BY <4>3 DEF Top
        <4>6. IsTrue(code, n, A, T, honest, v)
          BY <4>3, <4>4, <4>5 DEF IsTrue
        <4> QED
          BY <4>1, <4>3, <4>6 DEF v
      <3> QED
        BY <3>2, <3>3
    <2>5. CASE i.op \notin BranchOps \cup {"ret"}
      <3>1. Step(code, s) = u
        BY <1>3, <2>5 DEF Step
      <3>2. IsState(t) /\ t.pc = s.pc /\ t.status = "running"
        BY <1>3, <2>1, <2>2, <2>5, EffectIsState
      <3>3. s.pc + 1 \in Int
        BY <1>3
      <3>4. /\ IsState(u) /\ u.pc = s.pc + 1 /\ u.acc = t.acc
            /\ u.stack = t.stack /\ u.mem = t.mem
        <4> HIDE DEF t
        <4> QED
          BY <3>2, <3>3, MovedIsState
      <3>5. ASSUME s.pc + 1 \in 1..n
            PROVE  /\ Agrees(A[s.pc + 1], t.acc, t)
                   /\ honest /\ t.stack # <<>> => Agrees(T[s.pc + 1], Top(t), t)
        <4>1. s.pc \in 1..(n - 1) /\ s.pc \in 1..n
          BY <1>3, <3>5
        <4>2. \/ i.op = "label"
              \/ /\ Agrees(A[s.pc], s.acc, s)
                 /\ honest /\ s.stack # <<>> => Agrees(T[s.pc], Top(s), s)
          BY <1>3, <4>1 DEF IsTrue
        <4>3. /\ AccAfter(i, A[s.pc], A[s.pc + 1])
              /\ honest => TopAfter(i, A[s.pc], T[s.pc], T[s.pc + 1])
          BY <4>1 DEF IsHistory
        <4>4. Agrees(A[s.pc + 1], t.acc, t)
          BY <2>1, <2>2, <2>5, <4>2, <4>3, AccSound
        <4>5. ASSUME honest PROVE t.stack # <<>> => Agrees(T[s.pc + 1], Top(t), t)
          <5>1. /\ Agrees(A[s.pc], s.acc, s) \/ i.op = "label"
                /\ (s.stack # <<>> => Agrees(T[s.pc], Top(s), s)) \/ i.op = "label"
                /\ TopAfter(i, A[s.pc], T[s.pc], T[s.pc + 1])
            BY <4>2, <4>3, <4>5
          <5> QED
            BY <2>1, <2>2, <2>5, <5>1, TopSound
        <4> QED
          BY <4>4, <4>5
      <3> HIDE DEF t, u
      <3>6. Top(u) = Top(t)
        BY <3>4 DEF Top
      <3>7. IsTrue(code, n, A, T, honest, u)
        BY <3>4, <3>5, <3>6, SameMemory, AgreesWithSameVariables DEF IsTrue
      <3> QED
        BY <3>1, <3>4, <3>7
    <2> QED
      BY <2>3, <2>4, <2>5
  <1> QED
    BY <1>1, <1>2, <1>3

LEMMA RunIsTrue ==
  ASSUME NEW code, IsProc(code), IsPlain(code), NEW n \in 1..Len(code),
         NEW A, NEW T, NEW honest \in BOOLEAN, IsHistory(code, n, A, T, honest),
         NEW s, IsState(s), s.pc = 1, NEW fuel \in Nat,
         NEW f, IsRun(f, code, s, fuel)
  PROVE  \A k \in 0..fuel : IsState(f[k]) /\ IsTrue(code, n, A, T, honest, f[k])
  <1> DEFINE S == {k \in 0..fuel : IsState(f[k]) /\ IsTrue(code, n, A, T, honest, f[k])}
  <1>1. 0 \in S
    <2>1. f[0] = s
      BY RunSteps
    <2>2. IsTrue(code, n, A, T, honest, s)
      BY AgreesWithUnknown DEF IsTrue, IsHistory
    <2> QED
      BY <2>1, <2>2
  <1>2. ASSUME NEW k \in 0..fuel, k < fuel, k \in S
        PROVE  k + 1 \in S
    <2>1. k + 1 \in 1..fuel /\ (k + 1) - 1 = k
      BY <1>2
    <2>2. f[k + 1] = Step(code, f[k])
      BY <2>1, RunSteps
    <2>3. IsState(f[k]) /\ IsTrue(code, n, A, T, honest, f[k])
      BY <1>2
    <2>4. IsState(f[k + 1]) /\ IsTrue(code, n, A, T, honest, f[k + 1])
      BY <2>2, <2>3, StepIsTrue
    <2> QED
      BY <2>1, <2>4
  <1>3. 0..fuel \subseteq S
    <2> HIDE DEF S
    <2> QED
      BY <1>1, <1>2, IntervalInduction
  <1> QED
    BY <1>3

-----------------------------------------------------------------------------
(* The edits of the list.                                                  *)

LEMMA RemovedAt ==
  ASSUME NEW R, NEW p \in Seq(R), NEW n \in 1..Len(p)
  PROVE  /\ RemoveAt(p, n) \in Seq(R)
         /\ Len(RemoveAt(p, n)) = Len(p) - 1
         /\ \A k \in 1..(Len(p) - 1) : RemoveAt(p, n)[k] = IF k < n THEN p[k] ELSE p[k + 1]
  <1> DEFINE front == SubSeq(p, 1, n - 1)
             back == SubSeq(p, n + 1, Len(p))
  <1>1. /\ front \in Seq(R) /\ Len(front) = n - 1
        /\ \A k \in 1..(n - 1) : front[k] = p[k]
    OBVIOUS
  <1>2. /\ back \in Seq(R) /\ Len(back) = Len(p) - n
        /\ \A k \in 1..(Len(p) - n) : back[k] = p[n + k]
    OBVIOUS
  <1>3. RemoveAt(p, n) = front \o back
    BY DEF RemoveAt
  <1> HIDE DEF front, back
  <1>4. Len(p) \in Nat
    OBVIOUS
  <1>5. front \o back \in Seq(R) /\ Len(front \o back) = Len(p) - 1
    <2>1. front \in Seq(R) /\ back \in Seq(R)
      BY <1>1, <1>2
    <2>2. front \o back \in Seq(R) /\ Len(front \o back) = Len(front) + Len(back)
      BY <2>1
    <2> QED
      BY <1>1, <1>2, <1>4, <2>2
  <1>6. ASSUME NEW k \in 1..(Len(p) - 1)
        PROVE  (front \o back)[k] = IF k < n THEN p[k] ELSE p[k + 1]
    <2>1. CASE k < n
      <3>1. (front \o back)[k] = front[k]
        BY <1>1, <1>2, <1>4, <2>1
      <3> QED
        BY <1>1, <2>1, <3>1
    <2>2. CASE ~(k < n)
      <3>1. k - (n - 1) \in 1..(Len(p) - n)
        BY <1>4, <2>2
      <3>2. (front \o back)[k] = back[k - (n - 1)]
        BY <1>1, <1>2, <1>4, <2>2, <3>1
      <3>3. back[k - (n - 1)] = p[n + (k - (n - 1))] /\ n + (k - (n - 1)) = k + 1
        BY <1>2, <3>1
      <3> QED
        BY <2>2, <3>2, <3>3
    <2> QED
      BY <2>1, <2>2
  <1> QED
    BY <1>3, <1>5, <1>6

(* The code of a procedure of this source: well formed, without indexed    *)
(* accesses and without counting if the source is.                         *)
IsCode(src, code) ==
  /\ IsProc(code)
  /\ IsPlain(src) => IsPlain(code)
  /\ IsHonest(src) => IsHonest(code)

(* What may be put in the place of an instruction.                         *)
MayReplace(code, n, x) ==
  /\ x \in Instruction
  /\ code[n].op \notin {"label", "ret"} /\ x.op # "label"
  /\ x.op \in {"push", "store"} => n # 1
  /\ x.op \in BranchOps => \E j \in 1..Len(code) : code[j].op = "label" /\ code[j].arg = x.arg
  /\ IsCounted(x)
  /\ IsPlain(code) => ~x.index
  /\ IsHonest(code) => x.op \notin MisleadingOps

LEMMA CodeReplaced ==
  ASSUME NEW src, NEW code, IsCode(src, code), NEW n \in 1..Len(code),
         NEW x, MayReplace(code, n, x)
  PROVE  /\ IsCode(src, [code EXCEPT ![n] = x])
         /\ Len([code EXCEPT ![n] = x]) = Len(code)
         /\ \A k \in 1..Len(code) : [code EXCEPT ![n] = x][k] = IF k = n THEN x ELSE code[k]
  <1> DEFINE new == [code EXCEPT ![n] = x]
  <1>1. code \in Seq(Instruction) /\ Len(code) \in Nat /\ Len(code) > 0
    BY DEF IsCode, IsProc
  <1>2. /\ new \in Seq(Instruction) /\ Len(new) = Len(code)
        /\ \A k \in 1..Len(code) : new[k] = IF k = n THEN x ELSE code[k]
    BY <1>1 DEF MayReplace
  <1> HIDE DEF new
  <1>3. new[Len(new)].op = "ret"
    <2>1. code[Len(code)].op = "ret" /\ Len(code) \in 1..Len(code)
      BY <1>1 DEF IsCode, IsProc
    <2>2. n # Len(code)
      BY <2>1 DEF MayReplace
    <2> QED
      BY <1>2, <2>1, <2>2
  <1>4. new[1].op \notin {"push", "store"}
    BY <1>1, <1>2 DEF IsCode, IsProc, MayReplace
  <1>5. \A k \in 1..Len(new) : IsCounted(new[k])
    BY <1>2 DEF IsCode, IsProc, MayReplace, IsCounted
  <1>6. \A k \in 1..Len(code) : (code[k].op = "label" \/ new[k].op = "label") => new[k] = code[k]
    BY <1>2 DEF MayReplace
  <1>7. ASSUME NEW k \in 1..Len(new), new[k].op \in BranchOps
        PROVE  \E j \in 1..Len(new) : new[j].op = "label" /\ new[j].arg = new[k].arg
    <2>1. PICK j \in 1..Len(code) : code[j].op = "label" /\ code[j].arg = new[k].arg
      <3>1. CASE k = n
        BY <1>2, <1>7, <3>1 DEF MayReplace
      <3>2. CASE k # n
        BY <1>2, <1>7, <3>2 DEF IsCode, IsProc
      <3> QED
        BY <3>1, <3>2
    <2>2. new[j] = code[j]
      BY <1>6, <2>1
    <2> QED
      BY <1>2, <2>1, <2>2
  <1>8. \A k, j \in 1..Len(new) :
          new[k].op = "label" /\ new[j].op = "label" /\ new[k].arg = new[j].arg => k = j
    BY <1>2, <1>6 DEF IsCode, IsProc
  <1>9. IsProc(new)
    BY <1>1, <1>2, <1>3, <1>4, <1>5, <1>7, <1>8 DEF IsProc, IsCounted
  <1>10. IsPlain(src) => IsPlain(new)
    BY <1>2 DEF IsCode, IsPlain, MayReplace
  <1>11. IsHonest(src) => IsHonest(new)
    BY <1>2 DEF IsCode, IsHonest, MayReplace
  <1>12. IsCode(src, new)
    BY <1>9, <1>10, <1>11 DEF IsCode
  <1> QED
    BY <1>2, <1>12 DEF new

LEMMA CodeRemoved ==
  ASSUME NEW src, NEW code, IsCode(src, code), NEW n \in 2..Len(code),
         code[n].op # "label", code[n].op = "ret" => n < Len(code) \/ code[n - 1].op = "ret"
  PROVE  /\ IsCode(src, RemoveAt(code, n))
         /\ Len(RemoveAt(code, n)) = Len(code) - 1
         /\ \A k \in 1..(Len(code) - 1) :
              RemoveAt(code, n)[k] = IF k < n THEN code[k] ELSE code[k + 1]
  <1> DEFINE new == RemoveAt(code, n)
             old(k) == IF k < n THEN k ELSE k + 1
  <1>1. code \in Seq(Instruction) /\ Len(code) \in Nat /\ n \in 1..Len(code)
    BY DEF IsCode, IsProc
  <1>2. /\ new \in Seq(Instruction) /\ Len(new) = Len(code) - 1
        /\ \A k \in 1..(Len(code) - 1) : new[k] = IF k < n THEN code[k] ELSE code[k + 1]
    BY <1>1, RemovedAt
  <1> HIDE DEF new
  <1>3. \A k \in 1..Len(new) : old(k) \in 1..Len(code) /\ new[k] = code[old(k)]
    BY <1>1, <1>2
  <1>4. Len(new) > 0 /\ Len(new) \in 1..Len(new) /\ 1 \in 1..Len(new)
    BY <1>1, <1>2
  <1>5. new[Len(new)].op = "ret"
    <2>1. code[Len(code)].op = "ret"
      BY DEF IsCode, IsProc
    <2>2. CASE n < Len(code)
      <3>1. old(Len(new)) = Len(code)
        BY <1>1, <1>2, <2>2
      <3> QED
        BY <1>3, <1>4, <2>1, <3>1
    <2>3. CASE n = Len(code)
      <3>1. old(Len(new)) = n - 1
        BY <1>1, <1>2, <2>3
      <3>2. code[n - 1].op = "ret"
        BY <2>1, <2>3
      <3> QED
        BY <1>3, <1>4, <3>1, <3>2
    <2> QED
      BY <1>1, <2>2, <2>3
  <1>6. new[1].op \notin {"push", "store"}
    <2>1. old(1) = 1
      OBVIOUS
    <2> QED
      BY <1>3, <1>4, <2>1 DEF IsCode, IsProc
  <1>7. \A k \in 1..Len(new) : IsCounted(new[k])
    <2>1. \A k \in 1..Len(code) : IsCounted(code[k])
      BY DEF IsCode, IsProc, IsCounted
    <2> HIDE DEF old
    <2> QED
      BY <1>3, <2>1
  <1>8. ASSUME NEW k \in 1..Len(new), new[k].op \in BranchOps
        PROVE  \E j \in 1..Len(new) : new[j].op = "label" /\ new[j].arg = new[k].arg
    <2>1. code[old(k)].op \in BranchOps /\ old(k) \in 1..Len(code) /\ new[k] = code[old(k)]
      BY <1>3, <1>8
    <2>2. PICK j \in 1..Len(code) : code[j].op = "label" /\ code[j].arg = new[k].arg
      <3> HIDE DEF old
      <3> QED
        BY <2>1 DEF IsCode, IsProc
    <2> DEFINE m == IF j < n THEN j ELSE j - 1
    <2>3. m \in 1..Len(new) /\ old(m) = j
      <3>1. j # n
        BY <2>2
      <3> QED
        BY <1>1, <1>2, <3>1
    <2>4. new[m] = code[j]
      BY <1>3, <2>3
    <2> HIDE DEF m
    <2> QED
      BY <2>2, <2>3, <2>4
  <1>9. \A k, j \in 1..Len(new) :
          new[k].op = "label" /\ new[j].op = "label" /\ new[k].arg = new[j].arg => k = j
    <2>1. \A k, j \in 1..Len(new) : old(k) = old(j) => k = j
      BY <1>2
    <2>2. \A k, j \in 1..Len(code) :
            code[k].op = "label" /\ code[j].op = "label" /\ code[k].arg = code[j].arg => k = j
      BY DEF IsCode, IsProc
    <2> HIDE DEF old
    <2> QED
      BY <1>3, <2>1, <2>2
  <1>10. IsProc(new)
    BY <1>2, <1>4, <1>5, <1>6, <1>7, <1>8, <1>9 DEF IsProc, IsCounted
  <1>11. (IsPlain(src) => IsPlain(new)) /\ (IsHonest(src) => IsHonest(new))
    <2> HIDE DEF old
    <2> QED
      BY <1>3 DEF IsCode, IsPlain, IsHonest
  <1>12. IsCode(src, new)
    BY <1>10, <1>11 DEF IsCode
  <1> QED
    BY <1>2, <1>12 DEF new

-----------------------------------------------------------------------------
(* The histories of edited lists.                                          *)

HasHistory(src, code, n, a, t) ==
  IsPlain(src) =>
    \E A, T : IsHistory(code, n, A, T, IsHonest(src)) /\ A[n] = a /\ T[n] = t

LEMMA HistoryBegins ==
  ASSUME NEW src, NEW code
  PROVE  HasHistory(src, code, 1, Unknown, Unknown)
  <1> DEFINE A == [n \in Nat |-> Unknown]
  <1>1. A \in [Nat -> Belief] /\ A[1] = Unknown
    BY BeliefsOf
  <1>2. IsHistory(code, 1, A, A, IsHonest(src))
    BY <1>1 DEF IsHistory
  <1> HIDE DEF A
  <1> QED
    BY <1>1, <1>2 DEF HasHistory

(* What comes later does not matter to it.                                 *)
LEMMA HistoryStays ==
  ASSUME NEW src, NEW code, NEW n \in Nat \ {0}, NEW a, NEW t, NEW code2,
         HasHistory(src, code, n, a, t), \A k \in 1..(n - 1) : code2[k] = code[k]
  PROVE  HasHistory(src, code2, n, a, t)
  <1>1. SUFFICES ASSUME IsPlain(src)
                 PROVE  \E A, T : IsHistory(code2, n, A, T, IsHonest(src)) /\ A[n] = a /\ T[n] = t
    BY DEF HasHistory
  <1>2. PICK A, T : IsHistory(code, n, A, T, IsHonest(src)) /\ A[n] = a /\ T[n] = t
    BY <1>1 DEF HasHistory
  <1>3. IsHistory(code2, n, A, T, IsHonest(src))
    BY <1>2 DEF IsHistory
  <1> QED
    BY <1>2, <1>3

LEMMA HistoryAdvances ==
  ASSUME NEW src, NEW code, NEW n \in Nat \ {0}, NEW a, NEW t, NEW code2,
         HasHistory(src, code, n, a, t), \A k \in 1..(n - 1) : code2[k] = code[k],
         NEW b \in Belief, NEW u \in Belief,
         IsPlain(src) => AccAfter(code2[n], a, b),
         IsPlain(src) /\ IsHonest(src) => TopAfter(code2[n], a, t, u)
  PROVE  HasHistory(src, code2, n + 1, b, u)
  <1>1. SUFFICES ASSUME IsPlain(src)
                 PROVE  \E A, T : IsHistory(code2, n + 1, A, T, IsHonest(src))
                                  /\ A[n + 1] = b /\ T[n + 1] = u
    BY DEF HasHistory
  <1>2. PICK A, T : IsHistory(code, n, A, T, IsHonest(src)) /\ A[n] = a /\ T[n] = t
    BY <1>1 DEF HasHistory
  <1> DEFINE A2 == [A EXCEPT ![n + 1] = b]
             T2 == [T EXCEPT ![n + 1] = u]
  <1>3. /\ A2 \in [Nat -> Belief] /\ T2 \in [Nat -> Belief]
        /\ A2[n + 1] = b /\ T2[n + 1] = u
        /\ \A k \in 1..n : A2[k] = A[k] /\ T2[k] = T[k]
    BY <1>2 DEF IsHistory
  <1> HIDE DEF A2, T2
  <1>4. ASSUME NEW k \in 1..n
        PROVE  /\ AccAfter(code2[k], A2[k], A2[k + 1])
               /\ IsHonest(src) => TopAfter(code2[k], A2[k], T2[k], T2[k + 1])
    <2>1. CASE k = n
      BY <1>1, <1>2, <1>3, <2>1
    <2>2. CASE k # n
      <3>1. k \in 1..(n - 1) /\ k + 1 \in 1..n
        BY <2>2
      <3>2. /\ AccAfter(code[k], A[k], A[k + 1])
            /\ IsHonest(src) => TopAfter(code[k], A[k], T[k], T[k + 1])
        BY <1>2, <3>1 DEF IsHistory
      <3> QED
        BY <1>3, <3>1, <3>2
    <2> QED
      BY <2>1, <2>2
  <1>5. A2[1] = Unknown /\ T2[1] = Unknown
    BY <1>2, <1>3 DEF IsHistory
  <1>6. (n + 1) - 1 = n
    OBVIOUS
  <1>7. IsHistory(code2, n + 1, A2, T2, IsHonest(src))
    BY <1>3, <1>4, <1>5, <1>6 DEF IsHistory
  <1> QED
    BY <1>3, <1>7

(* One step back, and on with nothing known.                               *)
LEMMA HistoryForgets ==
  ASSUME NEW src, NEW code, NEW n \in Nat, n > 1, NEW a, NEW t, NEW code2,
         HasHistory(src, code, n, a, t), \A k \in 1..(n - 2) : code2[k] = code[k]
  PROVE  HasHistory(src, code2, n, Unknown, Unknown)
  <1>1. SUFFICES ASSUME IsPlain(src)
                 PROVE  HasHistory(src, code2, n, Unknown, Unknown)
    BY DEF HasHistory
  <1>2. PICK A, T : IsHistory(code, n, A, T, IsHonest(src)) /\ A[n] = a /\ T[n] = t
    BY <1>1 DEF HasHistory
  <1>3. n - 1 \in Nat \ {0} /\ (n - 1) - 1 = n - 2 /\ (n - 1) + 1 = n
    OBVIOUS
  <1>4. IsHistory(code, n - 1, A, T, IsHonest(src))
    <2>1. \A k \in 1..((n - 1) - 1) : k \in 1..(n - 1)
      OBVIOUS
    <2> QED
      BY <1>2, <2>1 DEF IsHistory
  <1>5. HasHistory(src, code, n - 1, A[n - 1], T[n - 1])
    BY <1>4 DEF HasHistory
  <1>6. AccAfter(code2[n - 1], A[n - 1], Unknown)
    BY DEF AccAfter
  <1>7. TopAfter(code2[n - 1], A[n - 1], T[n - 1], Unknown)
    BY DEF TopAfter
  <1>8. HasHistory(src, code2, (n - 1) + 1, Unknown, Unknown)
    BY <1>3, <1>5, <1>6, <1>7, BeliefsOf, HistoryAdvances
  <1> QED
    BY <1>3, <1>8

-----------------------------------------------------------------------------
(* The invariant of a pass: the list is still the code of a procedure, a   *)
(* branch that is being led on is at the cursor, and a history can be told *)
(* that ends with what the pass believes.                                  *)

PassInv ==
  /\ source \in Procs
  /\ IsCode(source, list)
  /\ cursor \in Nat \ {0}
  /\ accum \in Belief /\ top \in Belief
  /\ cursor = 1 => accum = Unknown /\ top = Unknown
  /\ hop # None => cursor <= Len(list) /\ It.op \in BranchOps /\ It.arg = hop
  /\ cursor <= Len(list) => HasHistory(source, list, cursor, accum, top)

LEMMA ItIsInstruction ==
  ASSUME PassInv, cursor <= Len(list)
  PROVE  /\ cursor \in 1..Len(list) /\ Len(list) \in Nat
         /\ It \in Instruction /\ IsCounted(It)
         /\ IsPlain(source) => ~It.index
         /\ IsHonest(source) => It.op \notin MisleadingOps
         /\ It.op # "ret" => cursor + 1 \in 2..Len(list) /\ cursor < Len(list)
  <1>1. IsCode(source, list) /\ cursor \in Nat \ {0}
    BY DEF PassInv
  <1>2. list \in Seq(Instruction) /\ Len(list) \in Nat /\ list[Len(list)].op = "ret"
    BY <1>1 DEF IsCode, IsProc
  <1>3. cursor \in 1..Len(list)
    BY <1>1, <1>2
  <1>4. It \in Instruction
    BY <1>2, <1>3 DEF It
  <1>5. IsCounted(It)
    BY <1>1, <1>3 DEF IsCode, IsProc, IsCounted, It
  <1>6. (IsPlain(source) => ~It.index) /\ (IsHonest(source) => It.op \notin MisleadingOps)
    BY <1>1, <1>3 DEF IsCode, IsPlain, IsHonest, It
  <1>7. ASSUME It.op # "ret" PROVE cursor + 1 \in 2..Len(list) /\ cursor < Len(list)
    <2>1. cursor # Len(list)
      BY <1>2, <1>7 DEF It
    <2> QED
      BY <1>1, <1>2, <1>3, <2>1
  <1> QED
    BY <1>2, <1>3, <1>4, <1>5, <1>6, <1>7

(* The pass goes on to the next instruction, whatever it made of this one  *)
(* and of what follows.                                                    *)
LEMMA Advanced ==
  ASSUME PassInv, cursor <= Len(list), cursor' = cursor + 1, hop' = None,
         source' = source, IsCode(source, list'),
         \A k \in 1..(cursor - 1) : list'[k] = list[k],
         accum' \in Belief, top' \in Belief,
         IsPlain(source) => AccAfter(list'[cursor], accum, accum'),
         IsPlain(source) /\ IsHonest(source) => TopAfter(list'[cursor], accum, top, top')
  PROVE  PassInv'
  <1>1. cursor \in Nat \ {0} /\ HasHistory(source, list, cursor, accum, top)
    BY DEF PassInv
  <1>2. HasHistory(source, list', cursor + 1, accum', top')
    BY <1>1, HistoryAdvances
  <1>3. source \in Procs /\ cursor + 1 \in Nat \ {0} /\ cursor + 1 # 1
    BY <1>1 DEF PassInv
  <1> QED
    BY <1>2, <1>3 DEF PassInv

(* The list is as it was.                                                  *)
LEMMA KeptOn ==
  ASSUME PassInv, cursor <= Len(list), Keep, source' = source,
         accum' \in Belief, top' \in Belief,
         IsPlain(source) => AccAfter(It, accum, accum'),
         IsPlain(source) /\ IsHonest(source) => TopAfter(It, accum, top, top')
  PROVE  PassInv'
  <1>1. cursor' = cursor + 1 /\ hop' = None /\ list' = list
    BY DEF Keep, Advance
  <1>2. IsCode(source, list') /\ list'[cursor] = It
    BY <1>1 DEF PassInv, It
  <1> QED
    BY <1>1, <1>2, Advanced

(* The instruction at the cursor is replaced.                              *)
LEMMA ReplacedCode ==
  ASSUME PassInv, cursor <= Len(list), NEW x, MayReplace(list, cursor, x)
  PROVE  /\ IsCode(source, [list EXCEPT ![cursor] = x])
         /\ [list EXCEPT ![cursor] = x][cursor] = x
         /\ \A k \in 1..(cursor - 1) : [list EXCEPT ![cursor] = x][k] = list[k]
  <1> DEFINE new == [list EXCEPT ![cursor] = x]
  <1>1. cursor \in 1..Len(list) /\ IsCode(source, list) /\ Len(list) \in Nat
    BY ItIsInstruction DEF PassInv
  <1>2. /\ IsCode(source, new)
        /\ \A k \in 1..Len(list) : new[k] = IF k = cursor THEN x ELSE list[k]
    BY <1>1, CodeReplaced
  <1> HIDE DEF new
  <1>3. new[cursor] = x /\ \A k \in 1..(cursor - 1) : new[k] = list[k]
    BY <1>1, <1>2
  <1> QED
    BY <1>2, <1>3 DEF new

LEMMA ReplacedOn ==
  ASSUME PassInv, cursor <= Len(list), Advance, source' = source,
         NEW x, MayReplace(list, cursor, x), list' = [list EXCEPT ![cursor] = x],
         accum' \in Belief, top' \in Belief,
         IsPlain(source) => AccAfter(x, accum, accum'),
         IsPlain(source) /\ IsHonest(source) => TopAfter(x, accum, top, top')
  PROVE  PassInv'
  <1> DEFINE new == [list EXCEPT ![cursor] = x]
  <1>1. cursor' = cursor + 1 /\ hop' = None
    BY DEF Advance
  <1>2. /\ IsCode(source, new) /\ new[cursor] = x
        /\ \A k \in 1..(cursor - 1) : new[k] = list[k]
    BY ReplacedCode
  <1>3. list' = new
    OBVIOUS
  <1> HIDE DEF new
  <1> QED
    BY <1>1, <1>2, <1>3, Advanced

(* The instruction at the cursor is replaced and the one behind it taken   *)
(* out.                                                                    *)
LEMMA MergedCode ==
  ASSUME PassInv, cursor < Len(list), NEW x, MayReplace(list, cursor, x),
         NextOp \notin {"label", "ret"}
  PROVE  LET new == RemoveAt([list EXCEPT ![cursor] = x], cursor + 1)
         IN  /\ IsCode(source, new) /\ Len(new) = Len(list) - 1 /\ new[cursor] = x
             /\ \A k \in 1..(cursor - 1) : new[k] = list[k]
  <1> DEFINE mid == [list EXCEPT ![cursor] = x]
             new == RemoveAt(mid, cursor + 1)
  <1>1. /\ cursor \in Nat \ {0} /\ IsCode(source, list) /\ Len(list) \in Nat
        /\ cursor <= Len(list) /\ cursor \in 1..Len(list)
    <2>1. Len(list) \in Nat /\ cursor \in Nat \ {0} /\ IsCode(source, list)
      BY DEF PassInv, IsCode, IsProc
    <2> QED
      BY <2>1
  <1>2. /\ IsCode(source, mid) /\ Len(mid) = Len(list)
        /\ \A k \in 1..Len(list) : mid[k] = IF k = cursor THEN x ELSE list[k]
    BY <1>1, CodeReplaced
  <1> HIDE DEF mid
  <1>3. cursor + 1 \in 2..Len(mid) /\ cursor + 1 \in 1..Len(list)
    BY <1>1, <1>2
  <1>4. mid[cursor + 1].op \notin {"label", "ret"}
    BY <1>1, <1>2, <1>3 DEF NextOp
  <1>5. /\ IsCode(source, new) /\ Len(new) = Len(mid) - 1
        /\ \A k \in 1..(Len(mid) - 1) : new[k] = IF k < cursor + 1 THEN mid[k] ELSE mid[k + 1]
    BY <1>2, <1>3, <1>4, CodeRemoved
  <1> HIDE DEF new
  <1>6. ASSUME NEW k \in 1..cursor PROVE new[k] = mid[k]
    <2>1. k \in 1..(Len(mid) - 1) /\ k < cursor + 1
      BY <1>1, <1>2
    <2> QED
      BY <1>5, <2>1
  <1>7. cursor \in 1..cursor /\ \A k \in 1..(cursor - 1) : k \in 1..cursor
    BY <1>1
  <1>8. \A k \in 1..(cursor - 1) : k \in 1..Len(list) /\ k # cursor
    BY <1>1
  <1>9. new[cursor] = x /\ \A k \in 1..(cursor - 1) : new[k] = list[k]
    BY <1>1, <1>2, <1>6, <1>7, <1>8
  <1> QED
    BY <1>2, <1>5, <1>9 DEF new, mid

LEMMA MergedOn ==
  ASSUME PassInv, cursor < Len(list), Advance, source' = source,
         NEW x, MayReplace(list, cursor, x), NextOp \notin {"label", "ret"},
         list' = RemoveAt([list EXCEPT ![cursor] = x], cursor + 1),
         accum' \in Belief, top' \in Belief,
         IsPlain(source) => AccAfter(x, accum, accum'),
         IsPlain(source) /\ IsHonest(source) => TopAfter(x, accum, top, top')
  PROVE  PassInv'
  <1> DEFINE new == RemoveAt([list EXCEPT ![cursor] = x], cursor + 1)
  <1>1. cursor' = cursor + 1 /\ hop' = None
    BY DEF Advance
  <1>2. /\ IsCode(source, new) /\ new[cursor] = x
        /\ \A k \in 1..(cursor - 1) : new[k] = list[k]
    BY MergedCode
  <1>3. list' = new
    OBVIOUS
  <1> HIDE DEF new
  <1>4. cursor <= Len(list)
    BY DEF PassInv, IsCode, IsProc
  <1> QED
    BY <1>1, <1>2, <1>3, <1>4, Advanced

(* The instruction at the cursor is taken out: the pass goes on there, or  *)
(* is at its end.                                                          *)
LEMMA RemovedIt ==
  ASSUME PassInv, cursor < Len(list), cursor # 1, RemoveIt, source' = source,
         It.op \notin {"label", "ret"}, accum' = accum, top' = top
  PROVE  PassInv'
  <1>1. /\ cursor \in Nat \ {0} /\ IsCode(source, list) /\ Len(list) \in Nat
        /\ HasHistory(source, list, cursor, accum, top)
        /\ accum \in Belief /\ top \in Belief /\ source \in Procs
    <2>1. Len(list) \in Nat /\ cursor \in Nat \ {0} /\ IsCode(source, list)
      BY DEF PassInv, IsCode, IsProc
    <2> QED
      BY <2>1 DEF PassInv
  <1>2. list' = RemoveAt(list, cursor) /\ cursor' \in {cursor, Len(list)} /\ hop' = None
    BY DEF RemoveIt, RemoveOp
  <1>3. cursor \in 2..Len(list)
    BY <1>1
  <1>4. /\ IsCode(source, list') /\ Len(list') = Len(list) - 1
        /\ \A k \in 1..(Len(list) - 1) :
             list'[k] = IF k < cursor THEN list[k] ELSE list[k + 1]
    BY <1>1, <1>2, <1>3, CodeRemoved DEF It
  <1>5. \A k \in 1..(cursor - 1) : list'[k] = list[k]
    <2>1. \A k \in 1..(cursor - 1) : k \in 1..(Len(list) - 1) /\ k < cursor
      BY <1>1
    <2> QED
      BY <1>4, <2>1
  <1>6. HasHistory(source, list', cursor, accum, top)
    BY <1>1, <1>5, HistoryStays
  <1>7. cursor' \in Nat \ {0} /\ cursor' # 1 /\ (cursor' <= Len(list') => cursor' = cursor)
    BY <1>1, <1>2, <1>4
  <1> QED
    BY <1>1, <1>2, <1>4, <1>6, <1>7 DEF PassInv

-----------------------------------------------------------------------------
(* Every action keeps the invariant.                                       *)

LEMMA ReachedOp ==
  ASSUME PassInv, NEW ops, Reached(ops)
  PROVE  /\ cursor <= Len(list) /\ It.op \in ops /\ source' = source
         /\ cursor \in 1..Len(list) /\ It \in Instruction /\ IsCounted(It)
         /\ accum \in Belief /\ top \in Belief
         /\ IsPlain(source) => ~It.index
         /\ IsHonest(source) => It.op \notin MisleadingOps
  <1>1. cursor <= Len(list) /\ It.op \in ops /\ source' = source
    BY DEF Reached
  <1> QED
    BY <1>1, ItIsInstruction DEF PassInv

(* Something is known of a place only where something came before.         *)
LEMMA KnownIsNotUnknown ==
  /\ \A v : Known("imm", v) # Unknown /\ Known("prop", v) # Unknown
  /\ \A i \in Instruction : Known(i.var, i.arg) # Unknown
  <1>1. \A t, v : Known(t, v).type = t
    BY DEF Known
  <1>2. Unknown.type = "unknown"
    BY DEF Unknown, Known
  <1>3. \A i \in Instruction : i.var # "unknown"
    BY DEF Instruction, VarClasses
  <1> QED
    BY <1>1, <1>2, <1>3

LEMMA NotFirst ==
  ASSUME PassInv, accum # Unknown \/ top # Unknown
  PROVE  cursor # 1
  BY DEF PassInv

LEMMA InstrIs ==
  ASSUME NEW op \in Ops, NEW arg \in Int
  PROVE  /\ Instr(op, arg) \in Instruction
         /\ Instr(op, arg).op = op /\ Instr(op, arg).arg = arg /\ ~Instr(op, arg).index
  BY DEF Instr, Instruction

(* The instructions without anything to check that the pass puts in.       *)
LEMMA MayBeInstr ==
  ASSUME PassInv, cursor <= Len(list), It.op \notin {"label", "ret"},
         NEW op \in {"push0", "push1", "push2", "push", "dup", "pushi"},
         NEW arg \in Int, op = "push" => cursor # 1
  PROVE  MayReplace(list, cursor, Instr(op, arg))
  <1>1. op \in Ops
    BY DEF Ops
  <1> DEFINE x == Instr(op, arg)
  <1>2. x \in Instruction /\ x.op = op /\ ~x.index
    BY <1>1, InstrIs
  <1> HIDE DEF x
  <1>3. x.op \notin BranchOps \cup CallOps \cup SendOps \cup MisleadingOps \cup {"label", "store"}
    BY <1>2 DEF BranchOps, CallOps, SendOps, MisleadingOps
  <1> QED
    BY <1>2, <1>3 DEF MayReplace, IsCounted, It, x

(* Where the list is given to the instructions and the pass goes on.       *)
LEMMA ForgetAccumKeeps ==
  ASSUME PassInv, ForgetAccum
  PROVE  PassInv'
  <1>1. Reached(UnaryOps \cup {"class", "lofsa", "ipToa", "dpToa"})
    BY DEF ForgetAccum
  <1>2. /\ cursor <= Len(list) /\ source' = source /\ top \in Belief
        /\ It.op \in UnaryOps \cup {"class", "lofsa", "ipToa", "dpToa"}
        /\ IsHonest(source) => It.op \notin MisleadingOps
    BY <1>1, ReachedOp
  <1>3. accum' = Unknown /\ top' = top /\ Keep
    BY DEF ForgetAccum
  <1>4. AccAfter(It, accum, accum')
    BY <1>3 DEF AccAfter
  <1>5. IsHonest(source) => TopAfter(It, accum, top, top')
    BY <1>2, <1>3 DEF TopAfter, TopKept, OnlySets, SetOps, MisleadingOps
  <1> QED
    BY <1>2, <1>3, <1>4, <1>5, BeliefsOf, KeptOn

LEMMA ForgetBothKeeps ==
  ASSUME PassInv, ForgetBoth
  PROVE  PassInv'
  <1>1. Reached(BinaryOps \cup CallOps \cup SendOps \cup {"lea", "label", "lofss"})
    BY DEF ForgetBoth
  <1>2. cursor <= Len(list) /\ source' = source
    BY <1>1, ReachedOp
  <1>3. accum' = Unknown /\ top' = Unknown /\ Keep
    BY DEF ForgetBoth
  <1>4. AccAfter(It, accum, accum') /\ TopAfter(It, accum, top, top')
    BY <1>3 DEF AccAfter, TopAfter
  <1> QED
    BY <1>2, <1>3, <1>4, BeliefsOf, KeptOn

LEMMA ForgetTopKeeps ==
  ASSUME PassInv, ForgetTop
  PROVE  PassInv'
  <1>1. Reached({"link", "toss", "ipTos", "dpTos"})
    BY DEF ForgetTop
  <1>2. /\ cursor <= Len(list) /\ source' = source /\ accum \in Belief
        /\ It.op \in {"link", "toss", "ipTos", "dpTos"}
    BY <1>1, ReachedOp
  <1>3. accum' = accum /\ top' = Unknown /\ Keep
    BY DEF ForgetTop
  <1>4. AccAfter(It, accum, accum') /\ TopAfter(It, accum, top, top')
    BY <1>2, <1>3 DEF AccAfter, AccKept, IdleOps, TopAfter
  <1> QED
    BY <1>2, <1>3, <1>4, BeliefsOf, KeptOn

LEMMA PushAccumKeeps ==
  ASSUME PassInv, PushAccum
  PROVE  PassInv'
  <1>1. Reached({"push"})
    BY DEF PushAccum
  <1>2. cursor <= Len(list) /\ source' = source /\ accum \in Belief /\ It.op = "push"
    BY <1>1, ReachedOp
  <1>3. accum' = accum /\ top' = accum /\ Keep
    BY DEF PushAccum
  <1>4. AccAfter(It, accum, accum') /\ TopAfter(It, accum, top, top')
    BY <1>2, <1>3 DEF AccAfter, AccKept, OnlyPushes, PushOps, TopAfter
  <1> QED
    BY <1>2, <1>3, <1>4, KeptOn

LEMMA PushKnownKeeps ==
  ASSUME PassInv, PushKnown
  PROVE  PassInv'
  <1>1. Reached({"push0", "push1", "push2", "pushSelf"})
    BY DEF PushKnown
  <1>2. /\ cursor <= Len(list) /\ source' = source /\ accum \in Belief
        /\ It.op \in {"push0", "push1", "push2", "pushSelf"}
    BY <1>1, ReachedOp
  <1>3. accum' = accum /\ Keep
    BY DEF PushKnown
  <1>4. \/ It.op = "push0" /\ top' = Known("imm", 0)
        \/ It.op = "push1" /\ top' = Known("imm", 1)
        \/ It.op = "push2" /\ top' = Known("imm", 2)
        \/ It.op = "pushSelf" /\ top' = Known("self", 0)
    BY <1>2 DEF PushKnown
  <1>5. AccAfter(It, accum, accum')
    BY <1>2, <1>3 DEF AccAfter, AccKept, OnlyPushes, PushOps
  <1>6. top' \in Belief /\ TopAfter(It, accum, top, top')
    BY <1>4, BeliefsOf DEF TopAfter
  <1> QED
    BY <1>2, <1>3, <1>5, <1>6, KeptOn

LEMMA PushImmediateKeeps ==
  ASSUME PassInv, PushImmediate
  PROVE  PassInv'
  <1>1. Reached({"pushi"})
    BY DEF PushImmediate
  <1>2. /\ cursor <= Len(list) /\ source' = source /\ accum \in Belief
        /\ It.op = "pushi" /\ It \in Instruction /\ It.arg \in Int
    BY <1>1, ReachedOp DEF Instruction
  <1>3. accum' = accum /\ top' = Value /\ Advance /\ Value = Known("imm", It.arg)
    BY DEF PushImmediate, Value
  <1>4. Value \in Belief /\ Value # Unknown
    BY <1>2, <1>3, BeliefsOf, KnownIsNotUnknown
  <1> DEFINE op == IF It.arg \in 0..2 THEN ShortPush
                   ELSE IF accum = Value THEN "push" ELSE "dup"
             x == Instr(op, 0)
  <1>5. CASE (It.arg \in 0..2 \/ accum = Value \/ top = Value) /\ list' = [list EXCEPT ![cursor] = x]
    <2>1. \/ op = "push0" /\ It.arg = 0
          \/ op = "push1" /\ It.arg = 1
          \/ op = "push2" /\ It.arg = 2
          \/ op = "push" /\ accum = Value
          \/ op = "dup" /\ top = Value
      BY <1>2, <1>5 DEF ShortPush
    <2> HIDE DEF op
    <2>2. op = "push" => cursor # 1
      BY <1>4, <2>1, NotFirst
    <2>3. op \in {"push0", "push1", "push2", "push", "dup", "pushi"} /\ op \in Ops
      BY <2>1 DEF Ops
    <2>4. MayReplace(list, cursor, x)
      BY <1>2, <2>2, <2>3, MayBeInstr
    <2>5. x.op = op
      BY <2>3, InstrIs
    <2> HIDE DEF x
    <2>6. AccAfter(x, accum, accum')
      BY <1>3, <2>1, <2>5 DEF AccAfter, AccKept, OnlyPushes, PushOps
    <2>7. TopAfter(x, accum, top, top')
      BY <1>3, <2>1, <2>5 DEF TopAfter, TopKept
    <2> QED
      BY <1>2, <1>3, <1>4, <1>5, <2>4, <2>6, <2>7, ReplacedOn
  <1>6. CASE UNCHANGED <<list, changed>>
    <2>1. Keep
      BY <1>3, <1>6 DEF Keep
    <2>2. AccAfter(It, accum, accum') /\ TopAfter(It, accum, top, top')
      BY <1>2, <1>3 DEF AccAfter, AccKept, OnlyPushes, PushOps, TopAfter
    <2> QED
      BY <1>2, <1>3, <1>4, <2>1, <2>2, KeptOn
  <1> QED
    BY <1>5, <1>6 DEF PushImmediate, Replace

LEMMA ReturnKeeps ==
  ASSUME PassInv, Return
  PROVE  PassInv'
  <1>1. Reached({"ret"})
    BY DEF Return
  <1>2. /\ cursor <= Len(list) /\ source' = source /\ accum \in Belief /\ top \in Belief
        /\ It.op = "ret" /\ cursor \in 1..Len(list)
    BY <1>1, ReachedOp
  <1>3. accum' = accum /\ top' = top /\ Advance
    BY DEF Return
  <1>4. AccAfter(It, accum, accum') /\ TopAfter(It, accum, top, top')
    BY <1>2, <1>3 DEF AccAfter, AccKept, TopAfter, TopKept
  <1>5. CASE cursor < Len(list) /\ NextOp = "ret" /\ list' = RemoveAt(list, cursor + 1)
    <2>1. IsCode(source, list) /\ Len(list) \in Nat /\ cursor + 1 \in 2..Len(list)
          /\ (cursor + 1) - 1 = cursor
      <3>1. IsCode(source, list) /\ Len(list) \in Nat
        BY DEF PassInv, IsCode, IsProc
      <3> QED
        BY <1>2, <1>5, <3>1
    <2>2. list[cursor + 1].op = "ret" /\ list[(cursor + 1) - 1].op = "ret"
      BY <1>2, <1>5, <2>1 DEF NextOp, It
    <2>3. /\ IsCode(source, list')
          /\ \A k \in 1..(Len(list) - 1) :
               list'[k] = IF k < cursor + 1 THEN list[k] ELSE list[k + 1]
      BY <1>5, <2>1, <2>2, CodeRemoved, SMTT(30)
    <2>4. \A k \in 1..cursor : list'[k] = list[k]
      <3>1. \A k \in 1..cursor : k \in 1..(Len(list) - 1) /\ k < cursor + 1
        BY <2>1, <1>2
      <3> QED
        BY <2>3, <3>1
    <2>5. list'[cursor] = It /\ \A k \in 1..(cursor - 1) : list'[k] = list[k]
      BY <1>2, <2>4 DEF It
    <2> QED
      BY <1>2, <1>3, <1>4, <2>3, <2>5, Advanced DEF Advance
  <1>6. CASE UNCHANGED <<list, changed>>
    <2>1. Keep
      BY <1>3, <1>6 DEF Keep
    <2> QED
      BY <1>2, <1>3, <1>4, <2>1, KeptOn
  <1> QED
    BY <1>5, <1>6 DEF Return, RemoveOp

LEMMA LoadImmediateKeeps ==
  ASSUME PassInv, LoadImmediate
  PROVE  PassInv'
  <1>1. Reached({"loadi"})
    BY DEF LoadImmediate
  <1>2. /\ cursor <= Len(list) /\ source' = source /\ accum \in Belief /\ top \in Belief
        /\ It.op = "loadi" /\ It.arg \in Int
    BY <1>1, ReachedOp DEF Instruction
  <1>3. cursor < Len(list)
    BY <1>2, ItIsInstruction
  <1>4. Value \in Belief /\ Value # Unknown /\ Value = Known("imm", It.arg)
    BY <1>2, BeliefsOf, KnownIsNotUnknown DEF Value
  <1> DEFINE x == Instr("pushi", It.arg)
  <1>5. CASE /\ NextOp = "push"
             /\ list' = RemoveAt([list EXCEPT ![cursor] = x], cursor + 1)
             /\ accum' = Unknown /\ top' = Value /\ Advance
    <2>1. MayReplace(list, cursor, x)
      BY <1>2, MayBeInstr
    <2>2. x.op = "pushi" /\ x.arg = It.arg
      BY DEF Instr
    <2> HIDE DEF x
    <2>3. AccAfter(x, accum, accum') /\ TopAfter(x, accum, top, top')
      BY <1>4, <1>5, <2>2 DEF AccAfter, TopAfter
    <2> QED
      BY <1>2, <1>3, <1>4, <1>5, <2>1, <2>3, BeliefsOf, MergedOn
  <1>6. CASE accum = Value /\ RemoveIt /\ UNCHANGED <<accum, top>>
    <2>1. cursor # 1
      BY <1>4, <1>6, NotFirst
    <2> QED
      BY <1>2, <1>3, <1>6, <2>1, RemovedIt
  <1>7. CASE accum' = Value /\ top' = top /\ Keep
    <2>1. AccAfter(It, accum, accum') /\ TopAfter(It, accum, top, top')
      BY <1>2, <1>4, <1>7 DEF AccAfter, TopAfter, TopKept, OnlySets, SetOps
    <2> QED
      BY <1>2, <1>4, <1>7, <2>1, KeptOn
  <1> QED
    BY <1>5, <1>6, <1>7 DEF LoadImmediate

LEMMA BranchKeeps ==
  ASSUME PassInv, Branch
  PROVE  PassInv'
  <1>1. Reached(BranchOps)
    BY DEF Branch
  <1>2. cursor <= Len(list) /\ source' = source /\ It.op \in BranchOps
    BY <1>1, ReachedOp
  <1>3. hop' = It.arg /\ UNCHANGED <<list, cursor, accum, top, changed>>
    BY DEF Branch
  <1> QED
    BY <1>2, <1>3 DEF PassInv, It

(* Behind the labels of a branch there is an instruction, the return if no *)
(* other.                                                                  *)
LEMMA NextOpExists ==
  ASSUME NEW code, IsProc(code), NEW l \in Int,
         NEW j \in 1..Len(code), code[j].op = "label", code[j].arg = l
  PROVE  FindNextOp(code, l) \in 1..Len(code)
  <1> DEFINE m == LabelAt(code, l)
             S == {n \in (m + 1)..Len(code) : code[n].op # "label"}
  <1>1. m \in 1..Len(code) /\ code[m].op = "label"
    BY DEF LabelAt
  <1>2. Len(code) \in Nat /\ code[Len(code)].op = "ret"
    BY DEF IsProc
  <1> HIDE DEF m
  <1>3. m < Len(code)
    BY <1>1, <1>2
  <1>4. Len(code) \in S /\ S \subseteq Nat
    BY <1>1, <1>2, <1>3
  <1>5. PICK n \in S : \A k \in S : n <= k
    <2> HIDE DEF S
    <2> QED
      BY <1>4, LeastNatural
  <1>6. /\ n \in (m + 1)..Len(code) /\ code[n].op # "label"
        /\ \A k \in (m + 1)..(n - 1) : code[k].op = "label"
    BY <1>1, <1>2, <1>5
  <1>7. FindNextOp(code, l) \in (m + 1)..Len(code)
    BY <1>6 DEF FindNextOp, m
  <1> QED
    BY <1>1, <1>2, <1>7

LEMMA FollowBranchKeeps ==
  ASSUME PassInv, FollowBranch
  PROVE  PassInv'
  <1> DEFINE next == list[FindNextOp(list, hop)]
             x == [It EXCEPT !.arg = next.arg]
  <1>1. /\ source' = source /\ accum' = accum /\ top' = top
        /\ cursor <= Len(list) /\ It.op \in BranchOps /\ It.arg = hop
        /\ accum \in Belief /\ top \in Belief /\ IsCode(source, list)
        /\ source \in Procs /\ cursor \in Nat \ {0}
        /\ cursor = 1 => accum = Unknown /\ top = Unknown
        /\ HasHistory(source, list, cursor, accum, top)
    BY DEF FollowBranch, PassInv
  <1>2. cursor \in 1..Len(list) /\ It \in Instruction /\ IsProc(list) /\ hop \in Int
    BY <1>1, ItIsInstruction DEF IsCode, Instruction
  <1>3. next \in Instruction /\ FindNextOp(list, hop) \in 1..Len(list)
    <2>1. PICK j \in 1..Len(list) : list[j].op = "label" /\ list[j].arg = hop
      BY <1>1, <1>2 DEF IsProc, It
    <2>2. FindNextOp(list, hop) \in 1..Len(list)
      BY <1>2, <2>1, NextOpExists
    <2> QED
      BY <1>2, <2>2 DEF IsProc
  <1>4. CASE LeadsOn(It, next) /\ Replace(x) /\ hop' = next.arg /\ UNCHANGED cursor
    <2>1. next.op \in BranchOps
      BY <1>1, <1>4 DEF LeadsOn, BranchOps
    <2>2. \E j \in 1..Len(list) : list[j].op = "label" /\ list[j].arg = next.arg
      BY <1>2, <1>3, <2>1 DEF IsProc
    <2>3. next.arg \in Int
      BY <1>3 DEF Instruction
    <2> HIDE DEF next
    <2>4. x \in Instruction /\ x.op = It.op /\ x.arg = next.arg /\ x.index = It.index
      BY <1>2, <2>3 DEF Instruction
    <2> HIDE DEF x
    <2>5. x.op \notin {"label", "ret", "push", "store"} \cup CallOps \cup SendOps
      BY <1>1, <2>4 DEF BranchOps, CallOps, SendOps
    <2>6. MayReplace(list, cursor, x)
      <3>1. (IsPlain(list) => ~x.index) /\ (IsHonest(list) => x.op \notin MisleadingOps)
        BY <1>2, <2>4 DEF IsPlain, IsHonest, It
      <3> QED
        BY <2>2, <2>4, <2>5, <3>1 DEF MayReplace, IsCounted, It
    <2>7. list' = [list EXCEPT ![cursor] = x]
      BY <1>4 DEF Replace
    <2>8. /\ IsCode(source, list') /\ list'[cursor] = x
          /\ \A k \in 1..(cursor - 1) : list'[k] = list[k]
      BY <1>1, <2>6, <2>7, ReplacedCode
    <2>9. Len(list') = Len(list)
      BY <1>1, <1>2, <2>6, <2>7, CodeReplaced
    <2>10. HasHistory(source, list', cursor, accum, top)
      BY <1>1, <2>8, HistoryStays
    <2>11. cursor' = cursor /\ It' = x
      BY <1>4, <2>8 DEF It
    <2>12. hop' = x.arg /\ x.op \in BranchOps
      BY <1>1, <1>4, <2>4
    <2> QED
      BY <1>1, <2>8, <2>9, <2>10, <2>11, <2>12 DEF PassInv
  <1>5. CASE Keep
    <2>1. AccAfter(It, accum, accum') /\ TopAfter(It, accum, top, top')
      BY <1>1 DEF AccAfter, AccKept, TopAfter, TopKept, BranchOps
    <2> QED
      BY <1>1, <1>5, <2>1, KeptOn
  <1> QED
    BY <1>4, <1>5 DEF FollowBranch

(* A property that is loaded: no claim is made of the stack of a procedure *)
(* that has such.                                                          *)
LEMMA LoadPropertyKeeps ==
  ASSUME PassInv, LoadProperty
  PROVE  PassInv'
  <1>1. Reached({"pToa"})
    BY DEF LoadProperty
  <1>2. /\ cursor <= Len(list) /\ source' = source /\ accum \in Belief /\ top \in Belief
        /\ It.op = "pToa" /\ It.arg \in Int /\ It \in Instruction
        /\ ~IsHonest(source)
    BY <1>1, ReachedOp DEF Instruction, MisleadingOps
  <1>3. cursor < Len(list) /\ cursor \in 1..Len(list)
    BY <1>2, ItIsInstruction
  <1>4. Property \in Belief /\ Property # Unknown /\ Property = Known("prop", It.arg)
    BY <1>2, BeliefsOf, KnownIsNotUnknown DEF Property
  <1> DEFINE x == [It EXCEPT !.op = "pTos"]
  <1>5. CASE /\ NextOp = "push"
             /\ list' = RemoveAt([list EXCEPT ![cursor].op = "pTos"], cursor + 1)
             /\ accum' = Unknown /\ top' = accum /\ Advance
    <2>1. x \in Instruction /\ x.op = "pTos" /\ x.index = It.index
      BY <1>2 DEF Instruction, Ops, PropOps
    <2>2. [list EXCEPT ![cursor].op = "pTos"] = [list EXCEPT ![cursor] = x]
      BY DEF It
    <2> HIDE DEF x
    <2>3. MayReplace(list, cursor, x)
      <3>1. (IsPlain(list) => ~x.index) /\ ~IsHonest(list)
        BY <1>2, <1>3, <2>1 DEF IsPlain, IsHonest, It, MisleadingOps
      <3>2. x.op \notin {"label", "push", "store"} \cup BranchOps \cup CallOps \cup SendOps
        BY <2>1 DEF BranchOps, CallOps, SendOps
      <3> QED
        BY <1>2, <2>1, <3>1, <3>2 DEF MayReplace, IsCounted, It
    <2>4. AccAfter(x, accum, accum')
      BY <1>5 DEF AccAfter
    <2>5. list' = RemoveAt([list EXCEPT ![cursor] = x], cursor + 1)
      BY <1>5, <2>2
    <2> QED
      BY <1>2, <1>3, <1>5, <2>3, <2>4, <2>5, BeliefsOf, MergedOn
  <1>6. CASE accum = Property /\ RemoveIt /\ UNCHANGED <<accum, top>>
    <2>1. cursor # 1
      BY <1>4, <1>6, NotFirst
    <2> QED
      BY <1>2, <1>3, <1>6, <2>1, RemovedIt
  <1>7. CASE accum' = Property /\ top' = top /\ Keep
    <2>1. AccAfter(It, accum, accum')
      BY <1>2, <1>4, <1>7 DEF AccAfter
    <2> QED
      BY <1>2, <1>4, <1>7, <2>1, KeptOn
  <1> QED
    BY <1>5, <1>6, <1>7 DEF LoadProperty

LEMMA PushPropertyKeeps ==
  ASSUME PassInv, PushProperty
  PROVE  PassInv'
  <1>1. Reached({"pTos"})
    BY DEF PushProperty
  <1>2. /\ cursor <= Len(list) /\ source' = source /\ accum \in Belief /\ top \in Belief
        /\ It.op = "pTos" /\ It.arg \in Int
        /\ ~IsHonest(source)
    BY <1>1, ReachedOp DEF Instruction, MisleadingOps
  <1>3. accum' = accum /\ Advance
    BY DEF PushProperty
  <1>4. Property # Unknown
    BY KnownIsNotUnknown DEF Property
  <1> DEFINE op == IF accum = Property THEN "push" ELSE "dup"
             x == Instr(op, 0)
  <1>5. CASE /\ accum = Property \/ top = Property
             /\ Replace(x) /\ top' = top
    <2>1. op \in {"push", "dup"} /\ op \in Ops
      BY DEF Ops
    <2>2. cursor # 1
      BY <1>4, <1>5, NotFirst
    <2> HIDE DEF op
    <2>3. MayReplace(list, cursor, x) /\ x.op = op
      BY <1>2, <2>1, <2>2, MayBeInstr, InstrIs
    <2>4. list' = [list EXCEPT ![cursor] = x]
      BY <1>5 DEF Replace
    <2> HIDE DEF x
    <2>5. AccAfter(x, accum, accum')
      BY <1>3, <2>1, <2>3 DEF AccAfter, AccKept, OnlyPushes, PushOps
    <2> QED
      BY <1>2, <1>3, <1>5, <2>3, <2>4, <2>5, ReplacedOn
  <1>6. CASE top' = Known("parm", It.arg) /\ UNCHANGED <<list, changed>>
    <2>1. Keep
      BY <1>3, <1>6 DEF Keep
    <2>2. AccAfter(It, accum, accum')
      BY <1>2, <1>3 DEF AccAfter, AccKept, OnlyPushes, PushOps
    <2> QED
      BY <1>2, <1>3, <1>6, <2>1, <2>2, BeliefsOf, KeptOn
  <1> QED
    BY <1>5, <1>6 DEF PushProperty

LEMMA LoadSelfKeeps ==
  ASSUME PassInv, LoadSelf
  PROVE  PassInv'
  <1>1. Reached({"selfID"})
    BY DEF LoadSelf
  <1>2. /\ cursor <= Len(list) /\ source' = source /\ accum \in Belief /\ top \in Belief
        /\ It.op = "selfID" /\ It \in Instruction
    BY <1>1, ReachedOp
  <1>3. cursor < Len(list) /\ cursor \in 1..Len(list) /\ cursor + 1 \in 2..Len(list)
    BY <1>2, ItIsInstruction
  <1>4. Advance
    BY DEF LoadSelf
  <1>5. CASE /\ NextOp = "push"
             /\ list' = RemoveAt([list EXCEPT ![cursor].op = "pushSelf"], cursor + 1)
             /\ top' = Known("self", 0) /\ accum' = accum
    <2> DEFINE x == [It EXCEPT !.op = "pushSelf"]
    <2>1. x \in Instruction /\ x.op = "pushSelf" /\ x.index = It.index
      BY <1>2 DEF Instruction, Ops
    <2>2. [list EXCEPT ![cursor].op = "pushSelf"] = [list EXCEPT ![cursor] = x]
      BY DEF It
    <2> HIDE DEF x
    <2>3. MayReplace(list, cursor, x)
      <3>1. IsPlain(list) => ~x.index
        BY <1>3, <2>1 DEF IsPlain, It
      <3>2. x.op \notin {"label", "push", "store"} \cup BranchOps \cup CallOps \cup SendOps
                        \cup MisleadingOps
        BY <2>1 DEF BranchOps, CallOps, SendOps, MisleadingOps
      <3> QED
        BY <1>2, <2>1, <3>1, <3>2 DEF MayReplace, IsCounted, It
    <2>4. AccAfter(x, accum, accum') /\ TopAfter(x, accum, top, top')
      BY <1>5, <2>1 DEF AccAfter, AccKept, OnlyPushes, PushOps, TopAfter
    <2>5. list' = RemoveAt([list EXCEPT ![cursor] = x], cursor + 1)
      BY <1>5, <2>2
    <2> QED
      <3>1. NextOp \notin {"label", "ret"} /\ accum' \in Belief /\ top' \in Belief
        BY <1>2, <1>5, BeliefsOf
      <3> QED
        BY <1>2, <1>3, <1>4, <2>3, <2>4, <2>5, <3>1, MergedOn
  <1>6. CASE /\ NextOp = "send"
             /\ list' = RemoveAt([list EXCEPT ![cursor] =
                                    Instr("self", list[cursor + 1].arg)], cursor + 1)
             /\ accum' = Unknown /\ top' = Unknown
    <2> DEFINE n == list[cursor + 1].arg
               x == Instr("self", n)
    <2>1. n \in Int /\ n >= 0
      <3>1. cursor + 1 \in 1..Len(list)
        BY <1>3, ItIsInstruction
      <3>2. list[cursor + 1] \in Instruction /\ list[cursor + 1].op \in SendOps
        BY <1>6, <3>1 DEF PassInv, IsCode, IsProc, NextOp, SendOps
      <3>3. list[cursor + 1].arg >= 0
        BY <3>1, <3>2 DEF PassInv, IsCode, IsProc
      <3> QED
        BY <3>2, <3>3 DEF Instruction
    <2> HIDE DEF n
    <2>2. x \in Instruction /\ x.op = "self" /\ x.arg = n /\ ~x.index
      <3>1. "self" \in Ops
        BY DEF Ops, SendOps
      <3> QED
        BY <2>1, <3>1, InstrIs
    <2> HIDE DEF x
    <2>3. MayReplace(list, cursor, x)
      <3>1. x.op \notin {"label", "push", "store"} \cup BranchOps \cup MisleadingOps
        BY <2>2 DEF BranchOps, MisleadingOps
      <3> QED
        BY <1>2, <2>1, <2>2, <3>1 DEF MayReplace, IsCounted, It
    <2>4. AccAfter(x, accum, accum') /\ TopAfter(x, accum, top, top')
      BY <1>6 DEF AccAfter, TopAfter
    <2>5. list' = RemoveAt([list EXCEPT ![cursor] = x], cursor + 1)
      BY <1>6 DEF x, n
    <2> QED
      BY <1>2, <1>3, <1>4, <1>6, <2>3, <2>4, <2>5, BeliefsOf, MergedOn
  <1>7. CASE accum' = Unknown /\ UNCHANGED <<list, top, changed>>
    <2>1. Keep /\ top' = top
      BY <1>4, <1>7 DEF Keep
    <2>2. AccAfter(It, accum, accum') /\ TopAfter(It, accum, top, top')
      BY <1>2, <1>7, <2>1 DEF AccAfter, TopAfter, TopKept, OnlySets, SetOps
    <2> QED
      BY <1>2, <1>7, <2>1, <2>2, BeliefsOf, KeptOn
  <1> QED
    BY <1>5, <1>6, <1>7 DEF LoadSelf

LEMMA StoreVariableKeeps ==
  ASSUME PassInv, StoreVariable
  PROVE  PassInv'
  <1>1. Reached({"store"})
    BY DEF StoreVariable
  <1>2. /\ cursor <= Len(list) /\ source' = source
        /\ It.op = "store" /\ It \in Instruction /\ cursor \in 1..Len(list)
    BY <1>1, ReachedOp
  <1>3. accum' = Unknown /\ top' = Unknown /\ hop' = None
    BY DEF StoreVariable
  <1>4. IsCode(source, list) /\ Len(list) \in Nat /\ cursor \in Nat \ {0} /\ source \in Procs
        /\ list[1].op \notin {"push", "store"}
        /\ HasHistory(source, list, cursor, accum, top)
    BY <1>2 DEF PassInv, IsCode, IsProc
  <1>5. cursor > 1
    BY <1>2, <1>4 DEF It
  <1>6. CASE /\ FollowsPush
             /\ list' = RemoveAt([list EXCEPT ![cursor].stack = FALSE], cursor - 1)
             /\ cursor' = cursor
    <2> DEFINE x == [It EXCEPT !.stack = FALSE]
               new == [list EXCEPT ![cursor] = x]
    <2>1. x \in Instruction /\ x.op = "store" /\ x.index = It.index
      BY <1>2 DEF Instruction
    <2>2. [list EXCEPT ![cursor].stack = FALSE] = new
      BY DEF It
    <2> HIDE DEF x
    <2>3. MayReplace(list, cursor, x)
      <3>1. IsPlain(list) => ~x.index
        BY <1>2, <2>1 DEF IsPlain, It
      <3>2. x.op \notin {"label"} \cup BranchOps \cup CallOps \cup SendOps \cup MisleadingOps
        BY <2>1 DEF BranchOps, CallOps, SendOps, MisleadingOps
      <3> QED
        BY <1>2, <1>5, <2>1, <3>1, <3>2 DEF MayReplace, IsCounted, It
    <2>4. /\ IsCode(source, new) /\ Len(new) = Len(list)
          /\ \A k \in 1..Len(list) : new[k] = IF k = cursor THEN x ELSE list[k]
      BY <1>2, <1>4, <2>3, CodeReplaced
    <2> HIDE DEF new
    <2>5. list[cursor - 1].op = "push" /\ cursor - 1 \in 1..Len(list) /\ cursor - 1 # cursor
      BY <1>2, <1>4, <1>5, <1>6 DEF FollowsPush
    <2>6. cursor - 1 \in 2..Len(new)
      BY <1>4, <2>4, <2>5
    <2>7. new[cursor - 1].op = "push"
      BY <2>4, <2>5
    <2>8. /\ IsCode(source, RemoveAt(new, cursor - 1))
          /\ \A k \in 1..(Len(new) - 1) :
               RemoveAt(new, cursor - 1)[k] = IF k < cursor - 1 THEN new[k] ELSE new[k + 1]
      BY <2>4, <2>6, <2>7, CodeRemoved
    <2>9. list' = RemoveAt(new, cursor - 1)
      BY <1>6, <2>2
    <2>10. \A k \in 1..(cursor - 2) : list'[k] = list[k]
      <3>1. ASSUME NEW k \in 1..(cursor - 2)
            PROVE  k \in 1..(Len(new) - 1) /\ k < cursor - 1 /\ k \in 1..Len(list) /\ k # cursor
        BY <1>2, <1>4, <2>4
      <3> QED
        BY <2>4, <2>8, <2>9, <3>1
    <2>11. HasHistory(source, list', cursor, Unknown, Unknown)
      BY <1>4, <1>5, <2>10, HistoryForgets
    <2> QED
      BY <1>2, <1>3, <1>4, <1>6, <2>8, <2>9, <2>11, BeliefsOf DEF PassInv
  <1>7. CASE cursor' = cursor + 1 /\ UNCHANGED <<list, changed>>
    <2>1. Keep
      BY <1>3, <1>7 DEF Keep, Advance
    <2>2. AccAfter(It, accum, accum') /\ TopAfter(It, accum, top, top')
      BY <1>3 DEF AccAfter, TopAfter
    <2> QED
      BY <1>2, <1>3, <2>1, <2>2, BeliefsOf, KeptOn
  <1> QED
    BY <1>6, <1>7 DEF StoreVariable

LEMMA IncDecVariableKeeps ==
  ASSUME PassInv, IncDecVariable
  PROVE  PassInv'
  <1>1. Reached({"inc", "dec"})
    BY DEF IncDecVariable
  <1>2. /\ cursor <= Len(list) /\ source' = source /\ top \in Belief
        /\ It.op \in {"inc", "dec"} /\ It \in Instruction /\ ~IsHonest(source)
    BY <1>1, ReachedOp DEF MisleadingOps
  <1>3. Keep
    BY DEF IncDecVariable
  <1>4. /\ accum' = Unknown \/ accum' = Variable
        /\ top' = Unknown \/ top' = top
    BY DEF IncDecVariable
  <1>5. accum' \in Belief /\ top' \in Belief /\ AccAfter(It, accum, accum')
    BY <1>2, <1>4, BeliefsOf DEF Variable, AccAfter
  <1> QED
    BY <1>2, <1>3, <1>5, KeptOn

LEMMA PassOverKeeps ==
  ASSUME PassInv, PassOver
  PROVE  PassInv'
  <1>1. Reached({"dup", "aTop", "sTop", "rest", "pprev"})
    BY DEF PassOver
  <1>2. /\ cursor <= Len(list) /\ source' = source /\ accum \in Belief /\ top \in Belief
        /\ It.op \in {"dup", "aTop", "sTop", "rest", "pprev"}
        /\ IsHonest(source) => It.op \notin MisleadingOps
    BY <1>1, ReachedOp
  <1>3. accum' = accum /\ top' = top /\ Keep
    BY DEF PassOver
  <1>4. AccAfter(It, accum, accum')
    BY <1>2, <1>3 DEF AccAfter, AccKept, OnlyPushes, PushOps, IdleOps
  <1>5. IsHonest(source) => TopAfter(It, accum, top, top')
    BY <1>2, <1>3 DEF TopAfter, TopKept, MisleadingOps
  <1> QED
    BY <1>2, <1>3, <1>4, <1>5, KeptOn

LEMMA EndPassKeeps ==
  ASSUME PassInv, EndPass
  PROVE  PassInv'
  <1>1. /\ cursor' = 1 /\ accum' = Unknown /\ top' = Unknown
        /\ source' = source /\ list' = list /\ hop' = None
    BY DEF EndPass
  <1>2. HasHistory(source, list, 1, Unknown, Unknown)
    BY HistoryBegins
  <1> QED
    BY <1>1, <1>2, BeliefsOf DEF PassInv

LEMMA LoadVariableKeeps ==
  ASSUME PassInv, LoadVariable
  PROVE  PassInv'
  <1> DEFINE redundant == ~It.stack /\ ~It.index /\ accum = Variable
  <1>1. Reached({"load"})
    BY DEF LoadVariable
  <1>2. /\ cursor <= Len(list) /\ source' = source /\ accum \in Belief /\ top \in Belief
        /\ It.op = "load" /\ It \in Instruction /\ cursor \in 1..Len(list)
        /\ IsPlain(source) => ~It.index
    BY <1>1, ReachedOp
  <1>3. cursor < Len(list) /\ IsCode(source, list)
    BY <1>2, ItIsInstruction DEF PassInv
  <1>4. Variable = Known(It.var, It.arg) /\ Variable \in Belief /\ Variable # Unknown
    BY <1>2, BeliefsOf, KnownIsNotUnknown DEF Variable
  <1>5. CASE redundant /\ RemoveIt /\ UNCHANGED <<accum, top>>
    <2>1. cursor # 1
      BY <1>4, <1>5, NotFirst
    <2> QED
      BY <1>2, <1>3, <1>5, <2>1, RemovedIt
  <1>6. CASE /\ ~redundant /\ IsPushedOnly /\ accum' = Unknown
             /\ StackLoad(RemoveAt([list EXCEPT ![cursor].stack = TRUE], cursor + 1),
                          Unknown, accum)
             /\ Advance
    <2> DEFINE x == [It EXCEPT !.stack = TRUE]
               code == RemoveAt([list EXCEPT ![cursor] = x], cursor + 1)
    <2>1. x \in Instruction /\ x.op = "load" /\ x.stack /\ x.index = It.index
          /\ x.var = It.var /\ x.arg = It.arg
      BY <1>2 DEF Instruction
    <2>2. [list EXCEPT ![cursor].stack = TRUE] = [list EXCEPT ![cursor] = x]
      BY DEF It
    <2> HIDE DEF x
    <2>3. MayReplace(list, cursor, x)
      <3>1. IsPlain(list) => ~x.index
        BY <1>2, <2>1 DEF IsPlain, It
      <3>2. x.op \notin {"label", "push", "store"} \cup BranchOps \cup CallOps \cup SendOps
                        \cup MisleadingOps
        BY <2>1 DEF BranchOps, CallOps, SendOps, MisleadingOps
      <3> QED
        BY <1>2, <2>1, <3>1, <3>2 DEF MayReplace, IsCounted, It
    <2>4. NextOp = "push"
      BY <1>6 DEF IsPushedOnly
    <2>5. /\ IsCode(source, code) /\ Len(code) = Len(list) - 1 /\ code[cursor] = x
          /\ \A k \in 1..(cursor - 1) : code[k] = list[k]
      BY <1>3, <2>3, <2>4, MergedCode
    <2>6. StackLoad(code, Unknown, accum)
      BY <1>6, <2>2
    <2> HIDE DEF code
    <2>7. cursor' = cursor + 1 /\ hop' = None
      BY <1>6 DEF Advance
    <2>8. CASE accum = Variable
      <3> DEFINE y == Instr("dup", 0)
      <3>1. list' = [code EXCEPT ![cursor] = y] /\ top' = accum
        BY <1>4, <2>6, <2>8 DEF StackLoad
      <3>2. It.index /\ ~IsPlain(source)
        BY <1>2, <1>6, <2>8 DEF IsPushedOnly
      <3>3. y \in Instruction /\ y.op = "dup" /\ ~y.index
        <4>1. "dup" \in Ops
          BY DEF Ops
        <4> QED
          BY <4>1, InstrIs
      <3> HIDE DEF y
      <3>4. MayReplace(code, cursor, y)
        <4>1. y.op \notin {"label", "push", "store"} \cup BranchOps \cup CallOps \cup SendOps
                          \cup MisleadingOps
          BY <3>3 DEF BranchOps, CallOps, SendOps, MisleadingOps
        <4> QED
          BY <2>1, <2>5, <3>3, <4>1 DEF MayReplace, IsCounted
      <3>5. cursor \in 1..Len(code)
        BY <1>2, <1>3, <2>5 DEF IsCode, IsProc
      <3>6. /\ IsCode(source, list')
            /\ \A k \in 1..Len(code) : list'[k] = IF k = cursor THEN y ELSE code[k]
        <4> DEFINE new == [code EXCEPT ![cursor] = y]
        <4>1. /\ IsCode(source, new)
              /\ \A k \in 1..Len(code) : new[k] = IF k = cursor THEN y ELSE code[k]
          BY <2>5, <3>4, <3>5, CodeReplaced
        <4>2. list' = new
          BY <3>1
        <4> HIDE DEF new
        <4> QED
          BY <4>1, <4>2
      <3>7. \A k \in 1..(cursor - 1) : list'[k] = list[k]
        <4>1. \A k \in 1..(cursor - 1) : k \in 1..Len(code) /\ k # cursor
          BY <2>5, <3>5 DEF IsCode, IsProc
        <4> QED
          BY <2>5, <3>6, <4>1
      <3>8. top' \in Belief /\ accum' \in Belief
        BY <1>2, <1>6, <3>1, BeliefsOf
      <3> QED
        BY <1>2, <2>7, <3>2, <3>6, <3>7, <3>8, Advanced
    <2>9. CASE accum # Variable
      <3>1. list' = code /\ top' = IF It.index THEN Unknown ELSE Variable
        BY <1>4, <2>6, <2>9 DEF StackLoad
      <3>2. top' \in Belief /\ accum' \in Belief
        BY <1>4, <1>6, <3>1, BeliefsOf
      <3>3. AccAfter(x, accum, accum') /\ TopAfter(x, accum, top, top')
        BY <1>4, <1>6, <2>1, <3>1 DEF AccAfter, TopAfter
      <3> QED
        BY <1>2, <2>5, <2>7, <3>1, <3>2, <3>3, Advanced
    <2> QED
      BY <2>8, <2>9
  <1>7. CASE ~It.stack /\ accum' = Variable /\ top' = top /\ Keep
    <2>1. AccAfter(It, accum, accum') /\ TopAfter(It, accum, top, top')
      BY <1>2, <1>4, <1>7 DEF AccAfter, TopAfter, TopKept, OnlySets
    <2> QED
      BY <1>2, <1>4, <1>7, <2>1, KeptOn
  <1>8. CASE /\ It.stack /\ StackLoad(list, accum, top)
             /\ changed' = (changed \/ list' # list)
             /\ accum' = accum /\ Advance
    <2>1. ASSUME NEW op \in {"push", "dup"}, op = "push" => accum = Variable,
                 op = "dup" => top = Variable, list' = [list EXCEPT ![cursor] = Instr(op, 0)],
                 top' = Variable
          PROVE  PassInv'
      <3> DEFINE x == Instr(op, 0)
      <3>1. cursor # 1
        BY <1>4, <2>1, NotFirst
      <3>2. op \in Ops
        BY <2>1 DEF Ops
      <3>3. MayReplace(list, cursor, x) /\ x.op = op
        BY <1>2, <2>1, <3>1, <3>2, MayBeInstr, InstrIs
      <3>4. list' = [list EXCEPT ![cursor] = x]
        BY <2>1
      <3> HIDE DEF x
      <3>5. AccAfter(x, accum, accum') /\ TopAfter(x, accum, top, top')
        BY <1>8, <2>1, <3>3 DEF AccAfter, AccKept, OnlyPushes, PushOps, TopAfter, TopKept
      <3> QED
        BY <1>2, <1>4, <1>8, <2>1, <3>3, <3>4, <3>5, ReplacedOn
    <2>2. CASE accum = Variable
      <3>1. list' = [list EXCEPT ![cursor] = Instr("push", 0)] /\ top' = Variable
        BY <1>8, <2>2 DEF StackLoad
      <3> QED
        BY <2>1, <2>2, <3>1
    <2>3. CASE accum # Variable /\ top = Variable
      <3>1. list' = [list EXCEPT ![cursor] = Instr("dup", 0)] /\ top' = Variable
        BY <1>8, <2>3 DEF StackLoad
      <3> QED
        BY <2>1, <2>3, <3>1
    <2>4. CASE accum # Variable /\ top # Variable
      <3>1. list' = list /\ top' = IF It.index THEN Unknown ELSE Variable
        BY <1>8, <2>4 DEF StackLoad
      <3>2. top' \in Belief /\ list'[cursor] = It /\ IsCode(source, list')
        BY <1>3, <1>4, <3>1, BeliefsOf DEF It
      <3>3. AccAfter(It, accum, accum') /\ TopAfter(It, accum, top, top')
        BY <1>2, <1>4, <1>8, <3>1 DEF AccAfter, AccKept, OnlyPushes, TopAfter
      <3> QED
        BY <1>2, <1>8, <3>1, <3>2, <3>3, Advanced DEF Advance
    <2> QED
      BY <2>2, <2>3, <2>4
  <1> QED
    BY <1>5, <1>6, <1>7, <1>8 DEF LoadVariable

LEMMA PassBegins ==
  ASSUME Init
  PROVE  PassInv
  <1>1. PICK p \in Procs : Begin(p)
    BY DEF Init
  <1>2. /\ source = p /\ list = p /\ cursor = 1
        /\ accum = Unknown /\ top = Unknown /\ hop = None
    BY <1>1 DEF Begin
  <1>3. IsCode(source, list)
    BY <1>1, <1>2, ProcsAssumption DEF IsCode
  <1>4. HasHistory(source, list, 1, Unknown, Unknown)
    BY HistoryBegins
  <1> QED
    BY <1>1, <1>2, <1>3, <1>4, BeliefsOf DEF PassInv

LEMMA PassGoesOn ==
  ASSUME PassInv, [Next]_vars
  PROVE  PassInv'
  <1>1. CASE UNCHANGED vars
    BY <1>1 DEF vars, PassInv, It
  <1>2. CASE ForgetAccum BY <1>2, ForgetAccumKeeps
  <1>3. CASE ForgetBoth BY <1>3, ForgetBothKeeps
  <1>4. CASE ForgetTop BY <1>4, ForgetTopKeeps
  <1>5. CASE PushAccum BY <1>5, PushAccumKeeps
  <1>6. CASE PushKnown BY <1>6, PushKnownKeeps
  <1>7. CASE PushImmediate BY <1>7, PushImmediateKeeps
  <1>8. CASE Return BY <1>8, ReturnKeeps
  <1>9. CASE LoadImmediate BY <1>9, LoadImmediateKeeps
  <1>10. CASE Branch BY <1>10, BranchKeeps
  <1>11. CASE FollowBranch BY <1>11, FollowBranchKeeps
  <1>12. CASE LoadProperty BY <1>12, LoadPropertyKeeps
  <1>13. CASE PushProperty BY <1>13, PushPropertyKeeps
  <1>14. CASE LoadSelf BY <1>14, LoadSelfKeeps
  <1>15. CASE StoreVariable BY <1>15, StoreVariableKeeps
  <1>16. CASE IncDecVariable BY <1>16, IncDecVariableKeeps
  <1>17. CASE LoadVariable BY <1>17, LoadVariableKeeps
  <1>18. CASE PassOver BY <1>18, PassOverKeeps
  <1>19. CASE EndPass BY <1>19, EndPassKeeps
  <1> QED
    BY <1>1, <1>2, <1>3, <1>4, <1>5, <1>6, <1>7, <1>8, <1>9, <1>10, <1>11, <1>12,
       <1>13, <1>14, <1>15, <1>16, <1>17, <1>18, <1>19 DEF Next

-----------------------------------------------------------------------------
(* What the invariant says of executions.                                  *)

LEMMA ArrivalsAgree ==
  ASSUME PassInv
  PROVE  AccumulatorIsKnown /\ StackTopIsKnown
  <1> SUFFICES ASSUME IsPlain(source), NEW s \in Starts, NEW t \in Arrivals(s)
               PROVE  /\ Agrees(accum, t.acc, t)
                      /\ IsHonest(source) /\ t.stack # <<>> => Agrees(top, Top(t), t)
    BY DEF AccumulatorIsKnown, StackTopIsKnown
  <1> DEFINE run[k \in 0..Fuel] == IF k = 0 THEN s ELSE Step(list, run[k - 1])
  <1>1. Fuel \in Nat /\ IsState(s) /\ s.pc = 1
    BY MachineAssumption
  <1>2. IsRun(run, list, s, Fuel)
    <2>1. PICK f : IsRun(f, list, s, Fuel)
      BY <1>1, RunExists
    <2>2. \E g : g = [k \in 0..Fuel |-> IF k = 0 THEN s ELSE Step(list, g[k - 1])]
      BY <2>1 DEF IsRun
    <2>3. run = [k \in 0..Fuel |-> IF k = 0 THEN s ELSE Step(list, run[k - 1])]
      BY <2>2
    <2> HIDE DEF run
    <2> QED
      BY <2>3 DEF IsRun
  <1>3. PICK k \in 0..Fuel : /\ t = run[k] /\ run[k].pc = cursor
                             /\ run[k].status = "running"
                             /\ cursor <= Len(list) /\ It.op # "label"
    BY DEF Arrivals
  <1> HIDE DEF run
  <1>4. IsCode(source, list) /\ cursor \in 1..Len(list)
    BY <1>3, ItIsInstruction DEF PassInv
  <1>5. PICK A, T : /\ IsHistory(list, cursor, A, T, IsHonest(source))
                    /\ A[cursor] = accum /\ T[cursor] = top
    BY <1>3 DEF PassInv, HasHistory
  <1>6. IsProc(list) /\ IsPlain(list) /\ IsHonest(source) \in BOOLEAN
    BY <1>4 DEF IsCode, IsHonest
  <1>7. IsTrue(list, cursor, A, T, IsHonest(source), run[k])
    BY <1>1, <1>2, <1>4, <1>5, <1>6, RunIsTrue
  <1>8. cursor \in 1..cursor /\ list[cursor].op # "label"
    BY <1>3, <1>4 DEF It
  <1> QED
    BY <1>3, <1>5, <1>7, <1>8 DEF IsTrue

-----------------------------------------------------------------------------
(* Two executions that differ in the accumulator alone.                    *)

LEMMA WithAccIsState ==
  ASSUME NEW s, IsState(s), NEW w \in Int
  PROVE  LET u == [s EXCEPT !.acc = w]
         IN  /\ IsState(u) /\ u.acc = w
             /\ u.prev = s.prev /\ u.stack = s.stack /\ u.mem = s.mem
             /\ u.calls = s.calls /\ u.pc = s.pc /\ u.status = s.status
  BY DEF IsState

IsWithAcc(u, s, w) == u = [s EXCEPT !.acc = w]

(* An instruction that does not read the accumulator does the same to      *)
(* both, and afterwards they differ no more if it sets it.                 *)
SameBut(i, u, s) ==
  /\ \E x \in Int : Effect(u, i) = [Effect(s, i) EXCEPT !.acc = x]
  /\ OpCanModifyAccum(i) => Effect(u, i) = Effect(s, i)

LEMMA UnreadEffect ==
  ASSUME NEW s, IsState(s), NEW w \in Int, NEW u, IsWithAcc(u, s, w),
         NEW i \in Instruction,
         ~OpReadsAccum(i), IsCounted(i), Takes(i) <= Len(s.stack)
  PROVE  SameBut(i, u, s)
  <1>1. /\ IsState(u) /\ u.acc = w
        /\ u.prev = s.prev /\ u.stack = s.stack /\ u.mem = s.mem /\ u.calls = s.calls
    BY WithAccIsState DEF IsWithAcc
  <1>2. IsUnindexed(i)
    BY DEF OpReadsAccum, IsUnindexed, AccessOps
  <1>3. i.op \notin ReadingOps
    BY DEF OpReadsAccum
  <1>4. \A c : Fetch(u, c) = Fetch(s, c)
    <2> QED
      BY <1>1, SameMemory
  <1>5. ASSUME Effect(u, i) = Effect(s, i), IsState(Effect(s, i))
        PROVE  SameBut(i, u, s)
    <2>1. Effect(s, i).acc \in Int
      BY <1>5 DEF IsState
    <2>2. [Effect(s, i) EXCEPT !.acc = Effect(s, i).acc] = Effect(s, i)
      BY <1>5 DEF IsState
    <2> QED
      BY <1>5, <2>1, <2>2 DEF SameBut
  <1>6. CASE OnlySets(i)
    <2>1. \A v : SetAcc(u, v) = SetAcc(s, v)
      BY DEF SetAcc, IsState, IsWithAcc
    <2>2. IsState(Effect(s, i))
      BY <1>2, <1>6, SetEffectIsState
    <2>3. Effect(u, i) = Effect(s, i)
      <3> DEFINE v == SetValue(s, i)
                 v2 == SetValue(u, i)
      <3>1. /\ Effect(s, i) = SetAcc(s, v) /\ Effect(u, i) = SetAcc(u, v2)
            /\ Effect(s, i).acc = v /\ Effect(u, i).acc = v2
        BY <1>1, <1>2, <1>6, SetEffect, SetEffectIsState
      <3>2. v2 = v
        <4>1. CASE i.op \in {"loadi", "pToa", "load"}
          <5> QED
            BY <1>4, <4>1 DEF SetValue
        <4>2. CASE i.op = "class"
          <5>1. Effect(s, i) = SetAcc(s, 1000 + i.arg) /\ Effect(u, i) = SetAcc(u, 1000 + i.arg)
            BY <4>2, SMT
            DEF Effect, SendOps, UnaryOps, BinaryOps, CallOps, ArithmeticOps,
         CompareOps
          <5> QED
            BY <2>1, <3>1, <5>1
        <4>3. CASE i.op = "lea"
          <5>1. /\ Effect(s, i) = SetAcc(s, 3000 + CellOf(s, i)[2])
                /\ Effect(u, i) = SetAcc(u, 3000 + CellOf(u, i)[2])
            BY <4>3, SMT
            DEF Effect, SendOps, UnaryOps, BinaryOps, CallOps, ArithmeticOps,
         CompareOps
          <5>2. CellOf(u, i) = CellOf(s, i)
            BY <1>2, <4>3, PlainCell
          <5> QED
            BY <2>1, <3>1, <5>1, <5>2
        <4>4. CASE i.op = "selfID"
          <5>1. Effect(s, i) = SetAcc(s, Self) /\ Effect(u, i) = SetAcc(u, Self)
            BY <4>4, SMT
            DEF Effect, SendOps, UnaryOps, BinaryOps, CallOps, ArithmeticOps,
         CompareOps
          <5> QED
            BY <2>1, <3>1, <5>1
        <4> QED
          BY <1>3, <1>6, <4>1, <4>2, <4>3, <4>4 DEF OnlySets, SetOps, ReadingOps
      <3> HIDE DEF v, v2
      <3> QED
        BY <2>1, <3>1, <3>2
    <2> QED
      BY <1>5, <2>2, <2>3
  <1>7. CASE OnlyPushes(i)
    <2>1. /\ PushValue(s, i) \in Int
          /\ Effect(s, i) = Push(s, PushValue(s, i))
          /\ Effect(u, i) = Push(u, PushValue(u, i))
      BY <1>1, <1>2, <1>7, PushEffect
    <2>2. PushValue(u, i) = PushValue(s, i)
      <3>1. i.op \in {"pushi", "pprev", "dup", "pTos", "load"}
        BY <1>3, <1>7 DEF OnlyPushes, PushOps, ReadingOps
      <3>2. Top(u) = Top(s)
        BY <1>1 DEF Top
      <3> QED
        BY <1>1, <1>4, <3>1, <3>2 DEF PushValue
    <2>3. \A v : Push(u, v) = [Push(s, v) EXCEPT !.acc = w]
      BY DEF Push, IsState, IsWithAcc
    <2>4. ~OpCanModifyAccum(i)
      BY <1>7, SMT
      DEF OnlyPushes, PushOps, OpCanModifyAccum, AccessOps, SendOps, UnaryOps, BinaryOps, CallOps, ArithmeticOps,
         CompareOps
    <2> QED
      BY <2>1, <2>2, <2>3, <2>4 DEF SameBut
  <1>8. CASE i.op \in IdleOps
    <2>1. Effect(u, i) = u /\ Effect(s, i) = s
      BY <1>8, IdleEffect
    <2>2. ~OpCanModifyAccum(i)
      BY <1>8, SMT
      DEF IdleOps, OpCanModifyAccum, AccessOps, SendOps, UnaryOps, BinaryOps, CallOps, ArithmeticOps,
         CompareOps
    <2> QED
      BY <2>1, <2>2 DEF SameBut, IsWithAcc
  <1>9. CASE i.op = "toss"
    <2>1. Effect(u, i) = Lower(u, 1) /\ Effect(s, i) = Lower(s, 1)
      BY <1>9, TossEffect
    <2>2. ~OpCanModifyAccum(i)
      BY <1>9, SMT
      DEF OpCanModifyAccum, AccessOps, SendOps, UnaryOps, BinaryOps, CallOps, ArithmeticOps,
         CompareOps
    <2>3. Lower(u, 1) = [Lower(s, 1) EXCEPT !.acc = w]
      BY DEF Lower, Drop, IsState, IsWithAcc
    <2> QED
      BY <2>1, <2>2, <2>3 DEF SameBut
  <1>10. CASE i.op \in CountOps
    <2> DEFINE d == IF i.op \in {"inc", "ipToa"} THEN 1 ELSE -1
    <2>1. /\ Effect(s, i) = SetAcc(Put(s, Counted(i), Fetch(s, Counted(i)) + d),
                                   Fetch(s, Counted(i)) + d)
          /\ Effect(u, i) = SetAcc(Put(u, Counted(i), Fetch(u, Counted(i)) + d),
                                   Fetch(u, Counted(i)) + d)
      BY <1>1, <1>2, <1>10, CountEffect
    <2>2. ASSUME NEW c, NEW v \in Int
          PROVE  SetAcc(Put(u, c, v), v) = SetAcc(Put(s, c, v), v)
      <3> DEFINE m == [e \in DOMAIN s.mem \cup {c} |-> IF e = c THEN v ELSE s.mem[e]]
      <3>1. Put(s, c, v) = [s EXCEPT !.mem = m]
        BY DEF Put
      <3>2. Put(u, c, v) = [u EXCEPT !.mem = m]
        <4> QED
          BY <1>1 DEF Put
      <3> HIDE DEF m
      <3> QED
        BY <3>1, <3>2 DEF SetAcc, IsState, IsWithAcc
    <2>3. Fetch(s, Counted(i)) + d \in Int
      BY FetchIsInt
    <2>4. Effect(u, i) = Effect(s, i)
      <3> HIDE DEF d
      <3> QED
        BY <1>4, <2>1, <2>2, <2>3
    <2>5. IsState(Effect(s, i))
      <3>1. i.op \notin BranchOps \cup {"ret"}
        BY <1>10 DEF CountOps, BranchOps
      <3> QED
        BY <1>2, <3>1, EffectIsState
    <2> QED
      BY <1>5, <2>4, <2>5
  <1>11. CASE i.op = "store"
    <2>1. i.stack /\ ~i.index
      BY <1>11 DEF OpReadsAccum, AccessOps
    <2>2. /\ Effect(s, i) = Put(Lower(s, 1), CellOf(s, i), Top(s))
          /\ Effect(u, i) = Put(Lower(u, 1), CellOf(u, i), Top(u))
      BY <1>11, <2>1, SMT
      DEF Effect, Lower, SendOps, UnaryOps, BinaryOps, CallOps, ArithmeticOps,
         CompareOps
    <2>3. CellOf(u, i) = CellOf(s, i) /\ Top(u) = Top(s)
      <3>1. CellOf(u, i) = CellOf(s, i)
        BY <1>2, <1>11, PlainCell DEF AccessOps
      <3> QED
        BY <1>1, <3>1 DEF Top
    <2>4. ASSUME NEW c, NEW v
          PROVE  Put(Lower(u, 1), c, v) = [Put(Lower(s, 1), c, v) EXCEPT !.acc = w]
      <3> DEFINE m == [e \in DOMAIN s.mem \cup {c} |-> IF e = c THEN v ELSE s.mem[e]]
                 stk == SubSeq(s.stack, 1, Len(s.stack) - 1)
      <3>1. Lower(s, 1) = [s EXCEPT !.stack = stk] /\ Lower(u, 1) = [u EXCEPT !.stack = stk]
        BY DEF Lower, Drop, IsState, IsWithAcc
      <3>2. Lower(s, 1).mem = s.mem /\ Lower(u, 1).mem = s.mem
        <4> HIDE DEF stk
        <4>1. Lower(s, 1).mem = s.mem
          BY <3>1 DEF IsState
        <4>2. IsState(u) /\ u.mem = s.mem
          BY <1>1
        <4>3. Lower(u, 1).mem = u.mem
          BY <3>1, <4>2 DEF IsState
        <4> QED
          BY <4>1, <4>2, <4>3
      <3>3. /\ Put(Lower(s, 1), c, v) = [Lower(s, 1) EXCEPT !.mem = m]
            /\ Put(Lower(u, 1), c, v) = [Lower(u, 1) EXCEPT !.mem = m]
        <4> HIDE DEF stk
        <4> QED
          BY <3>2 DEF Put
      <3>4. /\ Put(Lower(s, 1), c, v) = [s EXCEPT !.stack = stk, !.mem = m]
            /\ Put(Lower(u, 1), c, v) = [u EXCEPT !.stack = stk, !.mem = m]
        <4> HIDE DEF m, stk
        <4> QED
          BY <1>1, <3>1, <3>3 DEF IsState
      <3> HIDE DEF m, stk
      <3> QED
        BY <3>4 DEF IsState, IsWithAcc
    <2>5. ~OpCanModifyAccum(i)
      BY <1>11, SMT
      DEF OpCanModifyAccum, AccessOps, SendOps, UnaryOps, BinaryOps, CallOps, ArithmeticOps,
         CompareOps
    <2> QED
      BY <2>2, <2>3, <2>4, <2>5 DEF SameBut
  <1>12. CASE i.op \in CallOps \cup SendOps
    <2>1. i.arg >= 0 /\ i.op # "send"
      BY <1>3, <1>12 DEF IsCounted, ReadingOps
    <2> DEFINE r == IF i.op \in CallOps THEN 0 ELSE Self
    <2>2. Effect(s, i) = Invoke(s, r, Takes(i)) /\ Effect(u, i) = Invoke(u, r, Takes(i))
      BY <1>1, <1>12, <2>1, CallEffect
    <2>3. Invoke(u, r, Takes(i)) = Invoke(s, r, Takes(i))
      <3> DEFINE n == Takes(i)
                 stk == Drop(s, n)
                 a == 40 + Len(s.calls)
                 m == [c \in DOMAIN s.mem |-> s.mem[c] + 1]
                 cls == Append(s.calls, <<r, SubSeq(s.stack, Len(s.stack) - n + 1, Len(s.stack))>>)
      <3>1. Invoke(s, r, n) = [s EXCEPT !.stack = stk, !.acc = a, !.mem = m, !.calls = cls]
        BY DEF Invoke
      <3>2. Invoke(u, r, n) = [u EXCEPT !.stack = stk, !.acc = a, !.mem = m, !.calls = cls]
        <4>1. Drop(u, n) = stk
          BY <1>1 DEF Drop
        <4> HIDE DEF n, r
        <4> QED
          BY <1>1, <4>1 DEF Invoke
      <3> HIDE DEF stk, a, m, cls, n, r
      <3>3. [u EXCEPT !.stack = stk, !.acc = a, !.mem = m, !.calls = cls]
              = [s EXCEPT !.stack = stk, !.acc = a, !.mem = m, !.calls = cls]
        BY DEF IsState, IsWithAcc
      <3> QED
        BY <3>1, <3>2, <3>3 DEF n
    <2>4. IsState(Effect(s, i))
      BY <1>12, <2>1, CallEffect
    <2> HIDE DEF r
    <2> QED
      BY <1>5, <2>2, <2>3, <2>4
  <1> QED
    <2>1. i.op \in Ops
      BY DEF Instruction
    <2>2. \/ i.op \in {"load", "store", "inc", "dec"}
          \/ i.op \in {"pToa", "aTop", "pTos", "sTop", "ipToa", "dpToa", "ipTos", "dpTos"}
          \/ i.op \in UnaryOps \/ i.op \in BinaryOps \/ i.op \in BranchOps
          \/ i.op \in CallOps \cup SendOps
          \/ i.op \in {"label", "loadi", "push", "pushi", "push0", "push1", "push2",
                       "pushSelf", "toss", "dup", "link", "class", "rest", "lea", "ret",
                       "selfID", "pprev", "lofsa", "lofss"}
      BY <2>1 DEF Ops, AccessOps, PropOps
    <2>3. \/ OnlySets(i) \/ OnlyPushes(i) \/ i.op \in IdleOps \/ i.op = "toss"
          \/ i.op \in CountOps \/ i.op = "store"
          \/ i.op \in CallOps \cup SendOps
      BY <1>3, <2>2 DEF OnlySets, SetOps, OnlyPushes, PushOps, IdleOps, CountOps, ReadingOps
    <2> QED
      BY <1>6, <1>7, <1>8, <1>9, <1>10, <1>11, <1>12, <2>3

(* The instructions n..j do not read the accumulator, the last sets it.    *)
IsUnreadUntil(code, n, j) ==
  /\ n \in 1..Len(code) /\ j \in n..Len(code)
  /\ \A k \in n..j : ~OpReadsAccum(code[k])
  /\ OpCanModifyAccum(code[j])

(* The two executions: the same, or with other accumulators up to j.       *)
InStep(code, n, j, x, y) ==
  \/ x = y
  \/ x.status = "fault"
  \/ /\ IsState(x) /\ x.status = "running" /\ x.pc \in n..j
     /\ \E w \in Int : IsWithAcc(y, x, w)

LEMMA StepsInStep ==
  ASSUME NEW code, IsProc(code), NEW n, NEW j, IsUnreadUntil(code, n, j),
         NEW x, NEW y, InStep(code, n, j, x, y)
  PROVE  InStep(code, n, j, Step(code, x), Step(code, y))
  <1>1. CASE x = y
    BY <1>1 DEF InStep
  <1>2. CASE x.status = "fault"
    <2>1. Step(code, x) = x
      BY <1>2 DEF Step
    <2> QED
      BY <1>2, <2>1 DEF InStep
  <1>3. ASSUME IsState(x), x.status = "running", x.pc \in n..j,
               NEW w \in Int, IsWithAcc(y, x, w)
        PROVE  InStep(code, n, j, Step(code, x), Step(code, y))
    <2> DEFINE i == code[x.pc]
    <2>1. /\ IsState(y) /\ y.stack = x.stack /\ y.pc = x.pc /\ y.status = x.status
      BY <1>3, WithAccIsState DEF IsWithAcc
    <2>2. /\ x.pc \in 1..Len(code) /\ i \in Instruction /\ IsCounted(i)
          /\ ~OpReadsAccum(i) /\ IsUnindexed(i)
      <3>1. Len(code) \in Nat /\ x.pc \in 1..Len(code)
        BY <1>3 DEF IsProc, IsUnreadUntil
      <3>2. i \in Instruction /\ ~OpReadsAccum(i)
        BY <1>3, <3>1 DEF IsProc, IsUnreadUntil
      <3>3. IsCounted(i)
        BY <3>1 DEF IsProc, IsCounted
      <3> QED
        BY <3>1, <3>2, <3>3 DEF OpReadsAccum, IsUnindexed, AccessOps
    <2>3. i.op \notin BranchOps \cup {"ret"}
      BY <2>2 DEF OpReadsAccum, ReadingOps, BranchOps
    <2>4. Takes(i) \in Int /\ Len(x.stack) \in Nat
      <3>1. Takes(i) \in Int
        BY <2>2, SMT
        DEF Takes, Instruction, CallOps, SendOps, BinaryOps, ArithmeticOps, CompareOps
      <3> QED
        BY <1>3, <3>1 DEF IsState
    <2>5. CASE Takes(i) > Len(x.stack)
      <3>1. Step(code, x) = [x EXCEPT !.status = "fault"]
        BY <1>3, <2>5 DEF Step
      <3>2. Step(code, x).status = "fault"
        BY <1>3, <3>1, StoppedIsState
      <3> QED
        BY <3>2 DEF InStep
    <2>6. CASE Takes(i) <= Len(x.stack)
      <3> DEFINE e == Effect(x, i)
                 d == Effect(y, i)
      <3>1. Step(code, x) = [e EXCEPT !.pc = e.pc + 1]
        BY <1>3, <2>2, <2>3, <2>4, <2>6 DEF Step
      <3>2. Step(code, y) = [d EXCEPT !.pc = d.pc + 1]
        <4> HIDE DEF i
        <4>1. code[y.pc] = i
          BY <2>1 DEF i
        <4> QED
          BY <1>3, <2>1, <2>2, <2>3, <2>4, <2>6, <4>1 DEF Step
      <3>3. IsState(e) /\ e.pc = x.pc /\ e.status = "running"
        BY <1>3, <2>2, <2>3, <2>6, EffectIsState
      <3>4. SameBut(i, y, x)
        BY <1>3, <2>2, <2>6, UnreadEffect
      <3> HIDE DEF i, e, d
      <3>5. CASE d = e
        BY <3>1, <3>2, <3>5 DEF InStep
      <3>6. CASE d # e
        <4>1. PICK v \in Int : d = [e EXCEPT !.acc = v]
          BY <3>4 DEF SameBut, d, e
        <4>2. ~OpCanModifyAccum(i)
          BY <3>4, <3>6 DEF SameBut, d, e
        <4>3. x.pc # j
          BY <4>2 DEF IsUnreadUntil, i
        <4>4. e.pc + 1 \in n..j /\ e.pc + 1 \in Int
          BY <1>3, <3>3, <4>3 DEF IsUnreadUntil
        <4> DEFINE z == [e EXCEPT !.pc = e.pc + 1]
        <4>5. IsState(z) /\ z.pc = e.pc + 1 /\ z.status = "running"
          BY <3>3, <4>4, MovedIsState
        <4>6. [d EXCEPT !.pc = d.pc + 1] = [z EXCEPT !.acc = v]
          BY <3>3, <4>1, <4>4 DEF IsState
        <4> HIDE DEF z
        <4>7. Step(code, x) = z /\ Step(code, y) = [z EXCEPT !.acc = v]
          BY <3>1, <3>2, <4>6 DEF z
        <4> QED
          BY <4>4, <4>5, <4>7 DEF InStep, IsWithAcc
      <3> QED
        BY <3>5, <3>6
    <2> QED
      BY <2>4, <2>5, <2>6
  <1> QED
    BY <1>1, <1>2, <1>3 DEF InStep

LEMMA RunOf ==
  ASSUME NEW code, NEW s, s.status = "running", NEW n \in Nat
  PROVE  \E f : IsRun(f, code, s, n) /\ Run(code, s, n) = f[n]
  <1> DEFINE run[k \in 0..n] == IF k = 0 THEN s ELSE Step(code, run[k - 1])
  <1>1. PICK f : IsRun(f, code, s, n)
    BY RunExists
  <1>2. \E g : g = [k \in 0..n |-> IF k = 0 THEN s ELSE Step(code, g[k - 1])]
    BY <1>1 DEF IsRun
  <1>3. run = [k \in 0..n |-> IF k = 0 THEN s ELSE Step(code, run[k - 1])]
    BY <1>2
  <1>4. Run(code, s, n) = run[n]
    BY DEF Run
  <1> HIDE DEF run
  <1>5. IsRun(run, code, s, n)
    BY <1>3 DEF IsRun
  <1> QED
    BY <1>4, <1>5

(* What sets the accumulator unread before it does not matter.             *)
LEMMA UnreadDoesNotMatter ==
  ASSUME NEW code, IsProc(code), NEW s, IsState(s), s.status = "running",
         s.pc \in 1..Len(code), ExecutionClobbersAccum(code, s.pc),
         NEW w \in Int, NEW u, IsWithAcc(u, s, w), NEW fuel \in Nat,
         Run(code, s, fuel).status = "done"
  PROVE  Run(code, s, fuel) = Run(code, u, fuel)
  <1> DEFINE n == s.pc
  <1>1. PICK j \in n..Len(code) : /\ \A k \in n..j : ~OpReadsAccum(code[k])
                                  /\ OpCanModifyAccum(code[j])
    BY DEF ExecutionClobbersAccum
  <1>2. IsUnreadUntil(code, n, j)
    BY <1>1 DEF IsUnreadUntil
  <1>3. u.status = "running"
    BY WithAccIsState DEF IsWithAcc
  <1>4. PICK f : IsRun(f, code, s, fuel) /\ Run(code, s, fuel) = f[fuel]
    BY RunOf
  <1>5. PICK g : IsRun(g, code, u, fuel) /\ Run(code, u, fuel) = g[fuel]
    BY <1>3, RunOf
  <1> DEFINE S == {m \in 0..fuel : InStep(code, n, j, f[m], g[m])}
  <1>6. 0 \in S
    <2>1. f[0] = s /\ g[0] = u
      BY <1>4, <1>5, RunSteps
    <2>2. n \in n..j
      BY <1>1
    <2> QED
      BY <2>1, <2>2 DEF InStep
  <1>7. ASSUME NEW m \in 0..fuel, m < fuel, m \in S
        PROVE  m + 1 \in S
    <2>1. m + 1 \in 1..fuel /\ (m + 1) - 1 = m
      BY <1>7
    <2>2. f[m + 1] = Step(code, f[m]) /\ g[m + 1] = Step(code, g[m])
      BY <1>4, <1>5, <2>1, RunSteps
    <2> QED
      BY <1>2, <1>7, <2>1, <2>2, StepsInStep
  <1>8. 0..fuel \subseteq S
    <2> HIDE DEF S
    <2>1. 0 \in Int /\ fuel \in Int
      OBVIOUS
    <2>2. \A m \in 0..fuel : m < fuel /\ m \in S => m + 1 \in S
      BY <1>7
    <2> QED
      BY <1>6, <2>1, <2>2, IntervalInduction
  <1>9. InStep(code, n, j, f[fuel], g[fuel])
    BY <1>8
  <1> QED
    BY <1>4, <1>5, <1>9 DEF InStep

LEMMA ClobberedIsUnread ==
  ASSUME PassInv
  PROVE  ClobberedMeansUnread
  <1> SUFFICES ASSUME NEW n \in 1..Len(source), ExecutionClobbersAccum(source, n),
                      NEW s \in Starts,
                      Finish(source, [s EXCEPT !.pc = n, !.acc = 0]).status = "done"
               PROVE  Outcome(Finish(source, [s EXCEPT !.pc = n, !.acc = 0]))
                        = Outcome(Finish(source, [s EXCEPT !.pc = n, !.acc = 1]))
    BY DEF ClobberedMeansUnread
  <1> DEFINE x == [s EXCEPT !.pc = n, !.acc = 0]
             y == [s EXCEPT !.pc = n, !.acc = 1]
  <1>1. Fuel \in Nat /\ IsState(s) /\ s.status = "running"
    BY MachineAssumption
  <1>2. IsProc(source)
    BY ProcsAssumption DEF PassInv
  <1>3. IsState(x) /\ x.pc = n /\ x.status = "running"
    <2>1. n \in Int /\ 0 \in Int
      BY <1>2 DEF IsProc
    <2> QED
      BY <1>1, <2>1 DEF IsState
  <1>4. IsWithAcc(y, x, 1)
    BY <1>1 DEF IsState, IsWithAcc
  <1> HIDE DEF x, y
  <1>5. Run(source, x, Fuel).status = "done"
    BY DEF Finish, x
  <1>6. Run(source, x, Fuel) = Run(source, y, Fuel)
    <2>1. 1 \in Int /\ Fuel \in Nat
      BY <1>1
    <2>2. x.pc \in 1..Len(source) /\ ExecutionClobbersAccum(source, x.pc)
      BY <1>3
    <2> QED
      BY <1>2, <1>3, <1>4, <1>5, <2>1, <2>2, UnreadDoesNotMatter
  <1> QED
    BY <1>6 DEF Finish, x, y

-----------------------------------------------------------------------------
(* What the optimizer goes by is so, of every procedure, at every moment   *)
(* of a pass and in whatever state of the interpreter the procedure is     *)
(* started.                                                                *)
THEOREM BeliefsAreTrue == Spec => []BeliefsHold
  <1>1. Spec => []PassInv
    BY PassBegins, PassGoesOn, PTL DEF Spec
  <1>2. PassInv => BeliefsHold
    BY ArrivalsAgree, ClobberedIsUnread DEF BeliefsHold
  <1> QED
    BY <1>1, <1>2, PTL

=============================================================================
