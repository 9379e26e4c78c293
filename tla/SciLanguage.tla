---------------------------- MODULE SciLanguage ----------------------------
(***************************************************************************)
(* What an SCI expression means: the abstract specification of the code    *)
(* ExprBuilder makes of it.  It knows neither instructions nor an          *)
(* accumulator, a stack or labels: every expression has a value and acts   *)
(* on the variables, the properties and others.                            *)
(*                                                                         *)
(* A construct that evaluates nothing, such as an empty list or a loop     *)
(* that is left, has the value last computed.                              *)
(***************************************************************************)
EXTENDS ExprBuilder

(* A state: the value last computed, the memory, the calls made, and what  *)
(* is under way: nothing, a return, or an exit from so many loops.         *)
World(val, mem) == [val |-> val, mem |-> mem, calls |-> <<>>, exit |-> "none",
                    level |-> 0]

Goes(w) == w.exit = "none"
Valued(w, v) == [w EXCEPT !.val = v]
Holds(w, cell) == IF cell \in DOMAIN w.mem THEN w.mem[cell] ELSE 0
Assigned(w, cell, v) ==
  [w EXCEPT !.val = v, !.mem = (cell :> v) @@ @]

(* A call: whoever is called may change every variable there is.           *)
Called(w, receiver, words) ==
  [w EXCEPT !.val = 40 + Len(w.calls),
            !.mem = [c \in DOMAIN @ |-> @[c] + 1],
            !.calls = Append(@, <<receiver, words>>)]

CellAt(place, offset) ==
  At(place.sort, IF place.sort = "prop" THEN place.addr * 2
                 ELSE place.addr + offset)

(* The rounds a loop may make before it counts as endless.                 *)
Rounds == 4

RECURSIVE Eval(_, _, _), EvalLoop(_, _, _, _)

(* The cell of a place: its index is evaluated, and is a value computed.   *)
EvalPlace(place, w, loops) ==
  IF place.index = NoExpr THEN [world |-> w, cell |-> CellAt(place, 0)]
  ELSE LET after == Eval(place.index, w, loops)
       IN  [world |-> after, cell |-> CellAt(place, after.val)]

EvalRead(place, w, loops) ==
  LET at == EvalPlace(place, w, loops)
  IN  IF Goes(at.world) THEN Valued(at.world, Holds(at.world, at.cell))
      ELSE at.world

(* The expressions one after the other, and the values they have.          *)
EvalAll(exprs, w, loops) ==
  FoldLeft(LAMBDA r, e :
             IF ~Goes(r.world) THEN r
             ELSE LET after == Eval(e, r.world, loops)
                  IN  [world |-> after, values |-> Append(r.values, after.val)],
           [world |-> w, values |-> <<>>], exprs)

(* Operators of any number of operands work from left to right.            *)
EvalMulti(e, w, loops) ==
  LET all == EvalAll(e.args, w, loops)
  IN  IF Goes(all.world)
      THEN Valued(all.world, FoldLeft(LAMBDA a, b : Compute(e.op, a, b),
                                      all.values[1], Tail(all.values)))
      ELSE all.world

(* A comparison holds if it holds of each two neighbours.  The operands    *)
(* after the first two that fail it are not evaluated.                     *)
EvalCompare(e, w, loops) ==
  LET first == Eval(e.args[1], w, loops)
      next(r, arg) ==
        IF ~Goes(r.world) \/ r.over THEN r
        ELSE LET after == Eval(arg, r.world, loops)
                 holds == Compute(e.op, r.left, after.val)
             IN  IF ~Goes(after) THEN [r EXCEPT !.world = after]
                 ELSE [world |-> Valued(after, holds), left |-> after.val,
                       over |-> holds = 0]
  IN  FoldLeft(next, [world |-> first, left |-> first.val, over |-> FALSE],
               Tail(e.args)).world

(* The operands until one is the value that decides.                       *)
EvalUntil(Decides(_), args, w, loops) ==
  FoldLeft(LAMBDA r, arg :
             IF ~Goes(r.world) \/ r.over THEN r
             ELSE LET after == Eval(arg, r.world, loops)
                  IN  [world |-> after, over |-> Decides(after.val)],
           [world |-> w, over |-> FALSE], args).world

EvalCall(e, w, loops) ==
  LET all == EvalAll(e.args, w, loops)
  IN  IF Goes(all.world)
      THEN Called(all.world, 0, <<Len(e.args)>> \o all.values)
      ELSE all.world

(* The messages, each its selector, the number of its arguments and those, *)
(* and then the receiver.                                                  *)
EvalSend(e, w, loops) ==
  LET clause(r, c) ==
        LET all == EvalAll(<<c.selector>> \o c.args, r.world, loops)
        IN  IF ~Goes(r.world) THEN r
            ELSE [world |-> all.world,
                  values |-> r.values
                             \o (IF Goes(all.world)
                                 THEN <<Head(all.values), Len(c.args)>>
                                      \o Tail(all.values)
                                 ELSE <<>>)]
      sent == FoldLeft(clause, [world |-> w, values |-> <<>>], e.clauses)
      target == IF e.target.kind = "self" THEN Valued(sent.world, Self)
                ELSE Eval(e.target, sent.world, loops)
  IN  IF ~Goes(sent.world) THEN sent.world
      ELSE IF ~Goes(target) THEN target
      ELSE Called(target, target.val, sent.values)

(* A plain assignment evaluates the value, then the index; a compound one  *)
(* reads the place first, and evaluates its index twice.  An assignment    *)
(* has the value assigned, but one to an element has no value one can use. *)
EvalAssign(e, w, loops) ==
  LET old == IF e.op = "none" THEN w ELSE EvalRead(e.place, w, loops)
      right == IF Goes(old) THEN Eval(e.value, old, loops) ELSE old
      value == IF e.op = "none" THEN right.val
               ELSE Compute(e.op, old.val, right.val)
      at == EvalPlace(e.place, right, loops)
  IN  IF ~Goes(right) THEN right
      ELSE IF ~Goes(at.world) THEN at.world
      ELSE IF e.place.index = NoExpr THEN Assigned(at.world, at.cell, value)
      ELSE Valued(Assigned(at.world, at.cell, value), Unspecified)

EvalIncDec(e, w, loops) ==
  LET at == EvalPlace(e.place, w, loops)
  IN  IF ~Goes(at.world) THEN at.world
      ELSE Assigned(at.world, at.cell,
                    Holds(at.world, at.cell) + (IF e.op = "inc" THEN 1 ELSE -1))

(* An exit from the innermost loop, or from as many as a number says, but  *)
(* never more than there are.                                              *)
EvalExit(e, w, loops) ==
  LET cond == IF e.cond = NoExpr THEN Valued(w, 1) ELSE Eval(e.cond, w, loops)
      number == IF e.level = 0 THEN 1 ELSE e.level
  IN  IF ~Goes(cond) THEN cond
      ELSE IF cond.val = 0 THEN cond
      ELSE [cond EXCEPT !.exit = e.kind, !.level = Min({number, loops}) - 1,
                        !.val = IF e.cond = NoExpr THEN w.val ELSE @]

EvalIf(e, w, loops) ==
  LET cond == Eval(e.cond, w, loops)
  IN  IF ~Goes(cond) THEN cond
      ELSE IF cond.val # 0 THEN Eval(e.then, cond, loops)
      ELSE IF e.else # NoExpr THEN Eval(e.else, cond, loops)
      ELSE cond

(* The first branch whose test holds, or else the else branch.             *)
EvalBranches(Test(_, _), branches, else, w, loops) ==
  LET try(r, b) ==
        IF ~Goes(r.world) \/ r.over THEN r
        ELSE LET test == Test(b, r.world)
             IN  IF Goes(test) /\ test.val # 0
                 THEN [world |-> Eval(b.body, test, loops), over |-> TRUE]
                 ELSE [world |-> test, over |-> FALSE]
      end == FoldLeft(try, [world |-> w, over |-> FALSE], branches)
  IN  IF Goes(end.world) /\ ~end.over /\ else # NoExpr
      THEN Eval(else, end.world, loops)
      ELSE end.world

EvalSwitch(e, w, loops) ==
  LET value == Eval(e.value, w, loops)
  IN  IF ~Goes(value) THEN value
      ELSE EvalBranches(LAMBDA b, v : Valued(v, Truth(b.cond = value.val)),
                        e.cases, e.else, value, loops)

(* After the body of a loop, or its update: is there another round?  An    *)
(* exit from further out is passed on, one level less.                     *)
Outwards(w) == [w EXCEPT !.level = @ - 1]
Arrived(w) == [w EXCEPT !.exit = "none"]

(* A round of a loop: condition, body, update.  The condition and the      *)
(* update of a for are outside of it, the condition of a while is inside.  *)
EvalLoop(e, w, loops, rounds) ==
  LET outer == e.kind = "for"
      cond == IF e.cond = NoExpr THEN Valued(w, 1)
              ELSE Eval(e.cond, w, IF outer THEN loops ELSE loops + 1)
      start == IF e.cond = NoExpr THEN w ELSE cond
      body == Eval(e.body, start, loops + 1)
      left == IF ~outer /\ ~Goes(cond) THEN cond ELSE body
      update(v) == IF outer THEN Eval(e.update, v, loops) ELSE v
      again(v) == IF Goes(v) THEN EvalLoop(e, v, loops, rounds - 1) ELSE v
  IN  IF rounds = 0 THEN [w EXCEPT !.exit = "endless"]
      ELSE IF outer /\ ~Goes(cond) THEN cond
      ELSE IF Goes(cond) /\ cond.val = 0 THEN cond
      ELSE CASE Goes(left) -> again(update(left))
             [] left.exit \in {"break", "continue"} /\ left.level > 0 ->
                  Outwards(left)
             [] left.exit = "break" -> Arrived(left)
             [] left.exit = "continue" -> again(update(Arrived(left)))
             [] OTHER -> left

(* The world after an expression inside so many loops.                     *)
Eval(e, w, loops) ==
  CASE e.kind = "const" -> Valued(w, e.val)
    [] e.kind = "self" -> Valued(w, Self)
    [] e.kind = "read" -> EvalRead(e.place, w, loops)
    [] e.kind = "addrOf" ->
         LET at == EvalPlace(e.place, w, loops)
         IN  IF Goes(at.world) THEN Valued(at.world, 3000 + at.cell[2])
             ELSE at.world
    [] e.kind = "incDec" -> EvalIncDec(e, w, loops)
    [] e.kind = "assign" -> EvalAssign(e, w, loops)
    [] e.kind = "unary" ->
         LET arg == Eval(e.args[1], w, loops)
         IN  IF Goes(arg)
             THEN Valued(arg, IF e.op = "not" THEN Truth(arg.val = 0)
                              ELSE -arg.val)
             ELSE arg
    [] e.kind = "multi" -> EvalMulti(e, w, loops)
    [] e.kind = "compare" -> EvalCompare(e, w, loops)
    [] e.kind = "and" -> EvalUntil(LAMBDA v : v = 0, e.args, w, loops)
    [] e.kind = "or" -> EvalUntil(LAMBDA v : v # 0, e.args, w, loops)
    [] e.kind = "call" -> EvalCall(e, w, loops)
    [] e.kind = "send" -> EvalSend(e, w, loops)
    [] e.kind = "return" ->
         LET value == IF e.value = NoExpr THEN w ELSE Eval(e.value, w, loops)
         IN  IF Goes(value) THEN [value EXCEPT !.exit = "return"] ELSE value
    [] e.kind \in {"break", "continue"} -> EvalExit(e, w, loops)
    [] e.kind \in {"while", "for"} ->
         LET init == IF e.kind = "for" THEN Eval(e.init, w, loops) ELSE w
         IN  IF Goes(init) THEN EvalLoop(e, init, loops, Rounds) ELSE init
    [] e.kind = "if" -> EvalIf(e, w, loops)
    [] e.kind = "cond" ->
         EvalBranches(LAMBDA b, v : Eval(b.cond, v, loops), e.branches, e.else,
                      w, loops)
    [] e.kind = "switch" -> EvalSwitch(e, w, loops)
    [] e.kind = "list" -> EvalAll(e.exprs, w, loops).world

=============================================================================
