----------------------------- MODULE MCCompiler -----------------------------
(***************************************************************************)
(* Compiler on small expressions of every kind, their code run on the      *)
(* interpreter and compared with what they mean.                           *)
(***************************************************************************)
EXTENDS Compiler

x == Variable("tmp", 0)
y == Variable("tmp", 1)
p == Property(1)
a(index) == Element("tmp", 2, index)

Memory(v, w, q) ==
  (At("tmp", 0) :> v) @@ (At("tmp", 1) :> w) @@ (At("tmp", 2) :> 10)
  @@ (At("tmp", 3) :> 0) @@ (At("prop", 2) :> q)

Memories == {Memory(0, 1, 4), Memory(1, 0, 0), Memory(1, 3, 2)}

-----------------------------------------------------------------------------
(* Expressions that change something, so that the order matters.  The      *)
(* value of Set is never a constant: see MisusedAccumulator.               *)
Set(place, v) == Assign("none", place, v)

Effects ==
  {Set(x, Read(y)), IncDec("inc", p), IncDec("dec", a(Read(x))),
   Call("callk", <<Read(x)>>, NoRest)}
Tests ==
  {Compare("lt", <<Read(x), IncDec("inc", p)>>), And(<<Read(p), IncDec("inc", x)>>),
   If(Read(x), IncDec("dec", x), NoExpr)}
Few == {Const(3), Read(x)} \cup Effects
Many == Few \cup Tests

Places == {x, p, a(Read(x)), a(IncDec("dec", x))}

Assignments(operands) ==
  {Assign(op, place, v) : op \in {"none", "sub"}, place \in Places,
                          v \in operands \ {Const(3)}}
  \cup {List(<<Set(place, Const(3)), v>>) : place \in Places, v \in operands}
  \cup {IncDec(op, place) : op \in {"inc", "dec"}, place \in Places}
  \cup {Read(place) : place \in Places}
  \cup {AddrOf(place) : place \in Places \ {p}}

Operations(operands) ==
  {Unary(op, e) : op \in {"not", "neg"}, e \in operands}
  \cup {Multi("sub", <<d, e, f>>) : d, e, f \in operands}
  \cup {Compare("lt", <<d, e, f>>) : d, e, f \in operands}
  \cup {And(<<d, e, f>>) : d, e, f \in operands}
  \cup {Or(<<d, e, f>>) : d, e, f \in operands}
  \cup {List(<<d, Call("callk", <<e, f>>, NoRest)>>) : d, e, f \in operands}

Sends(operands) ==
  {SendTo(target, clauses) :
     target \in {SelfRef, Read(x), IncDec("inc", x)},
     clauses \in {<<Clause(s, <<d>>), Clause(Const(9), args)>> :
                    s \in {Const(8), Read(x)}, d \in operands,
                    args \in {<<>>, <<IncDec("inc", x), Const(3)>>}}}

Conditionals(operands) ==
  {If(c, d, e) : c, d \in operands, e \in operands \cup {NoExpr}}
  \cup {Cond(<<Branch(c, d), Branch(Read(y), IncDec("inc", y))>>, e) :
          c, d \in operands, e \in {NoExpr, Const(3), IncDec("inc", x)}}
  \cup {Switch(c, <<Branch(1, d),
                    Branch(3, Switch(Read(x), <<Branch(1, Const(7))>>, NoExpr))>>, e) :
          c, d \in operands, e \in {NoExpr, IncDec("inc", x)}}

(* Loops count y down, and may be left or taken up again on the way.       *)
CountDown == IncDec("dec", y)
Exits ==
  {Break(NoExpr, 0), Break(Read(x), 0), Continue(NoExpr, 0),
   Continue(Read(x), 0), Return(NoExpr), Return(Read(y)), IncDec("inc", x)}

Bodies ==
  Exits \cup {If(c, e, IncDec("inc", x)) : c \in {Read(x), Read(y)}, e \in Exits}
        \cup {List(<<e, IncDec("inc", p)>>) : e \in Exits}

Loops(body) ==
  {For(Set(x, Const(0)), CountDown, IncDec("inc", x), body),
   For(List(<<>>), And(<<CountDown, Read(x)>>), Call("callk", <<>>, NoRest), body),
   While(Compare("gt", <<CountDown, Const(-3)>>), body),
   While(NoExpr, List(<<Break(Compare("lt", <<CountDown, Const(0)>>), 0), body>>))}

Repeats ==
  {While(NoExpr, List(<<>>))}
  \cup UNION {Loops(body) : body \in Bodies}
  \cup UNION {Loops(List(<<inner, e>>)) :
                inner \in UNION {Loops(f) : f \in {Break(Read(x), 0), Continue(NoExpr, 0), Return(Read(y))}},
                e \in {Break(NoExpr, 0), Continue(Read(x), 0)}}

(* Assignments whose value is used.                                        *)
ConstantAssignments ==
  {Set(place, e) : place \in Places, e \in {Const(3), SelfRef, Read(p)}}
  \cup {Set(y, Set(x, e)) : e \in {Const(3), SelfRef, Read(p)}}

MCPlainExprs ==
  Assignments(Many) \cup ConstantAssignments \cup Operations(Many) \cup Sends(Many)
  \cup Conditionals(Many) \cup Repeats

MCOptimizedExprs ==
  Assignments(Many) \cup Operations(Many) \cup Sends(Few) \cup Conditionals(Many)
  \cup Repeats
-----------------------------------------------------------------------------
(* An expression that is not compiled as it should be: (= y (= x 7))       *)
MisusedAccumulator == {Set(y, Set(x, Const(7)))}

-----------------------------------------------------------------------------
(* What the code of an expression does, and what the expression means.     *)
Stretch == 60
Stretches == 6

Finish(code, s) ==
  FoldLeft(LAMBDA t, n : Run(code, t, Stretch), s, [n \in 1..Stretches |-> n])

CodeOutcome(code, mem) ==
  LET end == Finish(code, Start(5, <<>>, mem))
  IN  [val |-> end.acc, mem |-> end.mem, calls |-> end.calls, ended |-> end.status = "done"]

Meaning(mem) ==
  LET w == Eval(expr, World(5, mem), 0)
  IN  [val |-> w.val, mem |-> w.mem, calls |-> w.calls, ended |-> w.exit # "endless"]

(* The code of every expression does what the expression means: it leaves  *)
(* the value in the accumulator, acts on the same variables in the same    *)
(* order, and makes the same calls with the same arguments.                *)
CompiledMeaning ==
  phase = "done" =>
    \A mem \in Memories :
      Meaning(mem).ended => CodeOutcome(list, mem) = Meaning(mem)

(* An instruction finds the same number of words on the stack each time it *)
(* is reached, by whatever way, never less than it takes, and the return   *)
(* at the end of the procedure finds none.                                 *)
StackIsBalanced ==
  phase = "done" =>
    \A mem \in Memories :
      LET walk[k \in 0..Stretch] ==
            IF k = 0 THEN [at |-> Start(5, <<>>, mem), depths |-> {<<1, 0>>}]
            ELSE LET before == walk[k - 1]
                     after == Step(list, before.at)
                 IN  [at |-> after,
                      depths |-> before.depths \cup {<<after.pc, Len(after.stack)>>}]
          depths == walk[Stretch].depths
      IN  /\ walk[Stretch].at.status # "fault"
          /\ \A d, e \in depths : d[1] = e[1] => d[2] = e[2]
          /\ \A d \in depths : d[1] = Len(list) => d[2] = 0

=============================================================================
