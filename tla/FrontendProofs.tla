--------------------------- MODULE FrontendProofs ---------------------------
(***************************************************************************)
(* Proofs about the frontend, for all texts, names and command lines:      *)
(* whatever directives come in whatever order, no clause within a clause   *)
(* that is skipped is ever taken.                                          *)
(***************************************************************************)
EXTENDS Frontend, SequenceTheorems, Induction, TLAPS

Frames == [producing : BOOLEAN, triggered : BOOLEAN]

(* SkippedStaysSkipped, of any stack.                                      *)
Nested(s) ==
  \A i, j \in DOMAIN s :
    /\ s[i].producing => s[i].triggered
    /\ i < j /\ ~s[i].producing => s[j].triggered /\ ~s[j].producing

(* What a clause needs to be taken: everything around it is.               *)
Open(s) == \A i \in DOMAIN s : i < Len(s) => s[i].producing

(* While a condition is evaluated, its clause is the last one, and it may  *)
(* be taken.                                                               *)
Undecided == conds # <<>> /\ Open(conds) /\ ~Last(conds).triggered

CondShape == DOMAIN cond = {"tok", "seen", "back"} /\ cond.back # "cond"

Inv ==
  /\ conds \in Seq(Frames)
  /\ Nested(conds)
  /\ CondShape
  /\ pc = "cond" => Undecided

-----------------------------------------------------------------------------
(* Lemmas about stacks.                                                    *)

(* The frames below the last one, and the last one.                        *)
LEMMA FrontElements ==
  ASSUME NEW S, NEW s \in Seq(S), s # <<>>
  PROVE  /\ Front(s) \in Seq(S)
         /\ Len(Front(s)) = Len(s) - 1
         /\ \A i \in 1 .. Len(s) - 1 : Front(s)[i] = s[i]
         /\ Len(s) \in Nat \ {0}
         /\ Last(s) = s[Len(s)]
         /\ Last(s) \in S
<1>1. Len(s) \in Nat \ {0}
  BY EmptySeq, LenProperties
<1>2. Front(s) = [i \in 1 .. Len(s) - 1 |-> s[i]]
  <2>1. Front(s) = SubSeq(s, 1, Len(s) - 1)
    BY DEF Front
  <2>2. SubSeq(s, 1, Len(s) - 1) = [i \in 1 .. (1 + (Len(s) - 1) - 1) |-> s[1 + i - 1]]
    BY <1>1, SubSeqProperties
  <2> QED BY <1>1, <2>1, <2>2
<1>3. \A i \in 1 .. Len(s) : s[i] \in S
  BY ElementOfSeq
<1>4. Front(s) \in Seq(S) /\ Len(Front(s)) = Len(s) - 1
  BY <1>1, <1>2, <1>3, IsASeq, LenProperties
<1>5. Last(s) = s[Len(s)] /\ Last(s) \in S
  BY <1>1, <1>3 DEF Last
<1> QED BY <1>1, <1>2, <1>4, <1>5

(* The elements of a stack with one more frame.                            *)
LEMMA AppendElements ==
  ASSUME NEW S, NEW s \in Seq(S), NEW f \in S
  PROVE  /\ Append(s, f) \in Seq(S)
         /\ Append(s, f) # <<>>
         /\ Len(Append(s, f)) = Len(s) + 1
         /\ Len(s) \in Nat
         /\ DOMAIN Append(s, f) = 1 .. Len(s) + 1
         /\ \A i \in 1 .. Len(s) : Append(s, f)[i] = s[i]
         /\ Append(s, f)[Len(s) + 1] = f
         /\ Last(Append(s, f)) = f
BY AppendProperties, LenProperties DEF Last

(* A clause begins above a stack: if it is one that can be taken, all      *)
(* below is.                                                               *)
LEMMA Pushed ==
  ASSUME NEW s \in Seq(Frames), NEW f \in Frames, Nested(s),
         f.producing => f.triggered,
         (f.triggered /\ ~f.producing) \/ (\A i \in DOMAIN s : s[i].producing)
  PROVE  Nested(Append(s, f))
<1> DEFINE t == Append(s, f)
<1> SUFFICES ASSUME NEW i \in DOMAIN t, NEW j \in DOMAIN t
             PROVE  /\ t[i].producing => t[i].triggered
                    /\ i < j /\ ~t[i].producing => t[j].triggered /\ ~t[j].producing
  BY DEF Nested
<1>1. DOMAIN s = 1 .. Len(s) /\ Len(s) \in Nat
  BY LenProperties
<1>2. /\ DOMAIN t = 1 .. Len(s) + 1
      /\ \A k \in 1 .. Len(s) : t[k] = s[k]
      /\ t[Len(s) + 1] = f
  BY AppendElements
<1> HIDE DEF t
<1>3. t[i].producing => t[i].triggered
  <2>1. CASE i \in 1 .. Len(s)
    BY <1>1, <1>2, <2>1 DEF Nested
  <2>2. CASE i = Len(s) + 1
    BY <1>2, <2>2
  <2> QED BY <1>1, <1>2, <2>1, <2>2
<1>4. ASSUME i < j, ~t[i].producing
      PROVE  t[j].triggered /\ ~t[j].producing
  <2>1. i \in 1 .. Len(s) /\ t[i] = s[i]
    BY <1>1, <1>2, <1>4
  <2>2. CASE j \in 1 .. Len(s)
    BY <1>1, <1>2, <1>4, <2>1, <2>2 DEF Nested
  <2>3. CASE j = Len(s) + 1
    BY <1>1, <1>2, <1>4, <2>1, <2>3
  <2> QED BY <1>1, <1>2, <2>2, <2>3
<1> QED BY <1>3, <1>4

(* What is left when the last frame goes.                                  *)
LEMMA Popped ==
  ASSUME NEW s \in Seq(Frames), s # <<>>, Nested(s)
  PROVE  Nested(Front(s))
<1>1. /\ Len(s) \in Nat
      /\ DOMAIN s = 1 .. Len(s)
      /\ DOMAIN Front(s) = 1 .. Len(s) - 1
      /\ \A i \in 1 .. Len(s) - 1 : Front(s)[i] = s[i]
  BY FrontElements, LenProperties
<1> QED BY <1>1 DEF Nested

(* All frames below one that may be taken, or is, are.                     *)
LEMMA BelowTaken ==
  ASSUME NEW s \in Seq(Frames), s # <<>>, Nested(s),
         Last(s).producing \/ ~Last(s).triggered
  PROVE  Open(s) /\ \A i \in DOMAIN Front(s) : Front(s)[i].producing
<1>1. /\ Len(s) \in Nat \ {0}
      /\ DOMAIN s = 1 .. Len(s)
      /\ DOMAIN Front(s) = 1 .. Len(s) - 1
      /\ \A i \in 1 .. Len(s) - 1 : Front(s)[i] = s[i]
      /\ Last(s) = s[Len(s)]
  BY FrontElements, LenProperties
<1>2. \A i \in 1 .. Len(s) : i < Len(s) => s[i].producing
  BY <1>1 DEF Nested
<1> QED BY <1>1, <1>2 DEF Open

(* The clause of the last frame ends and another one begins.               *)
LEMMA Replaced ==
  ASSUME NEW s \in Seq(Frames), s # <<>>, Nested(s), NEW f \in Frames,
         f.producing => f.triggered,
         (~f.producing /\ f.triggered) \/ ~Last(s).triggered
  PROVE  Nested(Append(Front(s), f))
<1>1. Front(s) \in Seq(Frames) /\ Nested(Front(s))
  BY FrontElements, Popped
<1>2. ~Last(s).triggered => \A i \in DOMAIN Front(s) : Front(s)[i].producing
  BY BelowTaken
<1> QED BY <1>1, <1>2, Pushed

-----------------------------------------------------------------------------
(* The steps of the parser.                                                *)

(* The frame that a directive begins with.                                 *)
LEMMA NextFrames ==
  ASSUME Inv, NEW tok, Opens(tok) \/ conds # <<>>
  PROVE  /\ NextFrame(tok) \in Frames
         /\ ~NextFrame(tok).producing
         /\ ~Opens(tok) => NextFrame(tok).triggered = Last(conds).triggered
         /\ Opens(tok) => NextFrame(tok).triggered = ~Producing
<1>1. CASE Opens(tok)
  BY <1>1 DEF NextFrame, NewFrame, Frame, Frames, Producing
<1>2. CASE ~Opens(tok)
  <2>1. Last(conds) \in Frames
    BY <1>2, FrontElements DEF Inv
  <2> QED BY <1>2, <2>1 DEF NextFrame, Frame, Frames
<1> QED BY <1>1, <1>2

(* Where tokens count, every clause is one that was taken.                 *)
LEMMA ProducingEverywhere ==
  ASSUME Inv, Producing
  PROVE  \A i \in DOMAIN conds : conds[i].producing
<1>1. CASE conds = <<>>
  BY <1>1
<1>2. CASE conds # <<>>
  <2>1. Last(conds).producing /\ Open(conds)
    BY <1>2, BelowTaken DEF Producing, Inv
  <2>2. DOMAIN conds = 1 .. Len(conds) /\ Len(conds) \in Nat /\ Last(conds) = conds[Len(conds)]
    BY <1>2, FrontElements, LenProperties DEF Inv
  <2> QED BY <2>1, <2>2 DEF Open
<1> QED BY <1>1, <1>2

(* A directive puts a clause that is skipped, or one that is taken if it   *)
(* may be, in the place of the clause before.                              *)
LEMMA ClauseBegins ==
  ASSUME Inv, NEW tok, Opens(tok) \/ conds # <<>>, NEW f \in Frames,
         \/ f = NextFrame(tok) /\ f.triggered
         \/ (f = NextFrame(tok) \/ f = Taken) /\ ~NextFrame(tok).triggered
  PROVE  /\ WithFrame(tok, f) \in Seq(Frames)
         /\ Nested(WithFrame(tok, f))
         /\ WithFrame(tok, f) # <<>>
         /\ Last(WithFrame(tok, f)) = f
         /\ ~NextFrame(tok).triggered => Open(WithFrame(tok, f))
<1>1. /\ f.producing => f.triggered
      /\ (f.triggered /\ ~f.producing) \/ ~NextFrame(tok).triggered
  BY NextFrames DEF Taken, Frame
<1>2. CASE Opens(tok)
  <2>1. WithFrame(tok, f) = Append(conds, f)
    BY <1>2 DEF WithFrame
  <2>2. ~NextFrame(tok).triggered => \A i \in DOMAIN conds : conds[i].producing
    BY <1>2, NextFrames, ProducingEverywhere DEF Producing
  <2>3. Nested(Append(conds, f))
    BY <1>1, <2>2, Pushed DEF Inv
  <2>4. ~NextFrame(tok).triggered => Open(Append(conds, f))
    BY <2>2, AppendElements, LenProperties DEF Inv, Open
  <2> QED BY <2>1, <2>3, <2>4, AppendElements DEF Inv
<1>3. CASE ~Opens(tok)
  <2>1. WithFrame(tok, f) = Append(Front(conds), f)
    BY <1>3 DEF WithFrame
  <2>2. conds \in Seq(Frames) /\ conds # <<>> /\ Nested(conds) /\ Front(conds) \in Seq(Frames)
    BY <1>3, FrontElements DEF Inv
  <2>3. NextFrame(tok).triggered = Last(conds).triggered
    BY <1>3, NextFrames
  <2>4. Nested(Append(Front(conds), f))
    BY <1>1, <2>2, <2>3, Replaced
  <2>5. ~NextFrame(tok).triggered => \A i \in DOMAIN Front(conds) : Front(conds)[i].producing
    BY <2>2, <2>3, BelowTaken
  <2>6. ~NextFrame(tok).triggered => Open(Append(Front(conds), f))
    BY <2>2, <2>5, AppendElements, LenProperties DEF Open
  <2> QED BY <2>1, <2>2, <2>4, <2>6, AppendElements
<1> QED BY <1>2, <1>3

(* A directive that leaves the parser where it is keeps the invariant.     *)
LEMMA PassOverStep ==
  ASSUME Inv, PassOver PROVE Inv'
<1>1. NextFrame(Next1) \in Frames
  BY NextFrames DEF PassOver
<1>2. conds' \in Seq(Frames) /\ Nested(conds')
  BY <1>1, ClauseBegins DEF PassOver
<1>3. pc # "cond" /\ pc' = pc /\ cond' = cond
  BY DEF PassOver, Reading
<1> QED BY <1>2, <1>3 DEF Inv, CondShape

LEMMA TestDefinitionStep ==
  ASSUME Inv, TestDefinition PROVE Inv'
<1>1. NextFrame(Next1) \in Frames /\ Taken \in Frames
  BY NextFrames DEF TestDefinition, Considered, Taken, Frame, Frames
<1>2. conds' \in Seq(Frames) /\ Nested(conds')
  BY <1>1, ClauseBegins DEF TestDefinition, Considered
<1>3. pc # "cond" /\ pc' = pc /\ cond' = cond
  BY DEF TestDefinition, Considered, Reading
<1> QED BY <1>2, <1>3 DEF Inv, CondShape

LEMMA ElseStep ==
  ASSUME Inv, Else PROVE Inv'
<1>1. Taken \in Frames
  BY DEF Taken, Frame, Frames
<1>2. conds' \in Seq(Frames) /\ Nested(conds')
  BY <1>1, ClauseBegins DEF Else, Considered
<1>3. pc # "cond" /\ pc' = pc /\ cond' = cond
  BY DEF Else, Considered, Reading
<1> QED BY <1>2, <1>3 DEF Inv, CondShape

(* The condition of a clause that may be taken begins.                     *)
LEMMA StartConditionStep ==
  ASSUME Inv, StartCondition PROVE Inv'
<1>1. NextFrame(Next1) \in Frames
  BY NextFrames DEF StartCondition, Considered
<1>2. /\ conds' \in Seq(Frames) /\ Nested(conds') /\ conds' # <<>> /\ Open(conds')
      /\ Last(conds') = NextFrame(Next1) /\ ~NextFrame(Next1).triggered
  BY <1>1, ClauseBegins DEF StartCondition, Considered
<1>3. DOMAIN cond' = {"tok", "seen", "back"} /\ cond'.back # "cond"
  BY DEF StartCondition, Considered, Reading
<1> QED BY <1>2, <1>3 DEF Inv, CondShape, Undecided

(* It holds, does not, or goes on with what a name stands for.             *)
LEMMA EvaluateStep ==
  ASSUME Inv, Evaluate PROVE Inv'
<1>1. pc = "cond" /\ Undecided /\ CondShape /\ conds \in Seq(Frames) /\ Nested(conds)
  BY DEF Evaluate, Inv
<1>2. CASE /\ conds' = conds \/ conds' = Append(Front(conds), Taken)
           /\ pc' = cond.back /\ cond' = NoCond
  <2>1. Taken \in Frames /\ Taken.triggered
    BY DEF Taken, Frame, Frames
  <2>2. Front(conds) \in Seq(Frames)
    BY <1>1, FrontElements DEF Undecided
  <2>3. Append(Front(conds), Taken) \in Seq(Frames)
    BY <2>1, <2>2, AppendElements
  <2>4. Nested(Append(Front(conds), Taken))
    BY <1>1, <2>1, Replaced DEF Undecided
  <2>5. CondShape' /\ pc' # "cond"
    BY <1>1, <1>2 DEF CondShape, NoCond
  <2> QED BY <1>1, <1>2, <2>3, <2>4, <2>5 DEF Inv
<1>3. CASE /\ UNCHANGED <<pc, conds>>
           /\ \E tok, seen : cond' = [cond EXCEPT !.tok = tok, !.seen = seen]
  <2>1. CondShape'
    BY <1>1, <1>3 DEF CondShape
  <2> QED BY <1>1, <1>3, <2>1 DEF Inv, Undecided
<1>4. CASE UNCHANGED <<conds, cond>> /\ (pc' = pc \/ pc' # "cond")
  BY <1>1, <1>4 DEF Inv, CondShape, Undecided
<1> QED BY <1>2, <1>3, <1>4 DEF Evaluate, Fail, Crash, pvars

LEMMA EndifStep ==
  ASSUME Inv, Endif PROVE Inv'
<1>1. conds' \in Seq(Frames) /\ Nested(conds')
  BY FrontElements, Popped DEF Endif, Inv
<1>2. pc # "cond" /\ pc' = pc /\ cond' = cond
  BY DEF Endif, Reading
<1> QED BY <1>1, <1>2 DEF Inv, CondShape

(* Everything else that the parser does leaves the conditions alone.       *)
LEMMA OtherSteps ==
  ASSUME Skip \/ Expand \/ ReadGone \/ BadDirective \/ StrayEndif
         \/ InList \/ ReadPushed \/ StartExpr \/ EndList \/ Close \/ EndOfInput
  PROVE  UNCHANGED <<conds, cond>> /\ (pc' = pc \/ pc' # "cond")
<1>1. CASE Skip \/ Expand \/ ReadGone \/ BadDirective \/ StrayEndif
  BY <1>1 DEF Skip, Expand, ReadGone, BadDirective, StrayEndif, Fail, Crash
<1>2. CASE InList \/ EndList \/ EndOfInput
  BY <1>2 DEF InList, EndList, EndOfInput
<1>3. CASE ReadPushed \/ StartExpr
  BY <1>3 DEF ReadPushed, StartExpr, ParseExpr, Element
<1>4. CASE Close
  <2>1. CASE CloseInner
    BY <2>1 DEF CloseInner
  <2>2. CASE CloseOuter(lists[1])
    <3>1. ASSUME NEW rest, HandleDefine(rest) \/ HandleInclude(rest)
          PROVE  UNCHANGED <<conds, cond>> /\ (pc' = pc \/ pc' # "cond")
      BY <3>1 DEF HandleDefine, HandleInclude, Fail, Crash
    <3> QED BY <2>2, <3>1 DEF CloseOuter
  <2> QED BY <1>4, <2>1, <2>2 DEF Close
<1> QED BY <1>1, <1>2, <1>3, <1>4

(* A step of the parser, by action.                                        *)
LEMMA ParserKeeps ==
  ASSUME Inv, ParseStep PROVE Inv'
<1>1. CASE Directive
  <2>1. CASE BadDirective \/ StrayEndif
    BY <2>1, OtherSteps DEF Inv, CondShape, Undecided
  <2> QED BY <1>1, <2>1, PassOverStep, TestDefinitionStep, ElseStep, StartConditionStep,
             EndifStep DEF Directive
<1>2. CASE Evaluate
  BY <1>2, EvaluateStep
<1>3. CASE Skip \/ Expand \/ ReadGone \/ InList \/ ReadPushed \/ StartExpr \/ EndList
           \/ Close \/ EndOfInput
  BY <1>3, OtherSteps DEF Inv, CondShape, Undecided
<1> QED BY <1>1, <1>2, <1>3 DEF ParseStep

(* A text begins outside of all conditions.                                *)
LEMMA EmptyStack ==
  ASSUME conds = <<>>, cond = NoCond, pc # "cond"
  PROVE  Inv
BY EmptySeq DEF Inv, Nested, CondShape, NoCond

(* A step of the compiler, by stage.                                       *)
LEMMA FrontendKeeps ==
  ASSUME Inv, [Next]_vars PROVE Inv'
<1>1. CASE Parse
  BY <1>1, ParserKeeps DEF Parse
<1>2. CASE conds' = <<>> /\ cond' = NoCond /\ pc' = "expr"
  BY <1>2, EmptySeq DEF Inv, Nested, CondShape, NoCond
<1>3. CASE UNCHANGED pvars
  BY <1>3 DEF pvars, Inv, CondShape, Undecided
<1>4. ReadFiles \/ ParseItems => (conds' = <<>> /\ cond' = NoCond /\ pc' = "expr") \/ UNCHANGED pvars
  BY DEF ReadFiles, ParseItems, StartParse, Stop
<1>5. ParseFails \/ Terminated \/ UNCHANGED vars => UNCHANGED pvars
  BY DEF ParseFails, Terminated, Stop, vars
<1>6. Build => UNCHANGED pvars
  BY DEF Build, BuildEnvironment, BuildCode, OpenHeap, OpenHunk, OpenListing, Assemble,
         Finish, Stop
<1> QED BY <1>1, <1>2, <1>3, <1>4, <1>5, <1>6 DEF Next

(* Whatever the directives are and wherever a text, an included one or a   *)
(* replaced name breaks off: a clause within one that is skipped is never  *)
(* taken, and one that is taken is remembered by its group.                *)
THEOREM NestedConditions == Spec => []SkippedStaysSkipped
<1>1. Init => Inv
  BY EmptyStack DEF Init, ParserInit
<1>2. Inv /\ [Next]_vars => Inv'
  BY FrontendKeeps
<1>3. Inv => SkippedStaysSkipped
  BY DEF Inv, Nested, SkippedStaysSkipped
<1> QED BY <1>1, <1>2, <1>3, PTL DEF Spec

-----------------------------------------------------------------------------
(* What kinds of tokens there are wherever the parser keeps some: a number *)
(* is one of the numbers, however it got there.                            *)
OpenList == [open : {"(", "["}, elements : Seq(Seq(Token))]
Definitions == [Name -> Seq(Token) \cup {None}]

Typed ==
  /\ input \in Seq(Token) /\ pushed \in Seq(Token)
  /\ lists \in Seq(OpenList)
  /\ exprs \in Seq(Seq(Token))
  /\ defines \in Definitions

(* Sequences put one behind the other.                                     *)
LEMMA FlattenTypes ==
  ASSUME NEW T, NEW s \in Seq(Seq(T))
  PROVE  FlattenSeq(s) \in Seq(T)
<1> DEFINE n == Len(s)
           D == [x \in (1 .. n - 1) \X Seq(T) |-> x[2] \o s[x[1] + 1]]
<1>1. n \in Nat /\ \A i \in 1 .. n : s[i] \in Seq(T)
  BY LenProperties, ElementOfSeq
<1>2. CASE n = 0
  BY <1>2, EmptySeq DEF FlattenSeq
<1>3. CASE n # 0
  <2>1. D \in [(1 .. n - 1) \X Seq(T) -> Seq(T)]
    <3> SUFFICES ASSUME NEW x \in (1 .. n - 1) \X Seq(T) PROVE x[2] \o s[x[1] + 1] \in Seq(T)
      OBVIOUS
    <3>1. x[1] \in 1 .. n - 1 /\ x[2] \in Seq(T) /\ s[x[1] + 1] \in Seq(T)
      BY <1>1
    <3> QED BY <3>1, ConcatProperties
  <2>2. \A i \in 1 .. n - 1 : \A v \in Seq(T) : D[<<i, v>>] = v \o s[i + 1]
    OBVIOUS
  <2>3. n - 1 \in Nat /\ s[1] \in Seq(T)
    BY <1>1, <1>3
  <2> HIDE DEF D
  <2>4. PICK f : IsIteration(f, n - 1, Seq(T), s[1], D)
    BY <2>1, <2>3, IterationExists
  <2> DEFINE g == [i \in 1 .. n |-> f[i - 1]]
             flat(h) == [i \in 1 .. n |-> IF i = 1 THEN s[i] ELSE h[i - 1] \o s[i]]
             F == CHOOSE h : h = flat(h)
  <2>5. g = flat(g)
    <3> SUFFICES ASSUME NEW i \in 1 .. n
                 PROVE  g[i] = IF i = 1 THEN s[i] ELSE g[i - 1] \o s[i]
      OBVIOUS
    <3>1. CASE i = 1
      BY <2>4, <3>1 DEF IsIteration
    <3>2. CASE i # 1
      <4>1. /\ i - 1 \in 1 .. n - 1 /\ i - 1 \in 1 .. n /\ i - 1 - 1 \in 0 .. n - 1
            /\ (i - 1) + 1 = i
        BY <1>1, <3>2
      <4>2. f[i - 1] = D[<<i - 1, f[i - 1 - 1]>>] /\ f[i - 1 - 1] \in Seq(T)
        BY <2>4, <4>1 DEF IsIteration
      <4>3. f[i - 1] = f[i - 1 - 1] \o s[i]
        BY <2>2, <4>1, <4>2
      <4> QED BY <3>2, <4>1, <4>3
    <3> QED BY <3>1, <3>2
  <2>6. F = flat(F)
    <3> HIDE DEF g, flat
    <3> QED BY <2>5
  <2> DEFINE S == {i \in 1 .. n : F[i] \in Seq(T)}
  <2>7. \A i \in 1 .. n : F[i] = IF i = 1 THEN s[i] ELSE F[i - 1] \o s[i]
    <3> HIDE DEF F
    <3> QED BY <2>6
  <2> HIDE DEF F
  <2>8. 1 \in S
    BY <1>1, <1>3, <2>7
  <2>9. \A i \in 1 .. n : i < n /\ i \in S => i + 1 \in S
    <3> SUFFICES ASSUME NEW i \in 1 .. n, i < n, i \in S PROVE i + 1 \in S
      OBVIOUS
    <3>1. i + 1 \in 1 .. n /\ i + 1 # 1 /\ (i + 1) - 1 = i /\ s[i + 1] \in Seq(T) /\ F[i] \in Seq(T)
      BY <1>1
    <3>2. F[i + 1] = F[i] \o s[i + 1]
      BY <2>7, <3>1
    <3> QED BY <3>1, <3>2, ConcatProperties
  <2>10. 1 .. n \subseteq S
    <3>1. 1 \in Int /\ n \in Int
      BY <1>1
    <3> HIDE DEF S, n
    <3> QED BY <2>8, <2>9, <3>1, IntervalInduction
  <2>11. F[n] \in Seq(T)
    BY <1>1, <1>3, <2>10
  <2>12. FlattenSeq(s) = F[n]
    BY <1>3 DEF FlattenSeq, F
  <2> QED BY <2>11, <2>12
<1> QED BY <1>2, <1>3

LEMMA TokenKinds ==
  ASSUME NEW tok \in Token
  PROVE  /\ tok.kind \in Words => tok.val \in Name \cup {Gone}
         /\ tok.kind \in Words => [tok EXCEPT !.val = Gone] \in Token
         /\ tok.kind = "number" => tok.val \in Number
         /\ tok.kind = "punct" => tok.val \in Punct
BY DEF Token, Words, Directives

LEMMA PunctTokens ==
  ASSUME NEW p \in Punct PROVE PunctToken(p) \in Token
BY DEF PunctToken, Token

(* The tokens of a list, with its brackets.                                *)
LEMMA WrittenTokens ==
  ASSUME NEW list \in OpenList PROVE WriteTokens(list) \in Seq(Token)
<1>1. list.open \in {"(", "["} /\ list.elements \in Seq(Seq(Token))
  BY DEF OpenList
<1>2. PunctToken(list.open) \in Token /\ PunctToken(Closing[list.open]) \in Token
  BY <1>1, PunctTokens DEF Punct, Closing
<1>3. FlattenSeq(list.elements) \in Seq(Token)
  BY <1>1, FlattenTypes
<1> DEFINE body == FlattenSeq(list.elements)
           first == PunctToken(list.open)
           last == PunctToken(Closing[list.open])
<1> HIDE DEF body, first, last
<1>4. <<first>> \in Seq(Token) /\ <<last>> \in Seq(Token) /\ body \in Seq(Token)
  BY <1>2, <1>3 DEF first, last, body
<1>5. <<first>> \o body \in Seq(Token)
  BY <1>4, ConcatProperties
<1>6. (<<first>> \o body) \o <<last>> \in Seq(Token)
  BY <1>4, <1>5, ConcatProperties
<1> QED BY <1>6 DEF WriteTokens, first, last, body

LEMMA MovedTypes ==
  ASSUME NEW tokens \in Seq(Token) PROVE MovedFrom(tokens) \in Seq(Token)
<1>1. DOMAIN tokens = 1 .. Len(tokens) /\ Len(tokens) \in Nat
      /\ \A i \in 1 .. Len(tokens) : tokens[i] \in Token
  BY LenProperties, ElementOfSeq
<1>2. \A i \in 1 .. Len(tokens) :
        (IF tokens[i].kind \in {"ident", "label", "text"} THEN [tokens[i] EXCEPT !.val = Gone]
         ELSE tokens[i]) \in Token
  BY <1>1, TokenKinds DEF Words
<1> QED BY <1>1, <1>2, IsASeq DEF MovedFrom

(* Taking the first token.                                                 *)
LEMMA ReadTypes ==
  ASSUME Typed, input # <<>>
  PROVE  Next1 \in Token /\ Tail(input) \in Seq(Token)
BY HeadTailProperties DEF Typed, Next1

LEMMA ExpandTypes ==
  ASSUME Typed, Expand PROVE Typed'
<1> DEFINE body == defines[Next1.val]
<1>1. Next1 \in Token /\ Tail(input) \in Seq(Token)
  BY ReadTypes DEF Expand, Reading
<1>2. Next1.val \in Name
  BY <1>1, TokenKinds DEF Expand, Words
<1>3. body \in Seq(Token) /\ MovedFrom(body) \in Seq(Token)
  BY <1>2, MovedTypes DEF Typed, Definitions, Expand, IsDefined
<1> HIDE DEF body
<1>4. body \o Tail(input) \in Seq(Token)
  BY <1>1, <1>3, ConcatProperties
<1>5. [defines EXCEPT ![Next1.val] = MovedFrom(body)] \in Definitions
  BY <1>3 DEF Typed, Definitions
<1> QED BY <1>4, <1>5 DEF Typed, Expand, body

(* A new element of the innermost list, or an expression of its own.       *)
LEMMA ElementTypes ==
  ASSUME Typed, NEW expr \in Seq(Token), Element(expr)
  PROVE  lists' \in Seq(OpenList) /\ exprs' \in Seq(Seq(Token))
<1>1. CASE lists = <<>>
  <2>1. exprs' = Append(exprs, expr) /\ lists' = lists
    BY <1>1 DEF Element
  <2>2. Append(exprs, expr) \in Seq(Seq(Token))
    BY AppendProperties DEF Typed
  <2> QED BY <2>1, <2>2 DEF Typed
<1>2. CASE lists # <<>>
  <2> DEFINE grown == [Last(lists) EXCEPT !.elements = Append(Last(lists).elements, expr)]
  <2>1. Last(lists) \in OpenList /\ Front(lists) \in Seq(OpenList)
    BY <1>2, FrontElements DEF Typed
  <2>2. Append(Last(lists).elements, expr) \in Seq(Seq(Token))
    BY <2>1, AppendProperties DEF OpenList
  <2>3. grown \in OpenList
    BY <2>1, <2>2 DEF OpenList
  <2>4. lists' = Append(Front(lists), grown) /\ exprs' = exprs
    BY <1>2 DEF Element
  <2> HIDE DEF grown
  <2> QED BY <2>1, <2>3, <2>4, AppendProperties DEF Typed
<1> QED BY <1>1, <1>2

LEMMA ParseExprTypes ==
  ASSUME Typed, NEW tok \in Token, ParseExpr(tok)
  PROVE  lists' \in Seq(OpenList) /\ exprs' \in Seq(Seq(Token))
<1>1. CASE tok.kind = "punct" /\ tok.val \in {"(", "["}
  <2>1. [open |-> tok.val, elements |-> <<>>] \in OpenList
    BY <1>1, EmptySeq DEF OpenList
  <2>2. lists' = Append(lists, [open |-> tok.val, elements |-> <<>>]) /\ exprs' = exprs
    BY <1>1 DEF ParseExpr
  <2> QED BY <2>1, <2>2, AppendProperties DEF Typed
<1>2. CASE ~(tok.kind = "punct" /\ tok.val \in {"(", "["})
  <2>1. <<tok>> \in Seq(Token) /\ Element(<<tok>>)
    BY <1>2 DEF ParseExpr
  <2> QED BY <2>1, ElementTypes
<1> QED BY <1>1, <1>2

(* A list within a list becomes an element of it.                          *)
LEMMA CloseInnerTypes ==
  ASSUME Typed, Len(lists) > 1, CloseInner PROVE Typed'
<1> DEFINE list == Last(lists)
           outer == Front(lists)
           grown == [Last(outer) EXCEPT !.elements = Append(Last(outer).elements, WriteTokens(list))]
<1>1. lists # <<>> /\ Len(lists) \in Nat
  BY EmptySeq, LenProperties DEF Typed
<1>2. list \in OpenList /\ outer \in Seq(OpenList) /\ Len(outer) = Len(lists) - 1
  BY <1>1, FrontElements DEF Typed
<1>3. outer # <<>>
  BY <1>1, <1>2, EmptySeq
<1>4. Last(outer) \in OpenList /\ Front(outer) \in Seq(OpenList)
  BY <1>2, <1>3, FrontElements
<1>5. WriteTokens(list) \in Seq(Token)
  BY <1>2, WrittenTokens
<1>6. Append(Last(outer).elements, WriteTokens(list)) \in Seq(Seq(Token))
  BY <1>4, <1>5, AppendProperties DEF OpenList
<1>7. grown \in OpenList
  BY <1>4, <1>6 DEF OpenList
<1>8. lists' = Append(Front(outer), grown)
      /\ UNCHANGED <<input, pushed, exprs, defines>>
  BY DEF CloseInner
<1> HIDE DEF grown, outer
<1> QED BY <1>4, <1>7, <1>8, AppendProperties DEF Typed

LEMMA DefineTypes ==
  ASSUME Typed, NEW rest \in Seq(Seq(Token)), HandleDefine(rest) PROVE Typed'
<1>1. CASE CanDefine(rest)
  <2>1. rest # <<>>
    BY <1>1, EmptySeq DEF CanDefine
  <2>2. Tail(rest) \in Seq(Seq(Token))
    BY <2>1, HeadTailProperties
  <2>3. FlattenSeq(Tail(rest)) \in Seq(Token)
    BY <2>2, FlattenTypes
  <2>4. defines' \in Definitions
    BY <1>1, <2>3 DEF HandleDefine, SetDefinition, Typed, Definitions
  <2> QED BY <1>1, <2>4, EmptySeq DEF HandleDefine, Typed
<1>2. CASE ~CanDefine(rest)
  BY <1>2 DEF HandleDefine, Fail, Typed
<1> QED BY <1>1, <1>2

LEMMA IncludeTypes ==
  ASSUME Typed, NEW rest \in Seq(Seq(Token)), HandleInclude(rest) PROVE Typed'
<1> DEFINE named == Len(rest) = 1 /\ IsToken(rest[1]) /\ rest[1][1].kind \in {"text", "ident", "label"}
           file == rest[1][1].val
<1>1. CASE /\ named /\ file # Gone /\ Included[file] \notin {None, Garbled}
           /\ input' = Included[file] \o input
           /\ lists' = <<>> /\ UNCHANGED <<exprs, pushed, defines>>
  <2>1. rest[1] \in Seq(Token)
    BY <1>1, ElementOfSeq
  <2>2. rest[1][1] \in Token
    BY <1>1, <2>1, ElementOfSeq DEF IsToken
  <2>3. file \in Name
    BY <1>1, <2>2, TokenKinds DEF Words
  <2>4. Included[file] \in Seq(Token)
    BY <1>1, <2>3, IncludedAssumption DEF Text
  <2>5. input' \in Seq(Token)
    BY <1>1, <2>4, ConcatProperties DEF Typed
  <2> QED BY <1>1, <2>5, EmptySeq DEF Typed
<1>2. CASE UNCHANGED <<input, pushed, lists, exprs, defines>>
  BY <1>2 DEF Typed
<1> QED BY <1>1, <1>2 DEF HandleInclude, Fail, Crash

LEMMA CloseTypes ==
  ASSUME Typed, Close PROVE Typed'
<1>1. CASE Len(lists) > 1 /\ CloseInner
  BY <1>1, CloseInnerTypes
<1>2. CASE Len(lists) = 1 /\ CloseOuter(lists[1])
  <2> DEFINE list == lists[1]
  <2>1. list \in OpenList
    <3>1. lists \in Seq(OpenList) /\ 1 \in 1 .. Len(lists)
      BY <1>2 DEF Typed
    <3> QED BY <3>1, ElementOfSeq
  <2>2. list.elements # <<>> => Tail(list.elements) \in Seq(Seq(Token))
    BY <2>1, HeadTailProperties DEF OpenList
  <2>3. CASE Calls(list, DefineName) /\ HandleDefine(Tail(list.elements))
    BY <2>2, <2>3, DefineTypes DEF Calls
  <2>4. CASE Calls(list, IncludeName) /\ HandleInclude(Tail(list.elements))
    BY <2>2, <2>4, IncludeTypes DEF Calls
  <2>5. CASE /\ exprs' = Append(exprs, WriteTokens(list)) /\ lists' = <<>>
             /\ UNCHANGED <<pushed, defines, input>>
    <3>1. WriteTokens(list) \in Seq(Token)
      BY <2>1, WrittenTokens
    <3>2. exprs' \in Seq(Seq(Token))
      BY <2>5, <3>1, AppendProperties DEF Typed
    <3> QED BY <2>5, <3>2, EmptySeq DEF Typed
  <2> QED BY <1>2, <2>3, <2>4, <2>5 DEF CloseOuter
<1> QED BY <1>1, <1>2 DEF Close

(* Numbers stay numbers in every step of the parser.                       *)
LEMMA ParserTypes ==
  ASSUME Typed, ParseStep PROVE Typed'
<1>1. CASE Skip \/ ReadGone \/ EndList \/ Directive
  <2>1. input # <<>> /\ Consume
    BY <1>1 DEF Skip, ReadGone, EndList, Directive, PassOver, TestDefinition, Else, StartCondition,
                BadDirective, Endif, StrayEndif, Considered, Reading, Counts
  <2>2. UNCHANGED <<pushed, defines, lists, exprs>>
    BY <1>1 DEF Skip, ReadGone, EndList, Directive, PassOver, TestDefinition, Else, StartCondition,
                BadDirective, Endif, StrayEndif, Fail, Crash
  <2> QED BY <2>1, <2>2, ReadTypes DEF Consume, Typed
<1>2. CASE Evaluate \/ EndOfInput
  BY <1>2 DEF Evaluate, EndOfInput, Fail, Crash, pvars, Typed
<1>3. CASE InList
  <2>1. Next1 \in Token /\ Tail(input) \in Seq(Token)
    BY <1>3, ReadTypes DEF InList, Counts, Reading
  <2>2. Append(pushed, Next1) \in Seq(Token)
    BY <2>1, AppendProperties DEF Typed
  <2> QED BY <1>3, <2>1, <2>2 DEF InList, Consume, Typed
<1>4. CASE ReadPushed
  <2>1. Front(pushed) \in Seq(Token) /\ Last(pushed) \in Token
    BY <1>4, FrontElements DEF ReadPushed, Typed
  <2>2. lists' \in Seq(OpenList) /\ exprs' \in Seq(Seq(Token))
    BY <1>4, <2>1, ParseExprTypes DEF ReadPushed
  <2> QED BY <1>4, <2>1, <2>2 DEF ReadPushed, Typed
<1>5. CASE StartExpr
  <2>1. Next1 \in Token /\ Tail(input) \in Seq(Token)
    BY <1>5, ReadTypes DEF StartExpr, Counts, Reading
  <2>2. lists' \in Seq(OpenList) /\ exprs' \in Seq(Seq(Token))
    BY <1>5, <2>1, ParseExprTypes DEF StartExpr
  <2> QED BY <1>5, <2>1, <2>2 DEF StartExpr, Consume, Typed
<1> QED BY <1>1, <1>2, <1>3, <1>4, <1>5, ExpandTypes, CloseTypes DEF ParseStep

-----------------------------------------------------------------------------
(* The stages.                                                             *)
Item == {expr \in Seq(Token) : IsItem(expr)}

AfterParse == {"environment", "code", "open", "openHunk", "openListing", "assemble",
               "done", "thrown"}
WithTables == AfterParse \ {"environment"}
Writing == WithTables \ {"code"}
Untouched == {"read", "parse", "environment", "code", "failed", "crashed"}

(* The items of the sources that were parsed, and those still to be.       *)
Sources ==
  /\ command \in Commands
  /\ index \in Nat /\ index <= Len(command.sources)
  /\ items \in Seq(Seq(Item))
  /\ globalDefines \in Definitions
  /\ stage = "read" => index = 0 /\ Len(items) = 0
  /\ stage = "parse" => Readable /\ Len(items) = (IF index = 0 THEN 0 ELSE index - 1)
  /\ stage \in AfterParse => Len(items) = Len(command.sources)

Tables ==
  /\ stage \in WithTables => TablesBuild /\ moduleEnvs = [number \in Number |-> ModuleEnv(number)]
  /\ stage \in Writing => CodeBuilds

(* The scripts that are written, in the order of their numbers, and the    *)
(* one that may be half written.                                           *)
Written(number) == {heap[number], hunk[number]} \subseteq PutInto(moduleEnvs[number])
Clean(number) == heap[number] = Before /\ hunk[number] = Before
InWork(number) == stage \in {"openHunk", "openListing", "assemble", "thrown"} /\ number = Number1

Files ==
  /\ heap \in [Number -> Nat \cup {Before, Torn}] /\ hunk \in [Number -> Nat \cup {Before, Torn}]
  /\ stage \in Untouched => \A number \in Number : Clean(number)
  /\ stage \in Writing =>
       /\ unwritten \subseteq Scripts
       /\ \A number \in Scripts \ unwritten :
            Written(number) /\ \A other \in unwritten : Rank[number] < Rank[other]
       /\ \A number \in unwritten : InWork(number) \/ Clean(number)
       /\ \A number \in Number \ Scripts : Clean(number)
  /\ stage \in {"openHunk", "openListing", "assemble", "thrown"} => unwritten # {}
  /\ stage = "done" => unwritten = {}

Stages == stage \in {"read", "parse"} \cup AfterParse \cup {"failed", "crashed"}

FrontInv == Stages /\ Typed /\ Sources /\ Tables /\ Files

-----------------------------------------------------------------------------
(* Lemmas about the tables and the order of writing.                       *)

(* The number of a source is that of its only (script# n).                 *)
LEMMA ScriptNumbers ==
  ASSUME Sources, TablesBuild, NEW source \in DOMAIN items
  PROVE  ScriptNum(source) \in Number
<1> DEFINE i == CHOOSE i \in ScriptNums(source) : TRUE
<1>1. i \in ScriptNums(source)
  BY DEF TablesBuild
<1> HIDE DEF i
<1>2. items[source] \in Seq(Item)
  BY ElementOfSeq, LenProperties DEF Sources
<1>3. i \in DOMAIN items[source] /\ items[source][i][2].val = ScriptName
  BY <1>1 DEF ScriptNums
<1>4. items[source][i] \in Item
  BY <1>2, <1>3, ElementOfSeq, LenProperties
<1>5. /\ items[source][i] \in Seq(Token) /\ Len(items[source][i]) = 4
      /\ items[source][i][3].kind = "number"
  BY <1>3, <1>4 DEF Item, IsItem
<1>6. items[source][i][3] \in Token
  BY <1>5, ElementOfSeq
<1>7. items[source][i][3].val \in Number
  BY <1>5, <1>6, TokenKinds
<1> QED BY <1>7 DEF ScriptNum, i

(* The first source with a number is its script.                           *)
LEMMA FirstSources ==
  ASSUME Sources, NEW number \in Number
  PROVE  /\ SourcesOf(number) = {} => ModuleEnv(number) = None
         /\ SourcesOf(number) # {} =>
              /\ ModuleEnv(number) \in SourcesOf(number)
              /\ \A source \in SourcesOf(number) : ModuleEnv(number) <= source
<1>1. SourcesOf(number) \subseteq Nat
  BY LenProperties DEF Sources, SourcesOf
<1>2. SourcesOf(number) # {} =>
        \E s \in SourcesOf(number) : \A t \in SourcesOf(number) : s <= t
  BY <1>1, LeastNatural
<1> QED BY <1>2 DEF ModuleEnv

(* What the table of the scripts says about each source and each number.   *)
EnvFacts ==
  /\ \A source \in DOMAIN items :
       ScriptNum(source) \in Scripts /\ moduleEnvs[ScriptNum(source)] <= source
  /\ \A number \in Scripts :
       moduleEnvs[number] \in DOMAIN items /\ ScriptNum(moduleEnvs[number]) = number

LEMMA TableOfScripts ==
  ASSUME Sources, TablesBuild, moduleEnvs = [number \in Number |-> ModuleEnv(number)]
  PROVE  EnvFacts
<1>1. None \notin Nat /\ DOMAIN items \subseteq Nat
  BY NameAssumption, LenProperties DEF Sources
<1>2. ASSUME NEW source \in DOMAIN items
      PROVE  ScriptNum(source) \in Scripts /\ moduleEnvs[ScriptNum(source)] <= source
  <2> DEFINE number == ScriptNum(source)
  <2>1. number \in Number /\ source \in SourcesOf(number)
    BY <1>2, ScriptNumbers DEF SourcesOf
  <2> HIDE DEF number
  <2>2. ModuleEnv(number) \in DOMAIN items /\ ModuleEnv(number) <= source
    BY <2>1, FirstSources DEF SourcesOf
  <2>3. moduleEnvs[number] = ModuleEnv(number)
    BY <2>1
  <2>4. number \in Scripts /\ moduleEnvs[number] <= source
    BY <1>1, <2>1, <2>2, <2>3 DEF Scripts
  <2> QED BY <2>4 DEF number
<1>3. ASSUME NEW number \in Scripts
      PROVE  moduleEnvs[number] \in DOMAIN items /\ ScriptNum(moduleEnvs[number]) = number
  <2>1. number \in Number /\ ModuleEnv(number) # None /\ moduleEnvs[number] = ModuleEnv(number)
    BY <1>3 DEF Scripts
  <2>2. ModuleEnv(number) \in SourcesOf(number)
    BY <2>1, FirstSources
  <2> QED BY <2>1, <2>2 DEF SourcesOf
<1> QED BY <1>2, <1>3 DEF EnvFacts

(* The number whose turn it is, is before all others.                      *)
LEMMA NextNumber ==
  ASSUME unwritten \subseteq Number, unwritten # {}
  PROVE  /\ Number1 \in unwritten
         /\ \A n \in unwritten \ {Number1} : Rank[Number1] < Rank[n]
<1>1. \A n \in Number : Rank[n] \in Nat
  BY ItemAssumption
<1>2. \A m, n \in Number : Rank[m] = Rank[n] => m = n
  BY ItemAssumption DEF IsInjective
<1>3. \E m \in unwritten : \A n \in unwritten : Rank[m] <= Rank[n]
  <2> DEFINE ranks == {Rank[n] : n \in unwritten}
  <2>1. ranks \subseteq Nat /\ ranks # {}
    BY <1>1
  <2>2. PICK r \in ranks : \A q \in ranks : r <= q
    <3> HIDE DEF ranks
    <3> QED BY <2>1, LeastNatural
  <2>3. PICK m \in unwritten : r = Rank[m]
    BY <2>2
  <2> QED BY <2>2, <2>3
<1>4. Number1 \in unwritten /\ \A n \in unwritten : Rank[Number1] <= Rank[n]
  BY <1>3 DEF Number1
<1>5. \A n \in unwritten \ {Number1} : Rank[Number1] < Rank[n]
  <2> TAKE n \in unwritten \ {Number1}
  <2>1. Rank[Number1] \in Nat /\ Rank[n] \in Nat /\ Rank[Number1] # Rank[n]
    BY <1>1, <1>2, <1>4
  <2> QED BY <1>4, <2>1
<1> QED BY <1>4, <1>5

-----------------------------------------------------------------------------
(* The steps of the program, one lemma for each.                           *)

(* Reading and parsing write nothing, so only the items are to be seen to. *)
Quiet == UNCHANGED <<unwritten, heap, hunk, moduleEnvs>> /\ stage \in Untouched /\ stage' \in Untouched

LEMMA QuietFiles ==
  ASSUME FrontInv, Quiet PROVE Files'
BY DEF Quiet, Files, Untouched, Writing, WithTables, AfterParse, Clean, FrontInv

(* What the command line gives a parser to read.                           *)
LEMMA CommandTypes ==
  ASSUME command \in Commands, Readable
  PROVE  /\ FlattenSeq(command.globals) \in Seq(Token)
         /\ command.defs \in Definitions
         /\ \A i \in 1 .. Len(command.sources) : command.sources[i] \in Seq(Token)
         /\ Len(command.sources) \in Nat
<1>1. /\ command.globals \in Seq(Text) /\ command.sources \in Seq(Text)
      /\ command.defs \in [Name -> Text]
  BY CommandAssumption
<1>2. \A i \in 1 .. Len(command.globals) : command.globals[i] \in Seq(Token)
  BY <1>1, LenProperties, ElementOfSeq DEF Readable, Text
<1>3. command.globals \in Seq(Seq(Token))
  BY <1>1, <1>2, LenProperties, IsASeq
<1>4. \A i \in 1 .. Len(command.sources) : command.sources[i] \in Seq(Token)
  BY <1>1, LenProperties, ElementOfSeq DEF Readable, Text
<1>5. command.defs \in Definitions
  BY <1>1 DEF Readable, Definitions, Text
<1> QED BY <1>1, <1>3, <1>4, <1>5, FlattenTypes, LenProperties

LEMMA StopStep ==
  ASSUME FrontInv, NEW how \in {"failed", "crashed"}, stage \in {"read", "parse", "environment", "code"},
         Stop(how)
  PROVE  FrontInv'
<1>1. stage' = how /\ UNCHANGED <<pvars, command, index, globalDefines, build, disk>>
  BY DEF Stop
<1>2. Quiet
  BY <1>1 DEF Quiet, Untouched, build, disk
<1>3. Files'
  BY <1>2, QuietFiles
<1>4. Typed'
  BY <1>1 DEF FrontInv, Typed, pvars
<1>5. Sources' /\ Tables' /\ Stages'
  BY <1>1 DEF FrontInv, Sources, Tables, Stages, AfterParse, WithTables, Writing, build
<1> QED BY <1>3, <1>4, <1>5 DEF FrontInv

LEMMA ReadFilesStep ==
  ASSUME FrontInv, ReadFiles PROVE FrontInv'
<1>1. CASE ~Readable /\ Stop("failed")
  BY <1>1, StopStep DEF ReadFiles
<1>2. CASE /\ Readable /\ stage' = "parse"
           /\ StartParse(FlattenSeq(command.globals), command.defs)
           /\ UNCHANGED <<command, index, globalDefines, build, disk>>
  <2>1. stage = "read" /\ command \in Commands
    BY DEF ReadFiles, FrontInv, Sources
  <2>2. Typed'
    BY <1>2, <2>1, CommandTypes, EmptySeq DEF StartParse, Typed
  <2>3. Files'
    BY <1>2, <2>1, QuietFiles DEF Quiet, Untouched, build, disk
  <2>4. Sources' /\ Tables' /\ Stages'
    BY <1>2, <2>1 DEF FrontInv, Sources, Tables, Stages, AfterParse, WithTables, Writing, build,
                      Readable
  <2> QED BY <2>2, <2>3, <2>4 DEF FrontInv
<1> QED BY <1>1, <1>2 DEF ReadFiles

LEMMA ParseInnerStep ==
  ASSUME FrontInv, Parse PROVE FrontInv'
<1>1. /\ stage = "parse" /\ ParseStep
      /\ UNCHANGED <<command, stage, index, globalDefines, build, disk>>
  BY DEF Parse
<1>2. Typed'
  BY <1>1, ParserTypes DEF FrontInv
<1>3. Files'
  BY <1>1, QuietFiles DEF Quiet, Untouched, build, disk
<1>4. Sources' /\ Tables' /\ Stages'
  BY <1>1 DEF FrontInv, Sources, Tables, Stages, AfterParse, WithTables, Writing, build, Readable
<1> QED BY <1>2, <1>3, <1>4 DEF FrontInv

LEMMA ParseItemsStep ==
  ASSUME FrontInv, ParseItems PROVE FrontInv'
<1>1. CASE ~AreItems /\ Stop("failed")
  BY <1>1, StopStep DEF ParseItems
<1>2. CASE /\ AreItems
           /\ items' = IF index = 0 THEN items ELSE Append(items, exprs)
           /\ globalDefines' = IF index = 0 THEN defines ELSE globalDefines
           /\ IF index < Len(command.sources)
                THEN /\ index' = index + 1
                     /\ StartParse(command.sources[index + 1], SourceDefines)
                     /\ UNCHANGED stage
                ELSE stage' = "environment" /\ UNCHANGED <<index, pvars>>
           /\ UNCHANGED <<command, moduleEnvs, disk>>
  <2>1. /\ stage = "parse" /\ command \in Commands /\ Readable
        /\ index \in Nat /\ index <= Len(command.sources)
        /\ items \in Seq(Seq(Item)) /\ Len(items) = (IF index = 0 THEN 0 ELSE index - 1)
        /\ globalDefines \in Definitions /\ defines \in Definitions
        /\ exprs \in Seq(Seq(Token))
    BY DEF ParseItems, FrontInv, Sources, Typed
  <2>2. exprs \in Seq(Item)
    <3>1. \A i \in 1 .. Len(exprs) : exprs[i] \in Item
      BY <1>2, <2>1, ElementOfSeq, LenProperties DEF AreItems, Item
    <3>2. exprs = [i \in 1 .. Len(exprs) |-> exprs[i]] /\ Len(exprs) \in Nat
      BY <2>1, LenProperties
    <3> QED BY <3>1, <3>2, IsASeq
  <2>3. items' \in Seq(Seq(Item)) /\ Len(items') = index
    BY <1>2, <2>1, <2>2, AppendProperties
  <2>4. globalDefines' \in Definitions /\ SourceDefines \in Definitions
    BY <1>2, <2>1 DEF SourceDefines
  <2>5. CASE index < Len(command.sources)
    <3>1. /\ index' = index + 1 /\ stage' = stage
          /\ StartParse(command.sources[index + 1], SourceDefines)
          /\ UNCHANGED <<command, moduleEnvs, disk>>
      BY <1>2, <2>5
    <3>2. index + 1 \in 1 .. Len(command.sources) /\ Len(command.sources) \in Nat
      BY <2>1, <2>5, CommandTypes
    <3>3. Typed'
      BY <2>1, <2>4, <3>1, <3>2, CommandTypes, EmptySeq DEF StartParse, Typed
    <3>4. Files'
      BY <2>1, <3>1, QuietFiles DEF Quiet, Untouched, disk
    <3>5. Sources'
      BY <2>1, <2>3, <2>4, <3>1, <3>2 DEF Sources, Readable, AfterParse
    <3>6. Tables' /\ Stages'
      BY <2>1, <3>1 DEF FrontInv, Tables, Stages, AfterParse, WithTables, Writing
    <3> QED BY <3>3, <3>4, <3>5, <3>6 DEF FrontInv
  <2>6. CASE ~(index < Len(command.sources))
    <3>1. stage' = "environment" /\ UNCHANGED <<index, pvars, command, moduleEnvs, disk>>
      BY <1>2, <2>6
    <3>2. index = Len(command.sources)
      BY <2>1, <2>6, CommandTypes
    <3>3. Typed'
      BY <3>1 DEF FrontInv, Typed, pvars
    <3>4. Files'
      BY <2>1, <3>1, QuietFiles DEF Quiet, Untouched, disk
    <3>5. Sources'
      BY <2>1, <2>3, <2>4, <3>1, <3>2 DEF Sources
    <3>6. Tables' /\ Stages'
      BY <3>1 DEF Tables, Stages, AfterParse, WithTables, Writing
    <3> QED BY <3>3, <3>4, <3>5, <3>6 DEF FrontInv
  <2> QED BY <2>5, <2>6
<1> QED BY <1>1, <1>2 DEF ParseItems

(* The tables depend on the items alone.                                   *)
LEMMA SameTables ==
  ASSUME items' = items
  PROVE  /\ TablesBuild' <=> TablesBuild
         /\ \A number \in Number : ModuleEnv(number)' = ModuleEnv(number)
<1>1. \A source : ScriptNums(source)' = ScriptNums(source)
  BY DEF ScriptNums
<1>2. \A source : ScriptNum(source)' = ScriptNum(source)
  BY <1>1 DEF ScriptNum
<1>3. \A number : SourcesOf(number)' = SourcesOf(number)
  BY <1>2 DEF SourcesOf
<1>4. \A number : ModuleEnv(number)' = ModuleEnv(number)
  <2> TAKE number
  <2> DEFINE First(S) == IF S = {} THEN None ELSE CHOOSE s \in S : \A t \in S : s <= t
  <2>1. SourcesOf(number)' = SourcesOf(number)
    BY <1>3
  <2>2. ModuleEnv(number) = First(SourcesOf(number)) /\ ModuleEnv(number)' = First(SourcesOf(number)')
    BY DEF ModuleEnv
  <2> HIDE DEF First
  <2> QED BY <2>1, <2>2
<1>5. TablesBuild' <=> TablesBuild
  BY <1>1 DEF TablesBuild, Has
<1> QED BY <1>4, <1>5

LEMMA BuildEnvironmentStep ==
  ASSUME FrontInv, BuildEnvironment PROVE FrontInv'
<1>1. CASE ~TablesBuild /\ Stop("failed")
  BY <1>1, StopStep DEF BuildEnvironment
<1>2. CASE /\ TablesBuild /\ moduleEnvs' = [number \in Number |-> ModuleEnv(number)]
           /\ stage' = "code"
           /\ UNCHANGED <<pvars, command, index, globalDefines, items, disk>>
  <2>1. stage = "environment"
    BY DEF BuildEnvironment
  <2>2. Typed'
    BY <1>2 DEF FrontInv, Typed, pvars
  <2>3. Files'
    BY <1>2, <2>1 DEF FrontInv, Files, Untouched, Writing, WithTables, AfterParse, Clean, disk
  <2>4. Sources'
    BY <1>2, <2>1 DEF FrontInv, Sources, AfterParse
  <2>5. Tables' /\ Stages'
    BY <1>2, SameTables DEF Tables, Stages, AfterParse, WithTables, Writing
  <2> QED BY <2>2, <2>3, <2>4, <2>5 DEF FrontInv
<1> QED BY <1>1, <1>2 DEF BuildEnvironment

(* Once there are tables, only the files change.                           *)
LEMMA TablesStay ==
  ASSUME FrontInv, stage \in WithTables, stage' \in WithTables, CodeBuilds,
         UNCHANGED <<pvars, command, index, globalDefines, build>>
  PROVE  Typed' /\ Sources' /\ Tables' /\ Stages' /\ Scripts' = Scripts
<1>1. items' = items /\ moduleEnvs' = moduleEnvs
  BY DEF build
<1>2. Typed'
  BY DEF FrontInv, Typed, pvars
<1>3. Sources'
  BY <1>1 DEF FrontInv, Sources, WithTables, AfterParse
<1>4. CodeBuilds' /\ Scripts' = Scripts
  BY <1>1 DEF CodeBuilds, Has, Scripts
<1>5. Tables'
  BY <1>1, <1>4, SameTables DEF FrontInv, Tables
<1>6. Stages'
  BY DEF Stages, WithTables
<1> QED BY <1>2, <1>3, <1>4, <1>5, <1>6

LEMMA BuildCodeStep ==
  ASSUME FrontInv, BuildCode PROVE FrontInv'
<1>1. CASE (~CodeBuilds /\ Stop("failed")) \/ (HasGone /\ Stop("crashed"))
  BY <1>1, StopStep DEF BuildCode
<1>2. CASE /\ CodeBuilds /\ ~HasGone /\ stage' = "open" /\ unwritten' = Scripts
           /\ UNCHANGED <<pvars, command, index, globalDefines, build, heap, hunk>>
  <2>1. stage = "code"
    BY DEF BuildCode
  <2>2. Typed' /\ Sources' /\ Tables' /\ Stages' /\ Scripts' = Scripts
    BY <1>2, <2>1, TablesStay DEF WithTables, AfterParse
  <2>3. heap' = heap /\ hunk' = hunk /\ \A number \in Number : Clean(number)
    BY <1>2, <2>1 DEF FrontInv, Files, Untouched
  <2>4. Files'
    BY <1>2, <2>2, <2>3 DEF FrontInv, Files, Untouched, Clean, Scripts
  <2> QED BY <2>2, <2>4 DEF FrontInv
<1> QED BY <1>1, <1>2 DEF BuildCode

(* What is known while the files are written.                              *)
LEMMA WhileWriting ==
  ASSUME FrontInv, stage \in Writing
  PROVE  /\ EnvFacts /\ CodeBuilds /\ stage \in WithTables
         /\ Scripts \subseteq Number /\ unwritten \subseteq Scripts
         /\ unwritten # {} => /\ Number1 \in unwritten
                              /\ \A n \in unwritten \ {Number1} : Rank[Number1] < Rank[n]
<1>1. stage \in WithTables /\ CodeBuilds /\ TablesBuild
      /\ moduleEnvs = [number \in Number |-> ModuleEnv(number)]
  BY DEF FrontInv, Tables, Writing
<1>2. EnvFacts
  BY <1>1, TableOfScripts DEF FrontInv
<1>3. Scripts \subseteq Number /\ unwritten \subseteq Scripts
  BY DEF Scripts, FrontInv, Files
<1> QED BY <1>1, <1>2, <1>3, NextNumber

(* A step that leaves the list of numbers and puts something into the      *)
(* files of the first of them.                                             *)
LEMMA InWorkStep ==
  ASSUME FrontInv, stage \in Writing, unwritten # {}, unwritten' = unwritten,
         stage' \in {"openHunk", "openListing", "assemble", "thrown"},
         NEW h \in Nat \cup {Before, Torn}, NEW k \in Nat \cup {Before, Torn},
         heap' = heap \/ heap' = [heap EXCEPT ![Number1] = h],
         hunk' = hunk \/ hunk' = [hunk EXCEPT ![Number1] = k],
         UNCHANGED <<pvars, command, index, globalDefines, build>>
  PROVE  FrontInv'
<1>1. /\ CodeBuilds /\ stage \in WithTables /\ unwritten \subseteq Scripts /\ Scripts \subseteq Number
      /\ Number1 \in unwritten
  BY WhileWriting
<1>2. stage' \in WithTables /\ stage' \in Writing
  BY DEF WithTables, Writing, AfterParse
<1>3. Typed' /\ Sources' /\ Tables' /\ Stages' /\ Scripts' = Scripts
  BY <1>1, <1>2, TablesStay
<1>4. Number1' = Number1
  BY DEF Number1
<1>5. /\ heap' \in [Number -> Nat \cup {Before, Torn}] /\ hunk' \in [Number -> Nat \cup {Before, Torn}]
      /\ \A number \in Number \ {Number1} : heap'[number] = heap[number] /\ hunk'[number] = hunk[number]
  BY <1>1 DEF FrontInv, Files
<1>6. moduleEnvs' = moduleEnvs
  BY DEF build
<1>7. \A number \in Scripts \ unwritten :
        Written(number)' /\ \A other \in unwritten : Rank[number] < Rank[other]
  BY <1>1, <1>5, <1>6 DEF FrontInv, Files, Written
<1>8. \A number \in unwritten \ {Number1} : Clean(number)'
  BY <1>1, <1>5 DEF FrontInv, Files, Clean, InWork
<1>9. \A number \in Number \ Scripts : Clean(number)'
  BY <1>1, <1>5 DEF FrontInv, Files, Clean
<1>10. InWork(Number1)'
  BY <1>4 DEF InWork
<1>11. Files'
  <2>1. stage' \notin Untouched /\ stage' # "done"
    BY DEF Untouched
  <2>2. \A number \in unwritten' : InWork(number)' \/ Clean(number)'
    BY <1>4, <1>8, <1>10
  <2> QED BY <1>1, <1>3, <1>5, <1>7, <1>9, <2>1, <2>2 DEF Files
<1> QED BY <1>3, <1>11 DEF FrontInv

LEMMA OpenHeapStep ==
  ASSUME FrontInv, OpenHeap PROVE FrontInv'
<1>1. stage = "open" /\ stage \in Writing /\ unwritten # {} /\ Empty \in Nat
  BY DEF OpenHeap, Writing, WithTables, AfterParse, Empty
<1> QED BY <1>1, InWorkStep DEF OpenHeap, Stop, disk

LEMMA OpenHunkStep ==
  ASSUME FrontInv, OpenHunk PROVE FrontInv'
<1>1. stage = "openHunk" /\ stage \in Writing /\ unwritten # {} /\ Empty \in Nat
  BY DEF OpenHunk, Writing, WithTables, AfterParse, FrontInv, Files, Empty
<1> QED BY <1>1, InWorkStep DEF OpenHunk, Stop, disk

LEMMA OpenListingStep ==
  ASSUME FrontInv, OpenListing PROVE FrontInv'
<1>1. stage = "openListing" /\ stage \in Writing /\ unwritten # {} /\ Empty \in Nat
  BY DEF OpenListing, Writing, WithTables, AfterParse, FrontInv, Files, Empty
<1> QED BY <1>1, InWorkStep DEF OpenListing, Stop, disk

LEMMA AssembleStep ==
  ASSUME FrontInv, Assemble PROVE FrontInv'
<1> DEFINE source == moduleEnvs[Number1]
<1>1. stage = "assemble" /\ stage \in Writing /\ unwritten # {}
  BY DEF Assemble, Writing, WithTables, AfterParse, FrontInv, Files
<1>2. /\ EnvFacts /\ CodeBuilds /\ stage \in WithTables
      /\ Scripts \subseteq Number /\ unwritten \subseteq Scripts
      /\ Number1 \in unwritten /\ \A n \in unwritten \ {Number1} : Rank[Number1] < Rank[n]
  BY <1>1, WhileWriting
<1>3. CASE /\ heap' = [heap EXCEPT ![Number1] = Torn] /\ hunk' = [hunk EXCEPT ![Number1] = Torn]
           /\ stage' = "thrown"
           /\ UNCHANGED <<pvars, command, index, globalDefines, build, unwritten>>
  BY <1>1, <1>3, InWorkStep
<1>4. ASSUME NEW h \in PutInto(source), NEW k \in PutInto(source),
             heap' = [heap EXCEPT ![Number1] = h], hunk' = [hunk EXCEPT ![Number1] = k],
             unwritten' = unwritten \ {Number1}, stage' = "open",
             UNCHANGED <<pvars, command, index, globalDefines, build>>
      PROVE  FrontInv'
  <2>1. Typed' /\ Sources' /\ Tables' /\ Stages' /\ Scripts' = Scripts
    BY <1>2, <1>4, TablesStay DEF WithTables, AfterParse
  <2>2. h \in Nat \cup {Before, Torn} /\ k \in Nat \cup {Before, Torn}
    <3>1. source \in Nat
      BY <1>2, LenProperties DEF EnvFacts, FrontInv, Sources
    <3> QED BY <3>1 DEF PutInto
  <2>3. /\ heap' \in [Number -> Nat \cup {Before, Torn}] /\ hunk' \in [Number -> Nat \cup {Before, Torn}]
        /\ \A number \in Number \ {Number1} : heap'[number] = heap[number] /\ hunk'[number] = hunk[number]
        /\ heap'[Number1] = h /\ hunk'[Number1] = k
    BY <1>2, <1>4, <2>2 DEF FrontInv, Files
  <2>4. moduleEnvs' = moduleEnvs
    BY <1>4 DEF build
  <2>5. \A number \in Scripts \ unwritten' :
          Written(number)' /\ \A other \in unwritten' : Rank[number] < Rank[other]
    <3> SUFFICES ASSUME NEW number \in Scripts \ unwritten'
                 PROVE  Written(number)' /\ \A other \in unwritten' : Rank[number] < Rank[other]
      OBVIOUS
    <3>1. CASE number = Number1
      BY <1>2, <1>4, <2>3, <2>4, <3>1 DEF Written, PutInto
    <3>2. CASE number \in Scripts \ unwritten
      <4>1. Written(number) /\ \A other \in unwritten : Rank[number] < Rank[other]
        BY <1>1, <3>2 DEF FrontInv, Files
      <4>2. number \in Number \ {Number1}
        BY <1>2, <3>2
      <4> QED BY <1>4, <2>3, <2>4, <4>1, <4>2 DEF Written, PutInto
    <3> QED BY <1>4, <3>1, <3>2
  <2>6. \A number \in unwritten' : Clean(number)'
    BY <1>1, <1>2, <1>4, <2>3 DEF FrontInv, Files, Clean, InWork
  <2>7. \A number \in Number \ Scripts : Clean(number)'
    BY <1>1, <1>2, <2>3 DEF FrontInv, Files, Clean
  <2>8. Files'
    BY <1>2, <1>4, <2>1, <2>3, <2>5, <2>6, <2>7 DEF Files, Untouched
  <2> QED BY <2>1, <2>8 DEF FrontInv
<1> QED BY <1>3, <1>4 DEF Assemble

LEMMA FinishStep ==
  ASSUME FrontInv, Finish PROVE FrontInv'
<1>1. stage = "open" /\ unwritten = {} /\ stage' = "done"
      /\ UNCHANGED <<pvars, command, index, globalDefines, build, disk>>
  BY DEF Finish, Stop
<1>2. CodeBuilds /\ stage \in WithTables /\ stage \in Writing /\ stage' \in WithTables
  BY <1>1, WhileWriting DEF Writing, WithTables, AfterParse
<1>3. Typed' /\ Sources' /\ Tables' /\ Stages' /\ Scripts' = Scripts
  BY <1>1, <1>2, TablesStay
<1>4. Files'
  BY <1>1, <1>2, <1>3 DEF FrontInv, Files, Untouched, Clean, Written, disk, build
<1> QED BY <1>3, <1>4 DEF FrontInv

LEMMA FrontInvKept ==
  ASSUME FrontInv, [Next]_vars PROVE FrontInv'
<1>1. CASE UNCHANGED vars
  <2>1. UNCHANGED <<pvars, command, stage, index, globalDefines, items, moduleEnvs,
                    unwritten, heap, hunk>>
    BY <1>1 DEF vars, build, disk
  <2>2. Typed' /\ Sources' /\ Stages'
    BY <2>1 DEF FrontInv, Typed, Sources, Stages, pvars, Readable
  <2>3. Tables'
    BY <2>1, SameTables DEF FrontInv, Tables, CodeBuilds, Has, Scripts
  <2>4. Files'
    BY <2>1 DEF FrontInv, Files, Clean, Written, InWork, Scripts, Number1
  <2> QED BY <2>2, <2>3, <2>4 DEF FrontInv
<1>2. CASE ParseFails
  BY <1>2, StopStep DEF ParseFails
<1>3. CASE Terminated
  BY <1>1, <1>3 DEF Terminated
<1> QED BY <1>1, <1>2, <1>3, ReadFilesStep, ParseInnerStep, ParseItemsStep, BuildEnvironmentStep,
           BuildCodeStep, OpenHeapStep, OpenHunkStep, OpenListingStep, AssembleStep,
           FinishStep DEF Next, Build

LEMMA FrontInvBegins ==
  ASSUME Init PROVE FrontInv
<1>1. Typed
  BY EmptySeq DEF Init, ParserInit, Typed, NoDefines, Definitions
<1>2. Sources
  <2>1. Len(command.sources) \in Nat
    BY CommandAssumption, LenProperties DEF Init
  <2> QED BY <2>1, EmptySeq DEF Init, Sources, NoDefines, Definitions, AfterParse
<1>3. Files /\ Tables /\ Stages
  BY DEF Init, Files, Tables, Stages, Untouched, Writing, WithTables, AfterParse, Clean
<1> QED BY <1>1, <1>2, <1>3 DEF FrontInv

-----------------------------------------------------------------------------
(* Whatever is written, and wherever it ends: the sources are all free of  *)
(* errors, the scripts are gone through in their order, and no file of one *)
(* whose turn is over holds anything but its own, or what writing left.    *)
THEOREM FilesInOrder == Spec => []WrittenInOrder
<1>1. FrontInv => WrittenInOrder
  <2> DEFINE touched(number) == heap[number] # Before \/ hunk[number] # Before
             written(number) == {heap[number], hunk[number]} \subseteq PutInto(moduleEnvs[number])
  <2> SUFFICES ASSUME FrontInv
               PROVE  /\ \A m, n \in Number :
                           touched(n) /\ m \in Scripts /\ Rank[m] < Rank[n] => written(m)
                      /\ \A n \in Number : touched(n) =>
                           /\ \A source \in DOMAIN items :
                                ~Has(source, Misplaced) /\ (moduleEnvs[ScriptNum(source)] = source =>
                                                              ~Has(source, Uncompiled))
                           /\ Len(items) = Len(command.sources)
                           /\ n \in Scripts
                      /\ stage = "done" => \A n \in Scripts : written(n)
    BY DEF WrittenInOrder
  <2>1. \A n \in Number : touched(n) => stage \in Writing
    BY DEF FrontInv, Files, Clean, Untouched, Stages, Writing, WithTables, AfterParse
  <2>2. ASSUME stage \in Writing, NEW n \in Scripts \ unwritten PROVE written(n)
    BY <2>2 DEF FrontInv, Files, Written
  <2>3. ASSUME NEW m \in Scripts, NEW n \in Number, touched(n), Rank[m] < Rank[n] PROVE written(m)
    <3>1. stage \in Writing
      BY <2>1, <2>3
    <3>2. \A k \in Number : Rank[k] \in Nat
      BY ItemAssumption
    <3>3. Scripts \subseteq Number /\ unwritten \subseteq Scripts
      BY <3>1, WhileWriting
    <3>4. CASE n \in unwritten
      <4>1. n = Number1 /\ unwritten # {}
        BY <2>3, <3>1, <3>4 DEF FrontInv, Files, Clean, InWork
      <4>2. \A k \in unwritten \ {n} : Rank[n] < Rank[k]
        BY <3>1, <4>1, WhileWriting
      <4>3. m \notin unwritten
        BY <2>3, <3>2, <3>3, <4>2
      <4> QED BY <2>2, <3>1, <4>3
    <3>5. CASE n \notin unwritten
      <4>1. n \in Scripts
        BY <2>3, <3>1, <3>5 DEF FrontInv, Files, Clean
      <4>2. \A k \in unwritten : Rank[n] < Rank[k]
        BY <3>1, <3>5, <4>1 DEF FrontInv, Files
      <4>3. m \notin unwritten
        BY <2>3, <3>2, <3>3, <4>2
      <4> QED BY <2>2, <3>1, <4>3
    <3> QED BY <3>4, <3>5
  <2>4. ASSUME stage \in Writing, NEW source \in DOMAIN items
        PROVE  ~Has(source, Misplaced) /\ (moduleEnvs[ScriptNum(source)] = source =>
                                             ~Has(source, Uncompiled))
    <3>1. TablesBuild /\ CodeBuilds
      BY <2>4 DEF FrontInv, Tables, Writing
    <3>2. ScriptNum(source) \in Scripts
      BY <2>4, WhileWriting DEF EnvFacts
    <3> QED BY <3>1, <3>2 DEF TablesBuild, CodeBuilds
  <2>5. stage \in Writing => Len(items) = Len(command.sources)
    BY DEF FrontInv, Sources, Writing, WithTables
  <2>6. stage = "done" => stage \in Writing /\ unwritten = {}
    BY DEF FrontInv, Files, Writing, WithTables, AfterParse
  <2>7. \A n \in Number : touched(n) => n \in Scripts
    BY <2>1 DEF FrontInv, Files, Clean
  <2> HIDE DEF touched, written
  <2> QED BY <2>1, <2>2, <2>3, <2>4, <2>5, <2>6, <2>7
<1>2. Init => FrontInv
  BY FrontInvBegins
<1>3. FrontInv /\ [Next]_vars => FrontInv'
  BY FrontInvKept
<1> QED BY <1>1, <1>2, <1>3, PTL DEF Spec

(* However many sources have the same number: what its files hold in the   *)
(* end, if they could be written, is the first of them.                    *)
THEOREM FirstOfNumber == Spec => []FirstSourceWins
<1>1. FrontInv => FirstSourceWins
  <2> SUFFICES ASSUME FrontInv, stage = "done", NEW source \in DOMAIN items,
                      NEW file \in {heap, hunk}, file[ScriptNum(source)] # Torn
               PROVE  /\ file[ScriptNum(source)] <= source
                      /\ ScriptNum(file[ScriptNum(source)]) = ScriptNum(source)
    BY DEF FirstSourceWins
  <2>1. stage \in Writing /\ unwritten = {}
    BY DEF FrontInv, Files, Writing, WithTables, AfterParse
  <2>2. EnvFacts
    BY <2>1, WhileWriting
  <2>3. ScriptNum(source) \in Scripts
    BY <2>2 DEF EnvFacts
  <2>4. file[ScriptNum(source)] = moduleEnvs[ScriptNum(source)]
    BY <2>1, <2>3 DEF FrontInv, Files, Written, PutInto
  <2> QED BY <2>2, <2>3, <2>4 DEF EnvFacts
<1>2. Init => FrontInv
  BY FrontInvBegins
<1>3. FrontInv /\ [Next]_vars => FrontInv'
  BY FrontInvKept
<1> QED BY <1>1, <1>2, <1>3, PTL DEF Spec


=============================================================================
