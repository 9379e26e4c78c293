------------------------ MODULE CodeGeneratorProofs ------------------------
(***************************************************************************)
(* For every set of scripts: the lists and references of the code          *)
(* generator are well-formed, all references are bound when the files are  *)
(* written, and they are bound as LateBinding promises.                    *)
(*                                                                         *)
(* What a place points to depends on what waits for which reference, so    *)
(* the invariant says where each reference that was used stands: its       *)
(* place is bound to what the reference was resolved to, or it waits for   *)
(* one that is still open.  As the script makes what it names, none is     *)
(* open at its end.                                                        *)
(***************************************************************************)
EXTENDS LoadedScript, Induction, SequenceTheorems, FiniteSetTheorems, TLAPS

(* Whoever waits was made, and waits for an open reference.                *)
WaitingInv ==
  \A n \in Names : \A s \in waiting[n] :
    /\ s \in 1..(next - 1)
    /\ Refers(script[s]) /\ script[s].name = n
    /\ ~IsResolved(n)
    /\ target[s] = Unresolved

(* A reference is resolved to the call that makes what it names, as soon   *)
(* as that was made.                                                       *)
ValueInv ==
  /\ \A n \in Names : IsResolved(n) =>
       /\ value[n] \in 1..(next - 1)
       /\ Creates(script[value[n]]) /\ script[value[n]].name = n
  /\ \A k \in 1..(next - 1) : Creates(script[k]) => value[script[k].name] = k

(* A place that refers to something is bound to that or waits for it; no   *)
(* other place is bound.                                                   *)
TargetInv ==
  /\ \A s \in 1..(next - 1) : Refers(script[s]) =>
       \/ s \in waiting[script[s].name]
       \/ /\ IsResolved(script[s].name)
          /\ target[s] = value[script[s].name]
  /\ \A s \in Sites : target[s] # Unresolved =>
       s \in 1..(next - 1) /\ Refers(script[s])

ScriptInv ==
  /\ script \in Scripts
  /\ phase # "building" => next = Len(script) + 1

(* The references and the places, apart from the lists of the generator.   *)
RefsInv ==
  /\ next \in 1..(Len(script) + 1)
  /\ RefsTypeOK
  /\ ScriptInv /\ WaitingInv /\ ValueInv /\ TargetInv

IInv == TypeOK /\ RefsInv

(* A call was made, and it is behind the cursor now.                       *)
Stepped ==
  /\ phase = "building"
  /\ next <= Len(script)
  /\ next' = next + 1
  /\ UNCHANGED <<script, phase>>

(* What LateBinding allows in a step.                                      *)
LEMMA BindFacts ==
  ASSUME UNCHANGED script, target' \in [Sites -> Nodes \cup {Unresolved}],
         \A s \in Sites : target'[s] # target[s] =>
           target[s] = Unresolved /\ target'[s] = Meant[s]
  PROVE  Binding!Bind
BY DEF Binding!Bind, Meant, MeantIn

(* A name stands for the one call that makes it.                           *)
LEMMA MeantFacts ==
  ASSUME script \in Scripts,
         NEW s \in 1..Len(script), Refers(script[s]),
         NEW k \in 1..Len(script), Creates(script[k]), script[k].name = script[s].name
  PROVE  Meant[s] = k
<1>1. IsScript(script)
  BY ScriptsAssumption
<1>2. s \in Sites
  BY <1>1 DEF IsScript, NamesAreFound
<1>3. \A j \in 1..Len(script) :
        Creates(script[j]) /\ script[j].name = script[s].name => j = k
  BY <1>1 DEF IsScript, NamesAreFound
<1>. QED
  BY <1>2, <1>3 DEF Meant, MeantIn

(* What names stand for depends on the script alone.                       *)
LEMMA UnchangedFacts ==
  ASSUME UNCHANGED script
  PROVE  UNCHANGED Meant
BY DEF Meant

(* No call both makes and names something.                                 *)
LEMMA CallFacts ==
  ASSUME NEW call
  PROVE  ~(Creates(call) /\ Refers(call))
BY DEF Creates, Refers

-----------------------------------------------------------------------------
(* A call that has nothing to do with names leaves all references as they  *)
(* are.                                                                    *)
LEMMA OtherCallStep ==
  ASSUME RefsInv, Stepped, UNCHANGED refVars,
         ~Creates(This), ~Refers(This)
  PROVE  RefsInv' /\ Binding!Bind
<1>1. Len(script) \in Nat
  BY ScriptsAssumption DEF RefsInv, ScriptInv
<1>2. next' \in 1..(Len(script) + 1)
  BY <1>1 DEF RefsInv, Stepped
<1>3. /\ RefsTypeOK' /\ ScriptInv'
  BY DEF RefsInv, Stepped, refVars, RefsTypeOK, ScriptInv
<1>4. WaitingInv'
  BY <1>1 DEF RefsInv, Stepped, refVars, WaitingInv, IsResolved
<1>5. ValueInv'
  BY <1>1 DEF RefsInv, Stepped, refVars, ValueInv, IsResolved, This
<1>6. TargetInv'
  BY <1>1 DEF RefsInv, Stepped, refVars, TargetInv, IsResolved, This
<1>7. Binding!Bind
  BY BindFacts DEF RefsInv, RefsTypeOK, Stepped, refVars
<1>. QED
  BY <1>1, <1>2, <1>3, <1>4, <1>5, <1>6, <1>7 DEF RefsInv, Stepped

(* A call that makes something resolves its reference, and binds the       *)
(* places that have waited for it.                                         *)
LEMMA CreatingCallStep ==
  ASSUME RefsInv, Stepped, Resolve(This.name, next), Creates(This)
  PROVE  RefsInv' /\ Binding!Bind
<1> DEFINE n == This.name
<1>1. /\ Len(script) \in Nat
      /\ IsScript(script)
  BY ScriptsAssumption DEF RefsInv, ScriptInv
<1>2. next \in 1..Len(script)
  BY <1>1 DEF RefsInv, Stepped
<1>3. /\ n \in Names
      /\ next \in Nodes /\ next \in Sites
      /\ ~Refers(This)
  BY <1>1, <1>2, CallFacts DEF IsScript, NamesAreFound, This
<1>4. ~IsResolved(n)
  BY <1>1, <1>2, <1>3, SMTT(30) DEF RefsInv, ValueInv, IsScript, NamesAreFound, This
<1>5. /\ value' = [value EXCEPT ![n] = next]
      /\ target' = [s \in Sites |-> IF s \in waiting[n] THEN next ELSE target[s]]
      /\ waiting' = [waiting EXCEPT ![n] = {}]
  <2>1. next # Unresolved
    BY <1>3, UnresolvedAssumption
  <2>. QED
    BY <1>4, <2>1 DEF Resolve, IsResolved
<1>6. RefsTypeOK'
  BY <1>3, <1>5 DEF RefsInv, RefsTypeOK
<1>7. ScriptInv' /\ next' \in 1..(Len(script) + 1)
  BY <1>1, <1>2 DEF RefsInv, Stepped, ScriptInv
<1>8. WaitingInv'
  <2>1. SUFFICES ASSUME NEW m \in Names, NEW s \in waiting'[m]
                 PROVE  /\ s \in 1..(next' - 1)
                        /\ Refers(script'[s]) /\ script'[s].name = m
                        /\ value'[m] # Unresolved => FALSE
                        /\ target'[s] = Unresolved
    BY DEF WaitingInv, IsResolved
  <2>2. m # n /\ s \in waiting[m] /\ s \notin waiting[n] /\ s \in Sites
    BY <1>3, <1>5 DEF RefsInv, RefsTypeOK, WaitingInv
  <2>. QED
    BY <1>1, <1>3, <1>5, <2>2 DEF RefsInv, RefsTypeOK, WaitingInv, Stepped, IsResolved
<1>9. ValueInv'
  <2>1. \A m \in Names : value'[m] = IF m = n THEN next ELSE value[m]
    BY <1>3, <1>5 DEF RefsInv, RefsTypeOK
  <2>2. \A m \in Names : value'[m] # Unresolved =>
          /\ value'[m] \in 1..(next' - 1)
          /\ Creates(script'[value'[m]]) /\ script'[value'[m]].name = m
    BY <1>2, <1>1, <2>1 DEF RefsInv, ValueInv, Stepped, This, IsResolved
  <2>3. ASSUME NEW k \in 1..(next' - 1), Creates(script'[k])
        PROVE  value'[script'[k].name] = k
    <3>1. k \in 1..Len(script)
      BY <1>1, <1>2 DEF Stepped
    <3>2. script[k].name \in Names
      BY <1>1, <2>3, <3>1 DEF IsScript, NamesAreFound, Stepped
    <3>3. CASE k = next
      BY <2>1, <3>2, <3>3 DEF Stepped, This
    <3>4. CASE k \in 1..(next - 1)
      <4>1. script[k].name # n
        BY <1>1, <1>2, <2>3, <3>1, <3>4 DEF IsScript, NamesAreFound, Stepped, This
      <4>. QED
        BY <2>1, <2>3, <3>2, <3>4, <4>1 DEF RefsInv, ValueInv, Stepped
    <3>. QED
      BY <1>1, <1>2, <3>3, <3>4 DEF Stepped
  <2>. QED
    BY <2>2, <2>3 DEF ValueInv, IsResolved
<1>10. TargetInv'
  <2>1. ASSUME NEW s \in 1..(next' - 1), Refers(script'[s])
        PROVE  \/ s \in waiting'[script'[s].name]
               \/ /\ value'[script'[s].name] # Unresolved
                  /\ target'[s] = value'[script'[s].name]
    <3>1. /\ s \in 1..(next - 1) /\ s \in 1..Len(script) /\ s \in Sites
          /\ Refers(script[s]) /\ script[s].name \in Names
      <4>1. s # next
        BY <1>3, <2>1 DEF Stepped, This
      <4>2. s \in 1..(next - 1) /\ s \in 1..Len(script)
        BY <1>1, <1>2, <4>1 DEF Stepped
      <4>. QED
        BY <1>1, <2>1, <4>2 DEF IsScript, NamesAreFound, Stepped
    <3>2. CASE s \in waiting[script[s].name]
      BY <1>2, <1>3, <1>5, <3>1, <3>2, UnresolvedAssumption DEF RefsInv, RefsTypeOK, Stepped
    <3>3. CASE s \notin waiting[script[s].name]
      <4>1. IsResolved(script[s].name) /\ target[s] = value[script[s].name]
        BY <3>1, <3>3 DEF RefsInv, TargetInv
      <4>2. script[s].name # n
        BY <1>4, <4>1
      <4>3. s \notin waiting[n]
        BY <1>3, <4>2 DEF RefsInv, WaitingInv
      <4>. QED
        BY <1>3, <1>5, <3>1, <4>1, <4>2, <4>3 DEF RefsInv, RefsTypeOK, Stepped, IsResolved
    <3>. QED
      BY <3>2, <3>3
  <2>2. ASSUME NEW s \in Sites, target'[s] # Unresolved
        PROVE  s \in 1..(next' - 1) /\ Refers(script'[s])
    BY <1>1, <1>2, <1>3, <1>5, <2>2 DEF RefsInv, WaitingInv, TargetInv, Stepped
  <2>. QED
    BY <2>1, <2>2 DEF TargetInv, IsResolved
<1>11. Binding!Bind
  <2>1. ASSUME NEW s \in Sites, target'[s] # target[s]
        PROVE  target[s] = Unresolved /\ target'[s] = Meant[s]
    <3>1. s \in waiting[n] /\ target'[s] = next
      BY <1>5, <2>1
    <3>2. /\ s \in 1..Len(script) /\ Refers(script[s]) /\ script[s].name = n
          /\ target[s] = Unresolved
      BY <1>1, <1>2, <1>3, <3>1 DEF RefsInv, WaitingInv
    <3>3. Meant[s] = next
      BY <1>2, <3>2, MeantFacts DEF RefsInv, ScriptInv, This
    <3>. QED
      BY <3>1, <3>2, <3>3
  <2>. QED
    BY <1>6, <2>1, BindFacts DEF RefsTypeOK, Stepped
<1>. QED
  BY <1>6, <1>7, <1>8, <1>9, <1>10, <1>11 DEF RefsInv, Stepped

(* A call that names something binds its place at once, or has it wait.    *)
LEMMA NamingCallStep ==
  ASSUME RefsInv, Stepped, RegisterCallback(This.name, next), Refers(This)
  PROVE  RefsInv' /\ Binding!Bind
<1> DEFINE n == This.name
<1>1. /\ Len(script) \in Nat
      /\ IsScript(script)
  BY ScriptsAssumption DEF RefsInv, ScriptInv
<1>2. next \in 1..Len(script)
  BY <1>1 DEF RefsInv, Stepped
<1>3. /\ n \in Names
      /\ next \in Nodes /\ next \in Sites
      /\ ~Creates(This)
  BY <1>1, <1>2, CallFacts DEF IsScript, NamesAreFound, This
<1>4. target[next] = Unresolved
  BY <1>1, <1>2, <1>3 DEF RefsInv, TargetInv
<1>5. \A m \in Names : next \notin waiting[m]
  BY <1>2 DEF RefsInv, WaitingInv
<1>6. ScriptInv' /\ next' \in 1..(Len(script) + 1)
  BY <1>1, <1>2 DEF RefsInv, Stepped, ScriptInv
<1>7. value' = value
  BY DEF RegisterCallback
<1>8. ValueInv'
  BY <1>1, <1>2, <1>3, <1>7 DEF RefsInv, ValueInv, Stepped, This, IsResolved
<1>9. CASE IsResolved(n)
  <2>1. /\ target' = [target EXCEPT ![next] = value[n]]
        /\ waiting' = waiting
    BY <1>9 DEF RegisterCallback
  <2>2. /\ value[n] \in 1..(next - 1)
        /\ Creates(script[value[n]]) /\ script[value[n]].name = n
    BY <1>3, <1>9 DEF RefsInv, ValueInv
  <2>3. RefsTypeOK'
    BY <1>3, <1>7, <2>1 DEF RefsInv, RefsTypeOK
  <2>4. WaitingInv'
    BY <1>1, <1>2, <1>3, <1>5, <1>7, <2>1
       DEF RefsInv, RefsTypeOK, WaitingInv, Stepped, IsResolved
  <2>5. TargetInv'
    <3>1. ASSUME NEW s \in 1..(next' - 1), Refers(script'[s])
          PROVE  \/ s \in waiting'[script'[s].name]
                 \/ /\ value'[script'[s].name] # Unresolved
                    /\ target'[s] = value'[script'[s].name]
      <4>1. CASE s = next
        BY <1>3, <1>7, <1>9, <2>1, <4>1 DEF RefsInv, RefsTypeOK, Stepped, This, IsResolved
      <4>2. CASE s \in 1..(next - 1)
        <5>1. s # next /\ Refers(script[s])
          BY <1>2, <3>1, <4>2 DEF Stepped
        <5>2. target'[s] = target[s]
          BY <2>1, <5>1 DEF RefsInv, RefsTypeOK
        <5>. QED
          BY <1>7, <2>1, <4>2, <5>1, <5>2 DEF RefsInv, TargetInv, Stepped, IsResolved
      <4>. QED
        BY <1>1, <1>2, <4>1, <4>2 DEF Stepped
    <3>2. ASSUME NEW s \in Sites, target'[s] # Unresolved
          PROVE  s \in 1..(next' - 1) /\ Refers(script'[s])
      <4>1. CASE s = next
        BY <1>2, <4>1 DEF Stepped, This
      <4>2. CASE s # next
        BY <1>1, <1>2, <2>1, <3>2, <4>2 DEF RefsInv, RefsTypeOK, TargetInv, Stepped
      <4>. QED
        BY <4>1, <4>2
    <3>. QED
      BY <3>1, <3>2 DEF TargetInv, IsResolved
  <2>6. Binding!Bind
    <3>1. Meant[next] = value[n]
      BY <1>1, <1>2, <2>2, MeantFacts DEF RefsInv, ScriptInv, This
    <3>2. ASSUME NEW s \in Sites, target'[s] # target[s]
          PROVE  target[s] = Unresolved /\ target'[s] = Meant[s]
      BY <1>4, <2>1, <3>1, <3>2 DEF RefsInv, RefsTypeOK
    <3>. QED
      BY <2>3, <3>2, BindFacts DEF RefsTypeOK, Stepped
  <2>. QED
    BY <1>6, <1>8, <2>3, <2>4, <2>5, <2>6 DEF RefsInv, Stepped
<1>10. CASE ~IsResolved(n)
  <2>1. /\ waiting' = [waiting EXCEPT ![n] = @ \cup {next}]
        /\ target' = target
    BY <1>10 DEF RegisterCallback
  <2>2. RefsTypeOK'
    BY <1>3, <1>7, <2>1 DEF RefsInv, RefsTypeOK
  <2>3. WaitingInv'
    <3>1. SUFFICES ASSUME NEW m \in Names, NEW s \in waiting'[m]
                   PROVE  /\ s \in 1..(next' - 1)
                          /\ Refers(script'[s]) /\ script'[s].name = m
                          /\ value'[m] # Unresolved => FALSE
                          /\ target'[s] = Unresolved
      BY DEF WaitingInv, IsResolved
    <3>2. CASE s \in waiting[m]
      BY <1>1, <1>2, <1>7, <2>1, <3>2 DEF RefsInv, WaitingInv, Stepped, IsResolved
    <3>3. CASE s \notin waiting[m]
      <4>1. m = n /\ s = next
        BY <1>3, <2>1, <3>1, <3>3 DEF RefsInv, RefsTypeOK
      <4>. QED
        BY <1>2, <1>4, <1>7, <1>10, <2>1, <4>1 DEF Stepped, This, IsResolved
    <3>. QED
      BY <3>2, <3>3
  <2>4. TargetInv'
    <3>1. ASSUME NEW s \in 1..(next' - 1), Refers(script'[s])
          PROVE  \/ s \in waiting'[script'[s].name]
                 \/ /\ value'[script'[s].name] # Unresolved
                    /\ target'[s] = value'[script'[s].name]
      <4>1. CASE s = next
        BY <1>3, <2>1, <4>1 DEF RefsInv, RefsTypeOK, Stepped, This
      <4>2. CASE s \in 1..(next - 1)
        <5>1. Refers(script[s]) /\ script[s].name \in Names
          BY <1>1, <1>2, <3>1, <4>2 DEF IsScript, NamesAreFound, Stepped
        <5>2. waiting[script[s].name] \subseteq waiting'[script[s].name]
          BY <2>1, <5>1 DEF RefsInv, RefsTypeOK
        <5>. QED
          BY <1>7, <2>1, <4>2, <5>1, <5>2 DEF RefsInv, TargetInv, Stepped, IsResolved
      <4>. QED
        BY <1>1, <1>2, <4>1, <4>2 DEF Stepped
    <3>2. ASSUME NEW s \in Sites, target'[s] # Unresolved
          PROVE  s \in 1..(next' - 1) /\ Refers(script'[s])
      BY <1>1, <1>2, <2>1, <3>2 DEF RefsInv, TargetInv, Stepped
    <3>. QED
      BY <3>1, <3>2 DEF TargetInv, IsResolved
  <2>5. Binding!Bind
    BY <2>1, <2>2, BindFacts DEF RefsTypeOK, Stepped
  <2>. QED
    BY <1>6, <1>8, <2>2, <2>3, <2>4, <2>5 DEF RefsInv, Stepped
<1>. QED
  BY <1>9, <1>10

-----------------------------------------------------------------------------
(* The lists hold calls already made, and one more call is added.          *)
LEMMA AppendFacts ==
  ASSUME NEW m \in Nat, NEW list \in Seq(1..(m - 1)), m >= 1
  PROVE  /\ list \in Seq(1..m)
         /\ Append(list, m) \in Seq(1..m)
<1>1. 1..(m - 1) \subseteq 1..m
  OBVIOUS
<1>2. list \in Seq(1..m)
  BY <1>1, SeqMonotonic
<1>. QED
  BY <1>2, m \in 1..m

(* A table that has grown is a table of old and new entries, and long      *)
(* enough.                                                                 *)
LEMMA GrownFacts ==
  ASSUME NEW S, NEW table \in Seq(S), NEW n \in Nat, NEW entry \in S
  PROVE  /\ Grown(table, n, entry) \in Seq(S)
         /\ n <= Len(Grown(table, n, entry))
<1> DEFINE k == IF n > Len(table) THEN n - Len(table) ELSE 0
           more == [i \in 1..k |-> entry]
<1>1. Len(table) \in Nat /\ k \in Nat
  BY LenProperties
<1>2. more \in [1..k -> S]
  OBVIOUS
<1>3. more \in Seq(S) /\ Len(more) = k
  BY <1>1, <1>2, SeqDef
<1>4. table \o more \in Seq(S) /\ Len(table \o more) = Len(table) + k
  BY <1>3, ConcatProperties
<1>5. Grown(table, n, entry) = table \o more
  BY DEF Grown
<1>. QED
  BY <1>1, <1>4, <1>5

(* The initial state satisfies the invariant.                              *)
LEMMA InitInv ==
  ASSUME Init
  PROVE  IInv /\ Binding!Init
<1>1. Len(script) \in Nat
  BY ScriptsAssumption DEF Init
<1>2. TypeOK
  BY <1>1, EmptySeq DEF Init, TypeOK, InitRefs, RefsTypeOK
<1>3. RefsInv
  BY <1>1 DEF Init, RefsInv, InitRefs, RefsTypeOK, ScriptInv, WaitingInv, ValueInv,
              TargetInv, IsResolved
<1>4. Binding!Init
  BY DEF Init, InitRefs, Binding!Init
<1>. QED
  BY <1>2, <1>3, <1>4 DEF IInv

(* The lists in the invariant, after a step in which a call was made.      *)
ListsOK ==
  /\ texts \in Seq(1..(next - 1))
  /\ code \in Seq(1..(next - 1))
  /\ dispatches \in Seq(0..(next - 1))

LEMMA CalledFacts ==
  ASSUME IInv, NEW kinds, Called(kinds)
  PROVE  /\ Stepped
         /\ next \in 1..Len(script) /\ next \in Nat /\ next' = next + 1
         /\ This.op \in kinds /\ This.num \in Nat
         /\ texts \in Seq(1..(next' - 1)) /\ Append(texts, next) \in Seq(1..(next' - 1))
         /\ code \in Seq(1..(next' - 1)) /\ Append(code, next) \in Seq(1..(next' - 1))
         /\ dispatches \in Seq(0..(next' - 1))
<1>1. Len(script) \in Nat /\ IsScript(script)
  BY ScriptsAssumption DEF IInv, RefsInv, ScriptInv
<1>2. /\ Stepped /\ next' = next + 1 /\ This.op \in kinds
      /\ next \in 1..Len(script) /\ next \in Nat
  BY <1>1 DEF IInv, RefsInv, Called, Stepped
<1>3. This.num \in Nat
  BY <1>1, <1>2 DEF IsScript, NamesAreFound, This
<1>4. next' - 1 = next
  BY <1>2
<1>5. /\ texts \in Seq(1..next) /\ Append(texts, next) \in Seq(1..next)
      /\ code \in Seq(1..next) /\ Append(code, next) \in Seq(1..next)
  <2>1. texts \in Seq(1..(next - 1)) /\ code \in Seq(1..(next - 1))
    BY DEF IInv, TypeOK
  <2>2. next >= 1
    BY <1>1, <1>2
  <2>. QED
    BY <1>2, <2>1, <2>2, AppendFacts
<1>6. dispatches \in Seq(0..next)
  <2>1. 0..(next - 1) \subseteq 0..next
    BY <1>2
  <2>. QED
    BY <2>1, SeqMonotonic DEF IInv, TypeOK
<1>. QED
  BY <1>2, <1>3, <1>4, <1>5, <1>6

(* A call that has been made leaves the invariant if its part with the     *)
(* references does and the lists are well-formed.                          *)
LEMMA CombineFacts ==
  ASSUME IInv, Stepped, RefsInv', ListsOK'
  PROVE  IInv'
BY DEF IInv, TypeOK, RefsInv, ListsOK, Stepped

(* Every step keeps the invariant, and is one of LateBinding or leaves its *)
(* places alone.                                                           *)
LEMMA NextInv ==
  ASSUME IInv, [Next]_vars
  PROVE  IInv' /\ [Binding!Bind]_<<Meant, target>>
<1>1. CASE SetVar
  <2>1. Called({"SetVar"})
    BY <1>1 DEF SetVar
  <2>2. RefsInv' /\ Binding!Bind
    BY <1>1, <2>1, CalledFacts, OtherCallStep DEF SetVar, IInv, Creates, Refers
  <2>3. ListsOK'
    BY <1>1, <2>1, CalledFacts DEF SetVar, ListsOK
  <2>. QED
    BY <2>1, <2>2, <2>3, CalledFacts, CombineFacts
<1>2. CASE AddTextNode
  <2>1. Called({"AddTextNode"})
    BY <1>2 DEF AddTextNode
  <2>2. RefsInv' /\ Binding!Bind
    BY <1>2, <2>1, CalledFacts, OtherCallStep, SMTT(30) DEF AddTextNode, IInv, Creates, Refers
  <2>3. ListsOK'
    BY <1>2, <2>1, CalledFacts DEF AddTextNode, ListsOK
  <2>. QED
    BY <2>1, <2>2, <2>3, CalledFacts, CombineFacts
<1>3. CASE CreateObject
  <2>1. Called({"CreateObject", "CreateClass"})
    BY <1>3 DEF CreateObject, ObjectKinds
  <2>2. RefsInv' /\ Binding!Bind
    BY <1>3, <2>1, CalledFacts, CreatingCallStep DEF CreateObject, IInv, Creates
  <2>3. ListsOK'
    BY <1>3, <2>1, CalledFacts DEF CreateObject, ListsOK
  <2>. QED
    BY <2>1, <2>2, <2>3, CalledFacts, CombineFacts
<1>4. CASE AppendProperty
  <2>1. Called({"AppendProperty", "AppendPropTableProperty", "AppendMethodTableProperty"})
    BY <1>4 DEF AppendProperty, PropKinds
  <2>2. RefsInv' /\ Binding!Bind
    <3>1. ~Creates(This) /\ ~Refers(This)
      BY <2>1 DEF Called, Creates, Refers
    <3>2. UNCHANGED refVars
      BY <1>4 DEF AppendProperty
    <3>. QED
      BY <2>1, <3>1, <3>2, CalledFacts, OtherCallStep DEF IInv
  <2>3. ListsOK'
    BY <1>4, <2>1, CalledFacts DEF AppendProperty, ListsOK
  <2>. QED
    BY <2>1, <2>2, <2>3, CalledFacts, CombineFacts
<1>5. CASE AppendMethod
  <2>1. Called({"AppendMethod"})
    BY <1>5 DEF AppendMethod
  <2>2. RefsInv' /\ Binding!Bind
    BY <1>5, <2>1, CalledFacts, NamingCallStep DEF AppendMethod, IInv, Refers
  <2>3. ListsOK'
    BY <1>5, <2>1, CalledFacts DEF AppendMethod, ListsOK
  <2>. QED
    BY <2>1, <2>2, <2>3, CalledFacts, CombineFacts
<1>6. CASE CreateFunction
  <2>1. Called({"CreateFunction"})
    BY <1>6 DEF CreateFunction
  <2>2. RefsInv' /\ Binding!Bind
    BY <1>6, <2>1, CalledFacts, CreatingCallStep DEF CreateFunction, IInv, Creates
  <2>3. ListsOK'
    BY <1>6, <2>1, CalledFacts DEF CreateFunction, ListsOK
  <2>. QED
    BY <2>1, <2>2, <2>3, CalledFacts, CombineFacts
<1>7. CASE AddOp
  <2>1. Called({"AddOp", "AddLoadImmediate"})
    BY <1>7 DEF AddOp
  <2>2. RefsInv' /\ Binding!Bind
    <3>1. ~Creates(This) /\ ~Refers(This)
      BY <2>1 DEF Called, Creates, Refers
    <3>2. UNCHANGED refVars
      BY <1>7 DEF AddOp
    <3>. QED
      BY <2>1, <3>1, <3>2, CalledFacts, OtherCallStep DEF IInv
  <2>3. ListsOK'
    BY <1>7, <2>1, CalledFacts DEF AddOp, ListsOK
  <2>. QED
    BY <2>1, <2>2, <2>3, CalledFacts, CombineFacts
<1>8. CASE AddReference
  <2>1. Called({"AddLoadOffsetTo", "AddProcCall"})
    BY <1>8 DEF AddReference
  <2>2. RefsInv' /\ Binding!Bind
    BY <1>8, <2>1, CalledFacts, NamingCallStep DEF AddReference, IInv, Refers
  <2>3. ListsOK'
    BY <1>8, <2>1, CalledFacts DEF AddReference, ListsOK
  <2>. QED
    BY <2>1, <2>2, <2>3, CalledFacts, CombineFacts
<1>9. CASE AddPublic
  <2> DEFINE grown == Grown(dispatches, This.num + 1, 0)
  <2>1. Called({"AddPublic"})
    BY <1>9 DEF AddPublic
  <2>2. RefsInv' /\ Binding!Bind
    BY <1>9, <2>1, CalledFacts, NamingCallStep DEF AddPublic, IInv, Refers
  <2>3. /\ next \in Nat /\ next' - 1 = next /\ next \in 0..next /\ 0 \in 0..next
        /\ This.num \in Nat /\ dispatches \in Seq(0..next)
    BY <2>1, CalledFacts
  <2>4. grown \in Seq(0..next) /\ This.num + 1 <= Len(grown)
    BY <2>3, GrownFacts
  <2>5. This.num + 1 \in 1..Len(grown)
    BY <2>3, <2>4, LenProperties
  <2>6. dispatches' \in Seq(0..(next' - 1))
    <3>. HIDE DEF grown
    <3>1. [grown EXCEPT ![This.num + 1] = next] \in Seq(0..next)
      BY <2>3, <2>4, <2>5, ExceptSeq
    <3>. QED
      BY <1>9, <2>3, <3>1 DEF AddPublic, grown
  <2>7. ListsOK'
    BY <1>9, <2>1, <2>6, CalledFacts DEF AddPublic, ListsOK
  <2>. QED
    BY <2>1, <2>2, <2>7, CalledFacts, CombineFacts
<1>10. CASE LayOut
  <2>1. /\ next > Len(script) /\ phase' = "laid out"
        /\ UNCHANGED <<script, next, listVars, refVars>>
    BY <1>10 DEF LayOut
  <2>2. next = Len(script) + 1
    <3>1. Len(script) \in Nat /\ next \in 1..(Len(script) + 1)
      BY ScriptsAssumption DEF IInv, RefsInv, ScriptInv
    <3>2. next > Len(script)
      BY <2>1
    <3>. QED
      BY <3>1, <3>2
  <2>3. RefsInv' /\ TypeOK'
    BY <2>1, <2>2, ZenonT(30) DEF IInv, TypeOK, RefsInv, refVars, listVars, RefsTypeOK, ScriptInv,
                      WaitingInv, ValueInv, TargetInv, IsResolved
  <2>4. UNCHANGED <<Meant, target>>
    BY <2>1, UnchangedFacts DEF refVars
  <2>. QED
    BY <2>3, <2>4 DEF IInv
<1>11. CASE EmitHeap \/ EmitHunk
  <2>1. /\ UNCHANGED <<script, next, listVars, refVars>>
        /\ phase # "building" /\ phase' \in {"heap written", "done"}
    BY <1>11 DEF EmitHeap, EmitHunk, Emit
  <2>2. RefsInv' /\ TypeOK'
    BY <2>1 DEF IInv, TypeOK, RefsInv, refVars, listVars, RefsTypeOK, ScriptInv,
                WaitingInv, ValueInv, TargetInv, IsResolved
  <2>3. UNCHANGED <<Meant, target>>
    BY <2>1, UnchangedFacts DEF refVars
  <2>. QED
    BY <2>2, <2>3 DEF IInv
<1>12. CASE UNCHANGED vars
  <2>1. RefsInv' /\ TypeOK'
    BY <1>12 DEF vars, IInv, TypeOK, RefsInv, refVars, listVars, RefsTypeOK, ScriptInv,
                 WaitingInv, ValueInv, TargetInv, IsResolved
  <2>2. UNCHANGED <<Meant, target>>
    BY <1>12, UnchangedFacts DEF vars, refVars
  <2>. QED
    BY <2>1, <2>2 DEF IInv
<1>. QED
  BY <1>1, <1>2, <1>3, <1>4, <1>5, <1>6, <1>7, <1>8, <1>9, <1>10, <1>11, <1>12 DEF Next

-----------------------------------------------------------------------------
(* The invariant holds in every state.                                     *)
THEOREM Invariance == Spec => []IInv
<1>1. Init => IInv
  BY InitInv
<1>2. IInv /\ [Next]_vars => IInv'
  BY NextInv
<1>. QED
  BY <1>1, <1>2, PTL DEF Spec

(* The type invariant, for every set of scripts.                           *)
THEOREM TypeCorrectness == Spec => []TypeOK
<1>1. IInv => TypeOK
  BY DEF IInv
<1>. QED
  BY <1>1, Invariance, PTL

(* At the end of a script nothing waits.                                   *)
LEMMA IInvBinds ==
  ASSUME IInv
  PROVE  AllBound
<1>1. SUFFICES ASSUME phase # "building",
                      NEW s \in 1..Len(script), Refers(script[s])
               PROVE  target[s] = Meant[s]
  BY DEF AllBound
<1>2. /\ next = Len(script) + 1 /\ Len(script) \in Nat
      /\ IsScript(script)
  BY <1>1, ScriptsAssumption DEF IInv, RefsInv, ScriptInv
<1>3. PICK k \in 1..Len(script) : Creates(script[k]) /\ script[k].name = script[s].name
  BY <1>1, <1>2 DEF IsScript, NamesAreFound
<1>4. k \in Nodes /\ script[k].name \in Names
  BY <1>2, <1>3 DEF IsScript, NamesAreFound
<1>5. value[script[s].name] = k
  BY <1>1, <1>2, <1>3 DEF IInv, RefsInv, ValueInv
<1>6. IsResolved(script[s].name)
  BY <1>4, <1>5, UnresolvedAssumption DEF IsResolved
<1>7. target[s] = k
  BY <1>1, <1>2, <1>3, <1>4, <1>5, <1>6 DEF IInv, RefsInv, TargetInv, WaitingInv
<1>. QED
  BY <1>1, <1>3, <1>7, MeantFacts DEF IInv, RefsInv, ScriptInv

(* Whatever a script defines and uses, and in whatever order: when         *)
(* Assemble runs, every reference is bound to what its name stands for.    *)
THEOREM ReferencesBound == Spec => []AllBound
<1>1. IInv => AllBound
  BY IInvBinds
<1>. QED
  BY <1>1, Invariance, PTL

(* The references of the code generator implement LateBinding.             *)
THEOREM ImplementsLateBinding == Spec => BindsLate
<1>1. Init => Binding!Init
  BY InitInv
<1>2. IInv /\ [Next]_vars => [Binding!Bind]_<<Meant, target>>
  BY NextInv
<1>. QED
  BY <1>1, <1>2, Invariance, PTL DEF Spec, BindsLate, Binding!Spec

-----------------------------------------------------------------------------
(* Sequences made of others: part stands in whole, behind n elements.      *)
IsAt(part, n, whole) ==
  /\ n \in Nat /\ n + Len(part) <= Len(whole)
  /\ \A k \in 1..Len(part) : whole[n + k] = part[k]

LEMMA AtAt ==
  ASSUME NEW S, NEW a \in Seq(S), NEW b \in Seq(S), NEW c \in Seq(S),
         NEW n, NEW m, IsAt(a, n, b), IsAt(b, m, c)
  PROVE  IsAt(a, m + n, c)
<1>1. Len(a) \in Nat /\ Len(b) \in Nat /\ Len(c) \in Nat /\ n \in Nat /\ m \in Nat
  BY LenProperties DEF IsAt
<1>2. m + n \in Nat /\ (m + n) + Len(a) <= Len(c)
  BY <1>1 DEF IsAt
<1>3. ASSUME NEW k \in 1..Len(a) PROVE c[(m + n) + k] = a[k]
  <2>1. n + k \in 1..Len(b) /\ b[n + k] = a[k]
    BY <1>1 DEF IsAt
  <2>2. c[m + (n + k)] = b[n + k]
    BY <2>1 DEF IsAt
  <2>3. m + (n + k) = (m + n) + k
    BY <1>1
  <2>. QED
    BY <2>1, <2>2, <2>3
<1>. QED
  BY <1>2, <1>3 DEF IsAt

LEMMA AtConcat ==
  ASSUME NEW S, NEW a \in Seq(S), NEW b \in Seq(S)
  PROVE  /\ a \o b \in Seq(S) /\ Len(a \o b) = Len(a) + Len(b)
         /\ IsAt(a, 0, a \o b) /\ IsAt(b, Len(a), a \o b)
         /\ \A x \in 1..Len(a \o b) : x \in 1..Len(a) \/ \E k \in 1..Len(b) : x = Len(a) + k
<1>1. Len(a) \in Nat /\ Len(b) \in Nat
  BY LenProperties
<1>2. /\ a \o b \in Seq(S) /\ Len(a \o b) = Len(a) + Len(b)
      /\ \A i \in 1..(Len(a) + Len(b)) :
           (a \o b)[i] = IF i <= Len(a) THEN a[i] ELSE b[i - Len(a)]
  BY ConcatProperties
<1>3. IsAt(a, 0, a \o b)
  BY <1>1, <1>2 DEF IsAt
<1>4. IsAt(b, Len(a), a \o b)
  <2>1. ASSUME NEW k \in 1..Len(b) PROVE (a \o b)[Len(a) + k] = b[k]
    <3>1. Len(a) + k \in 1..(Len(a) + Len(b)) /\ ~(Len(a) + k <= Len(a)) /\ (Len(a) + k) - Len(a) = k
      BY <1>1
    <3>. QED
      BY <1>2, <3>1
  <2>. QED
    BY <1>1, <1>2, <2>1 DEF IsAt
<1>5. ASSUME NEW x \in 1..Len(a \o b)
      PROVE  x \in 1..Len(a) \/ \E k \in 1..Len(b) : x = Len(a) + k
  <2>1. x \in 1..Len(a) \/ (x - Len(a) \in 1..Len(b) /\ x = Len(a) + (x - Len(a)))
    BY <1>1, <1>2
  <2>. QED
    BY <2>1
<1>. QED
  BY <1>2, <1>3, <1>4, <1>5

(* flat is the first n of the sequences, one behind the other; begin says  *)
(* where each of them stands.                                              *)
IsFlat(flat, begin, seqs, n) ==
  /\ begin \in [1..(n + 1) -> Nat] /\ begin[1] = 0
  /\ \A i \in 1..n : begin[i + 1] = begin[i] + Len(seqs[i]) /\ IsAt(seqs[i], begin[i], flat)
  /\ Len(flat) = begin[n + 1]
  /\ \A x \in 1..Len(flat) : \E i \in 1..n : \E k \in 1..Len(seqs[i]) : x = begin[i] + k

LEMMA FlatNext ==
  ASSUME NEW S, NEW seqs \in Seq(Seq(S)), NEW n \in Nat, n < Len(seqs),
         NEW flat \in Seq(S), NEW begin, IsFlat(flat, begin, seqs, n)
  PROVE  \E more : IsFlat(flat \o seqs[n + 1], more, seqs, n + 1)
<1> DEFINE new == seqs[n + 1]
           longer == flat \o new
           more == [i \in 1..(n + 2) |-> IF i = n + 2 THEN begin[n + 1] + Len(new) ELSE begin[i]]
<1>1. /\ Len(seqs) \in Nat /\ n + 1 \in 1..Len(seqs) /\ new \in Seq(S)
      /\ \A i \in 1..n : seqs[i] \in Seq(S)
  <2>1. Len(seqs) \in Nat /\ \A i \in 1..Len(seqs) : seqs[i] \in Seq(S)
    BY LenProperties, ElementOfSeq
  <2>. QED
    BY <2>1
<1>2. Len(new) \in Nat /\ Len(flat) \in Nat /\ \A i \in 1..n : Len(seqs[i]) \in Nat
  BY <1>1, LenProperties
<1>3. begin \in [1..(n + 1) -> Nat] /\ begin[1] = 0 /\ begin[n + 1] = Len(flat)
  BY DEF IsFlat
<1>4. /\ more \in [1..(n + 2) -> Nat] /\ more[n + 2] = Len(flat) + Len(new)
      /\ \A i \in 1..(n + 1) : more[i] = begin[i]
  <2>1. \A i \in 1..(n + 2) : i # n + 2 => i \in 1..(n + 1)
    OBVIOUS
  <2>. QED
    BY <1>2, <1>3, <2>1
<1>5. /\ longer \in Seq(S) /\ Len(longer) = Len(flat) + Len(new)
      /\ IsAt(flat, 0, longer) /\ IsAt(new, Len(flat), longer)
      /\ \A x \in 1..Len(longer) :
           x \in 1..Len(flat) \/ \E k \in 1..Len(new) : x = Len(flat) + k
  BY <1>1, AtConcat
<1> HIDE DEF longer, more
<1>6. more[1] = 0
  BY <1>3, <1>4
<1>7. ASSUME NEW i \in 1..(n + 1)
      PROVE  more[i + 1] = more[i] + Len(seqs[i]) /\ IsAt(seqs[i], more[i], longer)
  <2>1. CASE i = n + 1
    <3>1. i + 1 = n + 2 /\ seqs[i] = new /\ more[i] = begin[i]
      BY <1>4, <2>1
    <3>2. more[i] = Len(flat)
      BY <1>3, <2>1, <3>1
    <3>3. more[i + 1] = more[i] + Len(seqs[i])
      <4> HIDE DEF new
      <4>. QED
        BY <1>4, <3>1, <3>2
    <3>4. IsAt(seqs[i], more[i], longer)
      <4> HIDE DEF new
      <4>. QED
        BY <1>5, <3>1, <3>2
    <3>. QED
      BY <3>3, <3>4
  <2>2. CASE i # n + 1
    <3>1. i \in 1..n /\ i + 1 \in 1..(n + 1)
      BY <2>2
    <3>2. begin[i + 1] = begin[i] + Len(seqs[i]) /\ IsAt(seqs[i], begin[i], flat)
      BY <3>1 DEF IsFlat
    <3>3. IsAt(seqs[i], 0 + begin[i], longer)
      BY <1>1, <1>5, <3>1, <3>2, AtAt
    <3>4. 0 + begin[i] = begin[i]
      BY <1>3
    <3>. QED
      BY <1>4, <3>1, <3>2, <3>3, <3>4
  <2>. QED
    BY <2>1, <2>2
<1>8. ASSUME NEW x \in 1..Len(longer)
      PROVE  \E i \in 1..(n + 1) : \E k \in 1..Len(seqs[i]) : x = more[i] + k
  <2>1. CASE x \in 1..Len(flat)
    <3>1. PICK i \in 1..n : \E k \in 1..Len(seqs[i]) : x = begin[i] + k
      BY <2>1 DEF IsFlat
    <3>2. i \in 1..(n + 1) /\ more[i] = begin[i]
      BY <1>4
    <3>. QED
      BY <3>1, <3>2
  <2>2. CASE \E k \in 1..Len(new) : x = Len(flat) + k
    <3>1. n + 1 \in 1..(n + 1) /\ more[n + 1] = Len(flat)
      BY <1>3, <1>4
    <3>. QED
      BY <2>2, <3>1
  <2>. QED
    BY <1>5, <2>1, <2>2
<1>9. (n + 1) + 1 = n + 2
  OBVIOUS
<1>10. IsFlat(longer, more, seqs, n + 1)
  BY <1>4, <1>5, <1>6, <1>7, <1>8, <1>9 DEF IsFlat
<1>. QED
  BY <1>10 DEF longer

(* FlattenSeq goes through the sequences one by one.                       *)
IsFlattening(F, seqs, n) ==
  \A i \in 1..n : F[i] = IF i = 1 THEN seqs[i] ELSE F[i - 1] \o seqs[i]

LEMMA FlattenGoes ==
  ASSUME NEW S, NEW seqs \in Seq(Seq(S)), Len(seqs) # 0
  PROVE  \E F : IsFlattening(F, seqs, Len(seqs)) /\ FlattenSeq(seqs) = F[Len(seqs)]
<1> DEFINE n == Len(seqs)
           D == [x \in (1..n) \X Seq(S) |-> x[2] \o seqs[x[1]]]
<1>1. n \in Nat /\ \A i \in 1..n : seqs[i] \in Seq(S)
  BY LenProperties, ElementOfSeq
<1>2. <<>> \in Seq(S)
  OBVIOUS
<1>3. D \in [(1..n) \X Seq(S) -> Seq(S)]
  <2> SUFFICES ASSUME NEW x \in (1..n) \X Seq(S) PROVE x[2] \o seqs[x[1]] \in Seq(S)
    OBVIOUS
  <2>1. x[1] \in 1..n /\ x[2] \in Seq(S) /\ seqs[x[1]] \in Seq(S)
    BY <1>1
  <2>. QED
    BY <2>1, ConcatProperties
<1>4. \A i \in 1..n : \A v \in Seq(S) : D[<<i, v>>] = v \o seqs[i]
  OBVIOUS
<1> HIDE DEF D
<1>5. PICK f : IsIteration(f, n, Seq(S), <<>>, D)
  BY <1>1, <1>2, <1>3, IterationExists
<1>6. f[0] = <<>> /\ \A i \in 1..n : f[i - 1] \in Seq(S) /\ f[i] = f[i - 1] \o seqs[i]
  <2>1. ASSUME NEW i \in 1..n PROVE f[i - 1] \in Seq(S) /\ f[i] = f[i - 1] \o seqs[i]
    <3>1. i - 1 \in 0..n
      BY <1>1
    <3>2. f[i - 1] \in Seq(S) /\ f[i] = D[<<i, f[i - 1]>>]
      BY <1>5, <3>1 DEF IsIteration
    <3>. QED
      BY <1>4, <3>2
  <2>. QED
    BY <1>5, <2>1 DEF IsIteration
<1> DEFINE g == [i \in 1..n |-> f[i]]
           flat(h) == [i \in 1..n |-> IF i = 1 THEN seqs[i] ELSE h[i - 1] \o seqs[i]]
           F == CHOOSE h : h = flat(h)
<1>7. g = flat(g)
  <2> SUFFICES ASSUME NEW i \in 1..n
               PROVE  f[i] = IF i = 1 THEN seqs[i] ELSE g[i - 1] \o seqs[i]
    OBVIOUS
  <2>1. CASE i = 1
    <3>0. 1 \in 1..n /\ 1 - 1 = 0
      BY <2>1
    <3>1. f[1] = f[0] \o seqs[1] /\ seqs[1] \in Seq(S)
      BY <1>1, <1>6, <3>0
    <3>2. <<>> \o seqs[1] = seqs[1]
      BY <3>1, ConcatEmptySeq
    <3>. QED
      BY <1>6, <2>1, <3>1, <3>2
  <2>2. CASE i # 1
    <3>1. i - 1 \in 1..n
      BY <1>1, <2>2
    <3>. QED
      BY <1>6, <2>2, <3>1
  <2>. QED
    BY <2>1, <2>2
<1>8. F = flat(F)
  <2> HIDE DEF g, flat
  <2>. QED
    BY <1>7
<1>9. \A i \in 1..n : F[i] = IF i = 1 THEN seqs[i] ELSE F[i - 1] \o seqs[i]
  <2> HIDE DEF F
  <2>. QED
    BY <1>8
<1>10. FlattenSeq(seqs) = F[n]
  BY DEF FlattenSeq, F
<1>. QED
  BY <1>9, <1>10 DEF IsFlattening

LEMMA Flattened ==
  ASSUME NEW S, NEW seqs \in Seq(Seq(S))
  PROVE  /\ FlattenSeq(seqs) \in Seq(S)
         /\ \E begin : IsFlat(FlattenSeq(seqs), begin, seqs, Len(seqs))
<1> DEFINE n == Len(seqs)
<1>1. n \in Nat /\ \A i \in 1..n : seqs[i] \in Seq(S)
  BY LenProperties, ElementOfSeq
<1>2. IsFlat(<<>>, [i \in 1..1 |-> 0], seqs, 0) /\ <<>> \in Seq(S)
  BY DEF IsFlat
<1>3. CASE n = 0
  <2>1. FlattenSeq(seqs) = <<>>
    BY <1>3, EmptySeq DEF FlattenSeq
  <2>. QED
    BY <1>2, <1>3, <2>1
<1>4. CASE n # 0
  <2>7. PICK F : IsFlattening(F, seqs, n) /\ FlattenSeq(seqs) = F[n]
    BY <1>4, FlattenGoes
  <2> DEFINE good == {i \in 1..n : F[i] \in Seq(S) /\ \E begin : IsFlat(F[i], begin, seqs, i)}
  <2>9. 1 \in good
    <3>1. 1 \in 1..n /\ F[1] = seqs[1] /\ seqs[1] \in Seq(S)
      BY <1>1, <1>4, <2>7 DEF IsFlattening
    <3>2. <<>> \o seqs[1] = seqs[1]
      BY <3>1, ConcatEmptySeq
    <3>3. 0 < Len(seqs) /\ 0 + 1 = 1
      BY <1>1, <1>4
    <3>4. \E begin : IsFlat(<<>> \o seqs[0 + 1], begin, seqs, 0 + 1)
      BY <1>2, <3>3, FlatNext
    <3>. QED
      BY <3>1, <3>2, <3>3, <3>4
  <2>10. \A i \in 1..n : i < n /\ i \in good => i + 1 \in good
    <3> SUFFICES ASSUME NEW i \in 1..n, i < n, i \in good PROVE i + 1 \in good
      OBVIOUS
    <3>1. i + 1 \in 1..n /\ i + 1 # 1 /\ (i + 1) - 1 = i /\ seqs[i + 1] \in Seq(S) /\ i \in Nat
      BY <1>1
    <3>2. F[i + 1] = F[i] \o seqs[i + 1] /\ F[i] \in Seq(S)
      BY <2>7, <3>1 DEF IsFlattening
    <3>3. PICK begin : IsFlat(F[i], begin, seqs, i)
      OBVIOUS
    <3>4. \E more : IsFlat(F[i] \o seqs[i + 1], more, seqs, i + 1)
      BY <3>1, <3>2, <3>3, FlatNext
    <3>5. F[i + 1] \in Seq(S)
      BY <3>1, <3>2, ConcatProperties
    <3>. QED
      BY <3>1, <3>2, <3>4, <3>5
  <2>11. 1..n \subseteq good
    <3>1. 1 \in Int /\ n \in Int
      BY <1>1
    <3> HIDE DEF good, n
    <3>. QED
      BY <2>9, <2>10, <3>1, IntervalInduction
  <2>12. n \in good
    BY <1>1, <1>4, <2>11
  <2>. QED
    BY <2>7, <2>12
<1>. QED
  BY <1>3, <1>4


(* One more sequence is put behind the others.                             *)
LEMMA FlattenLonger ==
  ASSUME NEW S, NEW seqs \in Seq(Seq(S)), NEW longer \in Seq(Seq(S)),
         Len(longer) = Len(seqs) + 1, \A i \in 1..Len(seqs) : longer[i] = seqs[i]
  PROVE  FlattenSeq(longer) = FlattenSeq(seqs) \o longer[Len(longer)]
<1> DEFINE n == Len(seqs)
<1>1. n \in Nat /\ Len(longer) = n + 1 /\ n + 1 \in 1..(n + 1) /\ longer[n + 1] \in Seq(S)
  <2>1. n \in Nat /\ Len(longer) = n + 1
    BY LenProperties
  <2>2. n + 1 \in 1..Len(longer)
    BY <2>1
  <2>. QED
    BY <2>1, <2>2, ElementOfSeq
<1>2. PICK G : IsFlattening(G, longer, n + 1) /\ FlattenSeq(longer) = G[n + 1]
  <2>1. Len(longer) # 0
    BY <1>1
  <2>2. \E G : IsFlattening(G, longer, Len(longer)) /\ FlattenSeq(longer) = G[Len(longer)]
    BY <2>1, FlattenGoes
  <2>. QED
    BY <1>1, <2>2
<1>3. CASE n = 0
  <2>1. FlattenSeq(seqs) = <<>>
    BY <1>3, EmptySeq DEF FlattenSeq
  <2>2. n + 1 = 1
    BY <1>3
  <2>3. G[1] = longer[1]
    BY <1>2, <2>2 DEF IsFlattening
  <2>4. <<>> \o longer[1] = longer[1]
    BY <1>1, <2>2, ConcatEmptySeq
  <2>. QED
    BY <1>1, <1>2, <2>1, <2>2, <2>3, <2>4
<1>4. CASE n # 0
  <2>1. PICK F : IsFlattening(F, seqs, n) /\ FlattenSeq(seqs) = F[n]
    BY <1>4, FlattenGoes
  <2> DEFINE good == {i \in 1..n : G[i] = F[i]}
  <2>2. 1 \in good
    <3>1. 1 \in 1..n /\ 1 \in 1..(n + 1)
      BY <1>1, <1>4
    <3>2. G[1] = longer[1] /\ F[1] = seqs[1]
      BY <1>2, <2>1, <3>1 DEF IsFlattening
    <3>. QED
      BY <3>1, <3>2
  <2>3. \A i \in 1..n : i < n /\ i \in good => i + 1 \in good
    <3> SUFFICES ASSUME NEW i \in 1..n, i < n, i \in good PROVE i + 1 \in good
      OBVIOUS
    <3>1. i + 1 \in 1..n /\ i + 1 \in 1..(n + 1) /\ i + 1 # 1 /\ (i + 1) - 1 = i
      BY <1>1
    <3>2. G[i + 1] = G[i] \o longer[i + 1]
      BY <1>2, <3>1 DEF IsFlattening
    <3>3. F[i + 1] = F[i] \o seqs[i + 1]
      BY <2>1, <3>1 DEF IsFlattening
    <3>. QED
      BY <3>1, <3>2, <3>3
  <2>4. 1..n \subseteq good
    <3>1. 1 \in Int /\ n \in Int
      BY <1>1
    <3> HIDE DEF good, n
    <3>. QED
      BY <2>2, <2>3, <3>1, IntervalInduction
  <2>5. G[n] = F[n]
    <3>1. n \in 1..n
      BY <1>1, <1>4
    <3>. QED
      BY <2>4, <3>1
  <2>6. n + 1 # 1 /\ (n + 1) - 1 = n
    BY <1>1, <1>4
  <2>7. G[n + 1] = G[n] \o longer[n + 1]
    BY <1>1, <1>2, <2>6 DEF IsFlattening
  <2>. QED
    BY <1>1, <1>2, <2>1, <2>5, <2>7
<1>. QED
  BY <1>3, <1>4

-----------------------------------------------------------------------------
(* What the files are made of.  The words of a fixup table add where in    *)
(* its node a word is, and that may have been guessed.                     *)
NodeKinds ==
  {"none", "vars", "props", "prop", "terminator", "text", "heapAddress", "farText",
   "dispatchTable", "dispatch", "propDict", "selector", "methDict", "method", "code",
   "fixupOffset", "padding", "fixupTable", "fixup"}
NodeType == NodeKinds \X Int
Sorted(holes) == SetToSortSeq(holes, <)
GuessedRels == {2 * Sorted(holes)[i] : holes \in SUBSET Holes, i \in Nat}
WordType == [rel : Nat, to : NodeType, add : Int \cup GuessedRels]
LeafType == [node : NodeType, size : Nat, words : Seq(WordType)]

(* Its words are inside it, and apart from each other.                     *)
IsLeaf(leaf) ==
  /\ leaf \in LeafType
  /\ \A k \in 1..Len(leaf.words) :
       /\ leaf.node[1] # "padding"
       /\ leaf.words[k].rel < leaf.size
       /\ \A l \in 1..Len(leaf.words) : leaf.words[k].rel = leaf.words[l].rel => k = l

LEMMA EndFacts ==
  ASSUME NEW leaf \in LeafType, NEW ofs \in Nat
  PROVE  /\ EndOf(leaf, ofs) \in Nat /\ ofs <= EndOf(leaf, ofs)
         /\ leaf.node[1] # "padding" => EndOf(leaf, ofs) = ofs + leaf.size
<1>1. leaf.size \in Nat
  BY DEF LeafType
<1>2. ofs % 2 \in Nat
  OBVIOUS
<1>. QED
  BY <1>1, <1>2 DEF EndOf

(* The leaves follow each other from byte 0.                               *)
LEMMA StartsFollow ==
  ASSUME NEW leaves \in Seq(LeafType), Len(leaves) > 0
  PROVE  /\ Starts(leaves) \in [1..Len(leaves) -> Nat]
         /\ Starts(leaves)[1] = 0
         /\ \A i \in 1..(Len(leaves) - 1) :
              Starts(leaves)[i + 1] = EndOf(leaves[i], Starts(leaves)[i])
<1> DEFINE n == Len(leaves)
           D == [x \in (1..n) \X Nat |-> EndOf(leaves[x[1]], x[2])]
<1>1. n \in Nat /\ n \in 1..n /\ \A i \in 1..n : leaves[i] \in LeafType
  BY LenProperties, ElementOfSeq
<1>2. \A i \in 1..n : \A o \in Nat : EndOf(leaves[i], o) \in Nat
  BY <1>1, EndFacts
<1>3. D \in [(1..n) \X Nat -> Nat]
  BY <1>2
<1>4. \A i \in 1..n : \A o \in Nat : D[<<i, o>>] = EndOf(leaves[i], o)
  OBVIOUS
<1> HIDE DEF D
<1>5. PICK h : IsIteration(h, n, Nat, 0, D)
  BY <1>1, <1>3, IterationExists
<1>6. h \in [0..n -> Nat] /\ h[0] = 0 /\ \A i \in 1..n : h[i] = EndOf(leaves[i], h[i - 1])
  <2>1. ASSUME NEW i \in 1..n PROVE h[i] = EndOf(leaves[i], h[i - 1])
    <3>1. i - 1 \in 0..n
      BY <1>1
    <3>2. h[i - 1] \in Nat /\ h[i] = D[<<i, h[i - 1]>>]
      BY <1>5, <3>1 DEF IsIteration
    <3>. QED
      BY <1>4, <3>2
  <2>. QED
    BY <1>5, <2>1 DEF IsIteration
<1> DEFINE follow(s) == [i \in 1..n |-> IF i = 1 THEN 0 ELSE EndOf(leaves[i - 1], s[i - 1])]
           g == [i \in 1..n |-> h[i - 1]]
           F == CHOOSE s : s = follow(s)
<1>7. g = follow(g)
  <2> SUFFICES ASSUME NEW i \in 1..n
               PROVE  h[i - 1] = IF i = 1 THEN 0 ELSE EndOf(leaves[i - 1], g[i - 1])
    OBVIOUS
  <2>1. CASE i = 1
    <3>1. i - 1 = 0
      BY <2>1
    <3>. QED
      BY <1>6, <2>1, <3>1
  <2>2. CASE i # 1
    <3>1. i - 1 \in 1..n
      BY <1>1, <2>2
    <3>. QED
      BY <1>6, <2>2, <3>1
  <2>. QED
    BY <2>1, <2>2
<1>8. F = follow(F)
  <2> HIDE DEF g, follow
  <2>. QED
    BY <1>7
<1>9. \A i \in 1..n : F[i] = IF i = 1 THEN 0 ELSE EndOf(leaves[i - 1], F[i - 1])
  <2> HIDE DEF F
  <2>. QED
    BY <1>8
<1>10. Starts(leaves) = F
  BY DEF Starts, F
<1>11. F = [i \in 1..n |-> F[i]]
  <2>1. \E s : s = F /\ s = follow(s)
    BY <1>8
  <2> HIDE DEF F
  <2>. QED
    BY <1>8
<1> HIDE DEF F, g, follow
<1> DEFINE good == {i \in 1..n : F[i] \in Nat}
<1>12. 1 \in good
  BY <1>1, <1>9
<1>13. ASSUME NEW i \in 1..n, i < n, i \in good PROVE i + 1 \in good
  <2>1. i + 1 \in 1..n /\ i + 1 # 1 /\ (i + 1) - 1 = i
    BY <1>1, <1>13
  <2>2. F[i + 1] = EndOf(leaves[i], F[i])
    BY <1>9, <2>1
  <2>. QED
    BY <1>2, <1>13, <2>1, <2>2
<1>14. 1..n \subseteq good
  <2> HIDE DEF good
  <2>1. \A i \in 1..n : i < n /\ i \in good => i + 1 \in good
    BY <1>13
  <2>2. n \in Int /\ 1 \in Int
    BY <1>1
  <2>. QED
    BY <1>12, <2>1, <2>2, IntervalInduction
<1>15. F \in [1..n -> Nat]
  BY <1>11, <1>14
<1>16. ASSUME NEW i \in 1..(n - 1) PROVE F[i + 1] = EndOf(leaves[i], F[i])
  <2>1. i + 1 \in 1..n /\ i + 1 # 1 /\ (i + 1) - 1 = i
    BY <1>1
  <2>. QED
    BY <1>9, <2>1
<1>17. F[1] = 0
  BY <1>1, <1>9
<1>. QED
  BY <1>10, <1>15, <1>16, <1>17

(* No leaf begins before one that stands before it has ended.              *)
LEMMA StartsIncrease ==
  ASSUME NEW leaves \in Seq(LeafType), Len(leaves) > 0,
         NEW i \in 1..Len(leaves), NEW j \in 1..Len(leaves), i < j
  PROVE  EndOf(leaves[i], Starts(leaves)[i]) <= Starts(leaves)[j]
<1> DEFINE start == Starts(leaves)
           n == Len(leaves)
           good == {k \in (i + 1)..n : EndOf(leaves[i], start[i]) <= start[k]}
<1>1. n \in Nat /\ \A k \in 1..n : leaves[k] \in LeafType
  BY LenProperties, ElementOfSeq
<1>2. /\ start \in [1..n -> Nat]
      /\ \A k \in 1..(n - 1) : start[k + 1] = EndOf(leaves[k], start[k])
  BY StartsFollow
<1>3. \A k \in 1..n : EndOf(leaves[k], start[k]) \in Nat /\ start[k] <= EndOf(leaves[k], start[k])
  <2> HIDE DEF start
  <2>1. \A k \in 1..n : start[k] \in Nat
    BY <1>2
  <2>. QED
    BY <1>1, <2>1, EndFacts
<1> HIDE DEF start
<1>4. i + 1 \in good
  <2>1. i \in 1..(n - 1) /\ i + 1 \in (i + 1)..n
    BY <1>1
  <2>2. start[i + 1] = EndOf(leaves[i], start[i])
    BY <1>2, <2>1
  <2>. QED
    BY <1>3, <2>1, <2>2
<1>5. ASSUME NEW k \in (i + 1)..n, k < n, k \in good PROVE k + 1 \in good
  <2>1. k \in 1..(n - 1) /\ k \in 1..n /\ k + 1 \in 1..n /\ k + 1 \in (i + 1)..n
    BY <1>1, <1>5
  <2>2. start[k + 1] = EndOf(leaves[k], start[k])
    BY <1>2, <2>1
  <2>3. /\ EndOf(leaves[i], start[i]) \in Nat /\ start[k] \in Nat /\ start[k + 1] \in Nat
        /\ start[k] <= start[k + 1] /\ EndOf(leaves[i], start[i]) <= start[k]
    BY <1>2, <1>3, <1>5, <2>1, <2>2
  <2>. QED
    BY <2>1, <2>3
<1>6. (i + 1)..n \subseteq good
  <2> HIDE DEF good
  <2>1. \A k \in (i + 1)..n : k < n /\ k \in good => k + 1 \in good
    BY <1>5
  <2>2. n \in Int /\ i + 1 \in Int
    BY <1>1
  <2>. QED
    BY <1>4, <2>1, <2>2, IntervalInduction
<1>7. j \in (i + 1)..n
  BY <1>1
<1>. QED
  BY <1>6, <1>7 DEF start

(* A word in a file.                                                       *)
Wrote(leaf, at, w, offsets, unset) ==
  [node |-> leaf.node, at |-> at + w.rel, to |-> w.to,
   value |-> w.add + (IF w.to = NoNode THEN 0
                      ELSE IF w.to \in DOMAIN offsets THEN offsets[w.to]
                      ELSE unset)]

(* Every word of every leaf is in the file, nothing else is, and no two    *)
(* are at one byte.                                                        *)
HasWords(words, leaves, start, offsets, unset) ==
  /\ Len(words) \in Nat
  /\ \A i \in 1..Len(leaves) : \A k \in 1..Len(leaves[i].words) :
       \E x \in 1..Len(words) :
         words[x] = Wrote(leaves[i], start[i], leaves[i].words[k], offsets, unset)
  /\ \A x \in 1..Len(words) :
       \E i \in 1..Len(leaves) : \E k \in 1..Len(leaves[i].words) :
         words[x] = Wrote(leaves[i], start[i], leaves[i].words[k], offsets, unset)
  /\ \A i \in 1..Len(leaves) : \A k \in 1..Len(leaves[i].words) :
       \A j \in 1..Len(leaves) : \A l \in 1..Len(leaves[j].words) :
         start[i] + leaves[i].words[k].rel = start[j] + leaves[j].words[l].rel =>
           i = j /\ k = l

LEMMA WordsWritten ==
  ASSUME NEW f, NEW table, NEW offsets, NEW unset, NEW leaves, NEW start, NEW words,
         leaves = Leaves(f, table), start = Starts(leaves),
         words = Written(f, table, offsets, unset).words,
         leaves \in Seq(LeafType), Len(leaves) > 0,
         \A i \in 1..Len(leaves) : IsLeaf(leaves[i])
  PROVE  HasWords(words, leaves, start, offsets, unset)
<1> DEFINE n == Len(leaves)
           W(i, k) == Wrote(leaves[i], start[i], leaves[i].words[k], offsets, unset)
           S == {W(i, k) : i \in 1..n, k \in Nat}
           seqs == [i \in 1..n |-> [k \in 1..Len(leaves[i].words) |-> W(i, k)]]
<1>1. n \in Nat /\ \A i \in 1..n : leaves[i] \in LeafType /\ IsLeaf(leaves[i])
  BY LenProperties, ElementOfSeq
<1>2. \A i \in 1..n : leaves[i].words \in Seq(WordType) /\ Len(leaves[i].words) \in Nat
  BY <1>1, LenProperties DEF LeafType
<1>3. seqs \in Seq(Seq(S)) /\ Len(seqs) = n /\ \A i \in 1..n : Len(seqs[i]) = Len(leaves[i].words)
  <2>1. ASSUME NEW i \in 1..n PROVE seqs[i] \in Seq(S) /\ Len(seqs[i]) = Len(leaves[i].words)
    <3>1. \A k \in 1..Len(leaves[i].words) : W(i, k) \in S
      <4>1. ASSUME NEW k \in 1..Len(leaves[i].words) PROVE W(i, k) \in S
        <5>1. k \in Nat
          BY <1>2
        <5>. QED
          BY <5>1
      <4>. QED
        BY <4>1
    <3> HIDE DEF S, W
    <3>. QED
      BY <1>2, <3>1, IsASeq, LenProperties
  <2> HIDE DEF S, W
  <2>2. seqs = [i \in 1..n |-> seqs[i]]
    OBVIOUS
  <2> HIDE DEF seqs
  <2>3. seqs \in Seq(Seq(S))
    BY <1>1, <2>1, <2>2, IsASeq
  <2>. QED
    BY <1>1, <2>1, <2>2, <2>3, LenProperties
<1>4. words = FlattenSeq(seqs)
  BY DEF Written, Wrote
<1>5. \A i \in 1..n : \A k \in 1..Len(leaves[i].words) : seqs[i][k] = W(i, k)
  <2> HIDE DEF W
  <2>. QED
    OBVIOUS
<1> HIDE DEF seqs, S
<1>6. words \in Seq(S) /\ \E begin : IsFlat(words, begin, seqs, n)
  BY <1>3, <1>4, Flattened
<1>7. PICK begin : IsFlat(words, begin, seqs, n)
  BY <1>6
<1>8. Len(words) \in Nat
  BY <1>6, LenProperties
<1>9. ASSUME NEW i \in 1..n, NEW k \in 1..Len(leaves[i].words)
      PROVE  \E x \in 1..Len(words) : words[x] = W(i, k)
  <2>1. IsAt(seqs[i], begin[i], words) /\ k \in 1..Len(seqs[i])
    BY <1>3, <1>7 DEF IsFlat
  <2>2. begin[i] \in Nat /\ begin[i] + Len(seqs[i]) <= Len(words) /\ Len(seqs[i]) \in Nat
    BY <1>2, <1>3, <2>1 DEF IsAt
  <2>3. words[begin[i] + k] = seqs[i][k] /\ begin[i] + k \in 1..Len(words)
    BY <1>8, <2>1, <2>2 DEF IsAt
  <2>4. words[begin[i] + k] = W(i, k)
    BY <1>5, <2>3
  <2>. QED
    BY <2>3, <2>4
<1>10. ASSUME NEW x \in 1..Len(words)
       PROVE  \E i \in 1..n : \E k \in 1..Len(leaves[i].words) : words[x] = W(i, k)
  <2>1. PICK i \in 1..n : \E k \in 1..Len(seqs[i]) : x = begin[i] + k
    BY <1>7 DEF IsFlat
  <2>2. PICK k \in 1..Len(seqs[i]) : x = begin[i] + k
    BY <2>1
  <2>3. IsAt(seqs[i], begin[i], words) /\ k \in 1..Len(leaves[i].words)
    BY <1>3, <1>7 DEF IsFlat
  <2>4. words[x] = W(i, k)
    <3> HIDE DEF W
    <3>. QED
      BY <1>5, <2>2, <2>3 DEF IsAt
  <2>. QED
    BY <2>3, <2>4
<1>11. start \in [1..n -> Nat]
  BY StartsFollow
<1>12. ASSUME NEW i \in 1..n, NEW k \in 1..Len(leaves[i].words),
              NEW j \in 1..n, NEW l \in 1..Len(leaves[j].words), i < j
       PROVE  start[i] + leaves[i].words[k].rel < start[j] + leaves[j].words[l].rel
  <2>1. EndOf(leaves[i], start[i]) <= start[j]
    BY <1>12, StartsIncrease
  <2>2. leaves[i].words[k] \in WordType /\ leaves[j].words[l] \in WordType
    BY <1>2, ElementOfSeq
  <2>3. /\ leaves[i].node[1] # "padding" /\ leaves[i].words[k].rel < leaves[i].size
        /\ leaves[i].size \in Nat
    BY <1>1 DEF IsLeaf, LeafType
  <2>4. start[i] + leaves[i].size <= start[j]
    BY <2>1, <2>3 DEF EndOf
  <2>5. leaves[i].words[k].rel \in Nat /\ leaves[j].words[l].rel \in Nat
    BY <2>2 DEF WordType
  <2>6. start[i] \in Nat /\ start[j] \in Nat
    BY <1>11
  <2> DEFINE a == start[i]  b == start[j]  r == leaves[i].words[k].rel
             t == leaves[j].words[l].rel  z == leaves[i].size
  <2>7. a \in Nat /\ b \in Nat /\ r \in Nat /\ t \in Nat /\ z \in Nat /\ r < z /\ a + z <= b
    BY <2>3, <2>4, <2>5, <2>6
  <2>8. a + r < b + t
    <3> HIDE DEF a, b, r, t, z
    <3>. QED
      BY <2>7
  <2>. QED
    BY <2>8
<1>13. ASSUME NEW i \in 1..n, NEW k \in 1..Len(leaves[i].words),
              NEW j \in 1..n, NEW l \in 1..Len(leaves[j].words),
              start[i] + leaves[i].words[k].rel = start[j] + leaves[j].words[l].rel
       PROVE  i = j /\ k = l
  <2>0. leaves[i].words[k] \in WordType /\ leaves[j].words[l] \in WordType
    BY <1>2, ElementOfSeq
  <2>1. leaves[i].words[k].rel \in Nat /\ leaves[j].words[l].rel \in Nat
    BY <2>0 DEF WordType
  <2>2. ~(i < j) /\ ~(j < i)
    <3>1. start[i] \in Nat /\ start[j] \in Nat
      BY <1>11
    <3>2. i < j => start[i] + leaves[i].words[k].rel < start[j] + leaves[j].words[l].rel
      BY <1>12
    <3>3. j < i => start[j] + leaves[j].words[l].rel < start[i] + leaves[i].words[k].rel
      BY <1>12
    <3>. QED
      BY <1>13, <2>1, <3>1, <3>2, <3>3
  <2>3. i = j
    BY <2>2
  <2>4. leaves[i].words[k].rel = leaves[i].words[l].rel /\ l \in 1..Len(leaves[i].words)
    <3> DEFINE a == start[i]  r == leaves[i].words[k].rel  t == leaves[i].words[l].rel
    <3>1. a \in Nat /\ r \in Nat /\ t \in Nat
      BY <1>11, <2>1, <2>3
    <3>2. a + r = a + t /\ l \in 1..Len(leaves[i].words)
      BY <1>13, <2>3
    <3>3. r = t
      <4> HIDE DEF a, r, t
      <4>. QED
        BY <3>1, <3>2
    <3>. QED
      BY <3>2, <3>3
  <2>5. k = l
    BY <1>1, <2>4 DEF IsLeaf
  <2>. QED
    BY <2>3, <2>5
<1>. QED
  BY <1>8, <1>9, <1>10, <1>13 DEF HasWords

-----------------------------------------------------------------------------
(* What is in the lists, in terms of the calls made so far.                *)

(* A variable has the first value it was given.                            *)
VarsInv ==
  /\ localVars \in Seq(Value \cup {Hole})
  /\ \A i \in 1..(next - 1) : script[i].op = "SetVar" => script[i].num + 1 \in 1..Len(localVars)
  /\ \A v \in 1..Len(localVars) :
       \/ /\ localVars[v] = Hole
          /\ \A i \in 1..(next - 1) : ~(script[i].op = "SetVar" /\ script[i].num = v - 1)
       \/ \E i \in 1..(next - 1) :
            /\ script[i].op = "SetVar" /\ script[i].num = v - 1
            /\ localVars[v] = script[i].val
            /\ \A k \in 1..(i - 1) : ~(script[k].op = "SetVar" /\ script[k].num = v - 1)

(* Every text that was added is there.                                     *)
TextsOf(s, n, list) ==
  \A i \in 1..n : s[i].op = "AddTextNode" =>
    \E t \in 1..Len(list) : s[list[t]].val = s[i].val

ObjectType == [id : Nat, props : Seq(Nat), methods : Seq(Nat)]

(* The objects are those of the script, in its order, with their calls.    *)
ObjectsOf(s, n, list) ==
  /\ list \in Seq(ObjectType)
  /\ \A j \in 1..Len(list) :
       /\ list[j].id \in 1..n /\ s[list[j].id].op \in ObjectKinds
       /\ list[j].props = CallsUpTo(s, n, list[j].id, PropKinds)
       /\ list[j].methods = CallsUpTo(s, n, list[j].id, {"AppendMethod"})
       /\ \A k \in (j + 1)..Len(list) : list[j].id < list[k].id
  /\ \A i \in 1..n : s[i].op \in ObjectKinds => \E j \in 1..Len(list) : list[j].id = i

CodeKinds ==
  {"CreateFunction", "AddOp", "AddLoadImmediate", "AddLoadOffsetTo", "AddProcCall"}

(* Those of the first n numbers that are in T, in their order.             *)
IsSelection(list, n, T) ==
  /\ list \in Seq(1..n)
  /\ \A i \in 1..Len(list) :
       /\ list[i] \in T
       /\ \A k \in (i + 1)..Len(list) : list[i] < list[k]
  /\ \A i \in 1..n : i \in T => \E k \in 1..Len(list) : list[k] = i

(* The code is that of the script, in its order.                           *)
CodeOf(s, n, list) == IsSelection(list, n, {i \in Nat : s[i].op \in CodeKinds})

(* Every public is at its number.                                          *)
PublicsOf(s, n, table) ==
  /\ table \in Seq(0..n)
  /\ \A i \in 1..n : s[i].op = "AddPublic" =>
       s[i].num + 1 \in 1..Len(table) /\ table[s[i].num + 1] = i
  /\ \A d \in 1..Len(table) : table[d] # 0 =>
       s[table[d]].op = "AddPublic" /\ s[table[d]].num = d - 1

ContentsInv ==
  /\ VarsInv
  /\ TextsOf(script, next - 1, texts)
  /\ ObjectsOf(script, next - 1, objects)
  /\ CodeOf(script, next - 1, code)
  /\ PublicsOf(script, next - 1, dispatches)

(* A table that has grown has the old entries, and new ones behind them.   *)
IsGrown(grown, table, n, entry) ==
  /\ Len(grown) = IF n > Len(table) THEN n ELSE Len(table)
  /\ \A i \in 1..Len(grown) : grown[i] = IF i \in 1..Len(table) THEN table[i] ELSE entry

LEMMA GrownIs ==
  ASSUME NEW S, NEW table \in Seq(S), NEW n \in Nat, NEW entry \in S
  PROVE  /\ Grown(table, n, entry) \in Seq(S)
         /\ IsGrown(Grown(table, n, entry), table, n, entry)
<1> DEFINE k == IF n > Len(table) THEN n - Len(table) ELSE 0
           more == [i \in 1..k |-> entry]
<1>1. Len(table) \in Nat /\ k \in Nat
  BY LenProperties
<1>2. more \in [1..k -> S]
  OBVIOUS
<1>3. more \in Seq(S) /\ Len(more) = k
  BY <1>1, <1>2, SeqDef
<1>4. /\ table \o more \in Seq(S) /\ Len(table \o more) = Len(table) + k
      /\ \A i \in 1..(Len(table) + k) :
           (table \o more)[i] = IF i <= Len(table) THEN table[i] ELSE more[i - Len(table)]
  BY <1>3, ConcatProperties
<1>5. Grown(table, n, entry) = table \o more
  BY DEF Grown
<1>6. ASSUME NEW i \in 1..(Len(table) + k)
      PROVE  (table \o more)[i] = IF i \in 1..Len(table) THEN table[i] ELSE entry
  <2>1. CASE i \in 1..Len(table)
    BY <1>1, <1>4, <2>1
  <2>2. CASE i \notin 1..Len(table)
    <3>1. i - Len(table) \in 1..k /\ ~(i <= Len(table))
      BY <1>1, <2>2
    <3>. QED
      BY <1>4, <2>2, <3>1
  <2>. QED
    BY <2>1, <2>2
<1>. QED
  BY <1>1, <1>4, <1>5, <1>6 DEF IsGrown

-----------------------------------------------------------------------------
(* One kind of call changes one list.                                      *)
LEMMA SetVarKeeps ==
  ASSUME IInv, VarsInv, SetVar
  PROVE  VarsInv'
<1> DEFINE num == This.num
           grown == Grown(localVars, num + 1, Hole)
<1>1. /\ next \in 1..Len(script) /\ next \in Nat /\ next' = next + 1 /\ next' - 1 = next
      /\ script' = script /\ This.op = "SetVar" /\ num \in Nat
  <2>1. Called({"SetVar"})
    BY DEF SetVar
  <2>. QED
    BY <2>1, CalledFacts DEF Stepped
<1>2. script[next].val \in Value
  <2>1. IsScript(script)
    BY ScriptsAssumption DEF IInv, RefsInv, ScriptInv
  <2>. QED
    BY <1>1, <2>1 DEF IsScript
<1>3. localVars \in Seq(Value \cup {Hole}) /\ num + 1 \in Nat
  BY <1>1 DEF VarsInv
<1>4. /\ grown \in Seq(Value \cup {Hole})
      /\ Len(grown) = IF num + 1 > Len(localVars) THEN num + 1 ELSE Len(localVars)
      /\ \A i \in 1..Len(grown) : grown[i] = IF i \in 1..Len(localVars) THEN localVars[i] ELSE Hole
  <2>1. Hole \in Value \cup {Hole}
    OBVIOUS
  <2>2. grown \in Seq(Value \cup {Hole}) /\ IsGrown(grown, localVars, num + 1, Hole)
    BY <1>3, <2>1, GrownIs
  <2>. QED
    BY <2>2 DEF IsGrown
<1>5. Len(grown) \in Nat /\ Len(localVars) \in Nat /\ num + 1 \in 1..Len(grown)
  BY <1>1, <1>3, <1>4, LenProperties
<1>6. localVars' = [grown EXCEPT ![num + 1] = IF @ = Hole THEN This.val ELSE @]
  BY DEF SetVar
<1> HIDE DEF grown, num
<1>7. /\ localVars' \in Seq(Value \cup {Hole}) /\ Len(localVars') = Len(grown)
      /\ \A i \in 1..Len(grown) :
           localVars'[i] = IF i = num + 1
                           THEN (IF grown[i] = Hole THEN script[next].val ELSE grown[i])
                           ELSE grown[i]
  <2>1. grown[num + 1] \in Value \cup {Hole}
    BY <1>4, <1>5, ElementOfSeq
  <2>2. (IF grown[num + 1] = Hole THEN script[next].val ELSE grown[num + 1])
          \in Value \cup {Hole}
    BY <1>2, <2>1
  <2>3. localVars' = [grown EXCEPT ![num + 1] = IF grown[num + 1] = Hole THEN script[next].val
                                                ELSE grown[num + 1]]
    BY <1>6 DEF This
  <2>. QED
    BY <1>4, <1>5, <2>2, <2>3, ExceptSeq
<1>8. ASSUME NEW v \in 1..Len(grown)
      PROVE  \/ /\ localVars'[v] = Hole
                /\ \A i \in 1..next : ~(script[i].op = "SetVar" /\ script[i].num = v - 1)
             \/ \E i \in 1..next :
                  /\ script[i].op = "SetVar" /\ script[i].num = v - 1
                  /\ localVars'[v] = script[i].val
                  /\ \A k \in 1..(i - 1) : ~(script[k].op = "SetVar" /\ script[k].num = v - 1)
  <2>0. script[next].op = "SetVar" /\ script[next].num = num
    BY <1>1 DEF This, num
  <2>1. \/ /\ grown[v] = Hole
           /\ \A i \in 1..(next - 1) : ~(script[i].op = "SetVar" /\ script[i].num = v - 1)
        \/ \E i \in 1..(next - 1) :
             /\ script[i].op = "SetVar" /\ script[i].num = v - 1
             /\ grown[v] = script[i].val
             /\ \A k \in 1..(i - 1) : ~(script[k].op = "SetVar" /\ script[k].num = v - 1)
    <3>1. CASE v \in 1..Len(localVars)
      BY <1>4, <3>1 DEF VarsInv
    <3>2. CASE v \notin 1..Len(localVars)
      <4>1. grown[v] = Hole
        BY <1>4, <3>2
      <4>2. ASSUME NEW i \in 1..(next - 1), script[i].op = "SetVar", script[i].num = v - 1
            PROVE  FALSE
        <5>1. script[i].num + 1 \in 1..Len(localVars)
          BY <4>2 DEF VarsInv
        <5>2. v - 1 = script[i].num
          BY <4>2
        <5>3. script[i].num \in Nat /\ v \in Nat
          <6>1. i \in 1..Len(script)
            BY <1>1
          <6>2. IsScript(script)
            BY ScriptsAssumption DEF IInv, RefsInv, ScriptInv
          <6>. QED
            BY <1>5, <6>1, <6>2 DEF IsScript
        <5>. QED
          BY <3>2, <5>1, <5>2, <5>3
      <4>. QED
        BY <4>1, <4>2
    <3>. QED
      BY <3>1, <3>2
  <2>2. CASE \E i \in 1..(next - 1) :
             /\ script[i].op = "SetVar" /\ script[i].num = v - 1
             /\ grown[v] = script[i].val
             /\ \A k \in 1..(i - 1) : ~(script[k].op = "SetVar" /\ script[k].num = v - 1)
    <3>1. PICK i \in 1..(next - 1) :
             /\ script[i].op = "SetVar" /\ script[i].num = v - 1
             /\ grown[v] = script[i].val
             /\ \A k \in 1..(i - 1) : ~(script[k].op = "SetVar" /\ script[k].num = v - 1)
      BY <2>2
    <3>2. script[i].val \in Value /\ i \in 1..next
      <4>1. i \in 1..Len(script) /\ i \in 1..next
        BY <1>1
      <4>2. IsScript(script)
        BY ScriptsAssumption DEF IInv, RefsInv, ScriptInv
      <4>. QED
        BY <4>1, <4>2 DEF IsScript
    <3>3. localVars'[v] = grown[v]
      BY <1>7, <3>1, <3>2 DEF Value, Hole
    <3>. QED
      BY <3>1, <3>2, <3>3
  <2>3. CASE /\ grown[v] = Hole
             /\ \A i \in 1..(next - 1) : ~(script[i].op = "SetVar" /\ script[i].num = v - 1)
    <3>1. CASE v = num + 1
      <4>1. localVars'[v] = script[next].val /\ num = v - 1
        BY <1>1, <1>7, <2>3, <3>1
      <4>2. next \in 1..next
        BY <1>1
      <4>. QED
        BY <2>0, <2>3, <4>1, <4>2
    <3>2. CASE v # num + 1
      <4>1. localVars'[v] = Hole
        BY <1>7, <2>3, <3>2
      <4>2. v - 1 # num
        BY <1>1, <1>5, <3>2
      <4>3. ASSUME NEW i \in 1..next PROVE ~(script[i].op = "SetVar" /\ script[i].num = v - 1)
        <5>1. i = next \/ i \in 1..(next - 1)
          BY <1>1
        <5>. QED
          BY <2>0, <2>3, <4>2, <5>1
      <4>. QED
        BY <4>1, <4>3
    <3>. QED
      BY <3>1, <3>2
  <2>. QED
    BY <2>1, <2>2, <2>3
<1>9. ASSUME NEW i \in 1..next, script[i].op = "SetVar" PROVE script[i].num + 1 \in 1..Len(grown)
  <2>1. CASE i = next
    BY <1>1, <1>5, <2>1 DEF This, num
  <2>2. CASE i # next
    <3>1. i \in 1..(next - 1)
      BY <1>1, <2>2
    <3>2. script[i].num + 1 \in 1..Len(localVars)
      BY <1>9, <3>1 DEF VarsInv
    <3>. QED
      BY <1>4, <1>5, <3>2
  <2>. QED
    BY <2>1, <2>2
<1>. QED
  BY <1>1, <1>7, <1>8, <1>9 DEF VarsInv

LEMMA TextsGrow ==
  ASSUME NEW s, NEW n \in Nat, NEW list \in Seq(1..n), NEW more, TextsOf(s, n, list),
         \/ s[n + 1].op # "AddTextNode" /\ more = list
         \/ more = IF \E i \in 1..Len(list) : s[list[i]].val = s[n + 1].val
                   THEN list ELSE Append(list, n + 1)
  PROVE  TextsOf(s, n + 1, more)
<1>1. Len(list) \in Nat
  BY LenProperties
<1>2. CASE more = list
  <2>1. s[n + 1].op = "AddTextNode" =>
          \E t \in 1..Len(list) : s[list[t]].val = s[n + 1].val
    <3>1. Len(Append(list, n + 1)) # Len(list)
      BY <1>1, AppendProperties
    <3>. QED
      BY <1>2, <3>1
  <2>2. \A i \in 1..(n + 1) : i = n + 1 \/ i \in 1..n
    OBVIOUS
  <2>. QED
    BY <1>2, <2>1, <2>2 DEF TextsOf
<1>3. CASE more = Append(list, n + 1)
  <2>1. /\ Len(more) = Len(list) + 1 /\ more[Len(list) + 1] = n + 1
        /\ \A t \in 1..Len(list) : more[t] = list[t]
    BY <1>3, AppendProperties
  <2>2. \A t \in 1..Len(list) : t \in 1..Len(more)
    BY <1>1, <2>1
  <2>3. Len(more) \in 1..Len(more)
    BY <1>1, <2>1
  <2>4. ASSUME NEW i \in 1..(n + 1), s[i].op = "AddTextNode"
        PROVE  \E t \in 1..Len(more) : s[more[t]].val = s[i].val
    <3>1. CASE i = n + 1
      BY <2>1, <2>3, <3>1
    <3>2. CASE i # n + 1
      <4>1. i \in 1..n
        BY <3>2
      <4>2. PICK t \in 1..Len(list) : s[list[t]].val = s[i].val
        BY <2>4, <4>1 DEF TextsOf
      <4>. QED
        BY <2>1, <2>2, <4>2
    <3>. QED
      BY <3>1, <3>2
  <2>. QED
    BY <2>4 DEF TextsOf
<1>. QED
  BY <1>2, <1>3

LEMMA SelectionGrows ==
  ASSUME NEW T, NEW n \in Nat, NEW list, NEW more, IsSelection(list, n, T),
         \/ n + 1 \notin T /\ more = list
         \/ n + 1 \in T /\ more = Append(list, n + 1)
  PROVE  IsSelection(more, n + 1, T)
<1>1. list \in Seq(1..n) /\ Len(list) \in Nat /\ \A i \in 1..Len(list) : list[i] \in 1..n
  BY LenProperties, ElementOfSeq DEF IsSelection
<1>2. list \in Seq(1..(n + 1)) /\ Append(list, n + 1) \in Seq(1..(n + 1))
  <2>1. n + 1 \in Nat /\ n + 1 >= 1 /\ (n + 1) - 1 = n
    OBVIOUS
  <2>. QED
    BY <1>1, <2>1, AppendFacts
<1>3. \A i \in 1..(n + 1) : i = n + 1 \/ i \in 1..n
  OBVIOUS
<1>4. CASE n + 1 \notin T /\ more = list
  BY <1>2, <1>3, <1>4 DEF IsSelection
<1>5. CASE n + 1 \in T /\ more = Append(list, n + 1)
  <2>1. /\ Len(more) = Len(list) + 1 /\ more[Len(list) + 1] = n + 1
        /\ \A i \in 1..Len(list) : more[i] = list[i]
    BY <1>1, <1>5, AppendProperties
  <2>2. \A i \in 1..Len(more) : i = Len(list) + 1 \/ i \in 1..Len(list)
    BY <1>1, <2>1
  <2>3. ASSUME NEW i \in 1..Len(more)
        PROVE  /\ more[i] \in T
               /\ \A k \in (i + 1)..Len(more) : more[i] < more[k]
    <3>1. CASE i = Len(list) + 1
      <4>1. \A k \in (i + 1)..Len(more) : FALSE
        BY <1>1, <2>1, <3>1
      <4>. QED
        BY <1>5, <2>1, <3>1, <4>1
    <3>2. CASE i \in 1..Len(list)
      <4>1. list[i] \in T
        BY <3>2 DEF IsSelection
      <4>2. ASSUME NEW k \in (i + 1)..Len(more) PROVE more[i] < more[k]
        <5>1. CASE k = Len(list) + 1
          <6>1. more[i] \in 1..n /\ more[k] = n + 1
            BY <1>1, <2>1, <3>2, <5>1
          <6>. QED
            BY <6>1
        <5>2. CASE k # Len(list) + 1
          <6>0. k \in Int /\ k >= i + 1 /\ k <= Len(list) + 1 /\ i \in Nat /\ i >= 1
            BY <1>1, <2>1, <3>2
          <6>1. k \in (i + 1)..Len(list) /\ k \in 1..Len(list)
            BY <1>1, <5>2, <6>0
          <6>2. list[i] < list[k]
            BY <3>2, <6>1 DEF IsSelection
          <6>. QED
            BY <2>1, <3>2, <6>1, <6>2
        <5>. QED
          BY <5>1, <5>2
      <4>. QED
        BY <2>1, <3>2, <4>1, <4>2
    <3>. QED
      BY <2>2, <3>1, <3>2
  <2>4. ASSUME NEW i \in 1..(n + 1), i \in T
        PROVE  \E k \in 1..Len(more) : more[k] = i
    <3>1. CASE i = n + 1
      <4>1. Len(list) + 1 \in 1..Len(more)
        BY <1>1, <2>1
      <4>. QED
        BY <2>1, <3>1, <4>1
    <3>2. CASE i \in 1..n
      <4>1. PICK k \in 1..Len(list) : list[k] = i
        BY <2>4, <3>2 DEF IsSelection
      <4>2. k \in 1..Len(more)
        BY <1>1, <2>1
      <4>. QED
        BY <2>1, <4>1, <4>2
    <3>. QED
      BY <1>3, <3>1, <3>2
  <2>. QED
    BY <1>2, <1>5, <2>3, <2>4 DEF IsSelection
<1>. QED
  BY <1>4, <1>5

LEMMA CodeGrows ==
  ASSUME NEW s, NEW n \in Nat, NEW list, NEW more, CodeOf(s, n, list),
         \/ s[n + 1].op \notin CodeKinds /\ more = list
         \/ s[n + 1].op \in CodeKinds /\ more = Append(list, n + 1)
  PROVE  CodeOf(s, n + 1, more)
<1> DEFINE T == {i \in Nat : s[i].op \in CodeKinds}
<1>1. n + 1 \in T <=> s[n + 1].op \in CodeKinds
  OBVIOUS
<1>2. IsSelection(list, n, T)
  BY DEF CodeOf
<1> HIDE DEF T
<1>3. IsSelection(more, n + 1, T)
  BY <1>1, <1>2, SelectionGrows
<1>. QED
  BY <1>3 DEF CodeOf, T

(* No two publics have one number, so none is overwritten.                 *)
LEMMA PublicsGrow ==
  ASSUME NEW s, NEW n \in Nat, n + 1 \in 1..Len(s), NEW table, NEW more,
         IsScript(s), PublicsOf(s, n, table),
         \/ s[n + 1].op # "AddPublic" /\ more = table
         \/ /\ s[n + 1].op = "AddPublic"
            /\ more = [Grown(table, s[n + 1].num + 1, 0) EXCEPT ![s[n + 1].num + 1] = n + 1]
  PROVE  PublicsOf(s, n + 1, more)
<1> DEFINE num == s[n + 1].num
           grown == Grown(table, num + 1, 0)
<1>1. table \in Seq(0..n) /\ Len(table) \in Nat /\ \A d \in 1..Len(table) : table[d] \in 0..n
  BY LenProperties, ElementOfSeq DEF PublicsOf
<1>2. table \in Seq(0..(n + 1))
  <2>1. 0..n \subseteq 0..(n + 1)
    OBVIOUS
  <2>. QED
    BY <1>1, <2>1, SeqMonotonic
<1>3. \A i \in 1..(n + 1) : i = n + 1 \/ i \in 1..n
  OBVIOUS
<1>4. CASE s[n + 1].op # "AddPublic" /\ more = table
  BY <1>2, <1>3, <1>4 DEF PublicsOf
<1>5. CASE /\ s[n + 1].op = "AddPublic"
           /\ more = [Grown(table, s[n + 1].num + 1, 0) EXCEPT ![s[n + 1].num + 1] = n + 1]
  <2>1. num \in Nat /\ \A i \in 1..n : s[i].op = "AddPublic" => s[i].num \in Nat /\ s[i].num # num
    <3>1. \A i \in 1..n : i \in 1..Len(s) /\ i # n + 1
      OBVIOUS
    <3>. QED
      BY <1>5, <3>1 DEF IsScript, PublicsAreUnique
  <2> HIDE DEF num
  <2>2. grown \in Seq(0..(n + 1)) /\ IsGrown(grown, table, num + 1, 0)
    <3>1. 0 \in 0..(n + 1) /\ num + 1 \in Nat
      BY <2>1
    <3>. QED
      BY <1>2, <3>1, GrownIs
  <2>3. /\ Len(grown) \in Nat /\ num + 1 \in 1..Len(grown) /\ Len(table) <= Len(grown)
        /\ \A d \in 1..Len(grown) : grown[d] = IF d \in 1..Len(table) THEN table[d] ELSE 0
    BY <1>1, <2>1, <2>2, LenProperties DEF IsGrown
  <2> HIDE DEF grown
  <2>4. /\ more \in Seq(0..(n + 1)) /\ Len(more) = Len(grown)
        /\ \A d \in 1..Len(grown) : more[d] = IF d = num + 1 THEN n + 1 ELSE grown[d]
    <3>1. more = [grown EXCEPT ![num + 1] = n + 1] /\ n + 1 \in 0..(n + 1)
      BY <1>5 DEF grown, num
    <3>. QED
      BY <2>2, <2>3, <3>1, ExceptSeq
  <2>5. ASSUME NEW i \in 1..(n + 1), s[i].op = "AddPublic"
        PROVE  s[i].num + 1 \in 1..Len(more) /\ more[s[i].num + 1] = i
    <3>1. CASE i = n + 1
      BY <2>3, <2>4, <3>1 DEF num
    <3>2. CASE i \in 1..n
      <4>1. s[i].num + 1 \in 1..Len(table) /\ table[s[i].num + 1] = i
        BY <2>5, <3>2 DEF PublicsOf
      <4>2. s[i].num + 1 \in 1..Len(grown) /\ s[i].num + 1 # num + 1
        <5>1. s[i].num \in Nat /\ s[i].num # num
          BY <2>1, <2>5, <3>2
        <5>2. Len(table) \in Nat /\ Len(grown) \in Nat /\ Len(table) <= Len(grown) /\ num \in Nat
          BY <1>1, <2>1, <2>3
        <5> DEFINE other == s[i].num  a == Len(table)  b == Len(grown)
        <5>3. other \in Nat /\ other # num /\ other + 1 \in 1..a
          BY <4>1, <5>1
        <5>4. other + 1 \in 1..b /\ other + 1 # num + 1
          <6> HIDE DEF other, a, b
          <6>1. a \in Nat /\ b \in Nat /\ a <= b
            BY <5>2 DEF a, b
          <6>. QED
            BY <5>2, <5>3, <6>1
        <5>. QED
          BY <5>4
      <4>. QED
        BY <2>3, <2>4, <4>1, <4>2
    <3>. QED
      BY <1>3, <3>1, <3>2
  <2>6. ASSUME NEW d \in 1..Len(more), more[d] # 0
        PROVE  s[more[d]].op = "AddPublic" /\ s[more[d]].num = d - 1
    <3>1. CASE d = num + 1
      <4>1. more[d] = n + 1 /\ num = d - 1
        BY <2>1, <2>4, <3>1
      <4>. QED
        BY <1>5, <4>1 DEF num
    <3>2. CASE d # num + 1
      <4>1. d \in 1..Len(table) /\ more[d] = table[d]
        BY <2>3, <2>4, <2>6, <3>2
      <4>. QED
        BY <2>6, <4>1 DEF PublicsOf
    <3>. QED
      BY <3>1, <3>2
  <2>. QED
    BY <2>4, <2>5, <2>6 DEF PublicsOf
<1>. QED
  BY <1>4, <1>5

-----------------------------------------------------------------------------
(* The calls of an object among one call more.                             *)
LEMMA CallsNext ==
  ASSUME NEW s, NEW n \in Nat, NEW id, NEW kinds
  PROVE  /\ CallsUpTo(s, n, id, kinds) \in Seq(Nat)
         /\ CallsUpTo(s, n + 1, id, kinds) =
              IF Belongs(s, id, n + 1) /\ s[n + 1].op \in kinds
              THEN Append(CallsUpTo(s, n, id, kinds), n + 1)
              ELSE CallsUpTo(s, n, id, kinds)
<1> DEFINE Is(i) == Belongs(s, id, i) /\ s[i].op \in kinds
           part(i) == IF Is(i) THEN <<i>> ELSE <<>>
           seqs == [i \in 1..n |-> part(i)]
           longer == [i \in 1..(n + 1) |-> part(i)]
<1> HIDE DEF Is
<1>1. \A i \in Nat : part(i) \in Seq(Nat)
  OBVIOUS
<1>2. CallsUpTo(s, n, id, kinds) = FlattenSeq(seqs) /\ CallsUpTo(s, n + 1, id, kinds) = FlattenSeq(longer)
  BY DEF CallsUpTo, Is
<1>3. part(n + 1) = IF Is(n + 1) THEN <<n + 1>> ELSE <<>>
  OBVIOUS
<1> HIDE DEF part
<1>4. seqs \in Seq(Seq(Nat)) /\ Len(seqs) = n
  <2>1. \A i \in 1..n : part(i) \in Seq(Nat)
    BY <1>1
  <2>. QED
    BY <2>1, IsASeq, LenProperties
<1>5. longer \in Seq(Seq(Nat)) /\ Len(longer) = n + 1
  <2>1. \A i \in 1..(n + 1) : part(i) \in Seq(Nat)
    BY <1>1
  <2>. QED
    BY <2>1, IsASeq, LenProperties
<1>6. longer[n + 1] = part(n + 1) /\ \A i \in 1..n : longer[i] = seqs[i]
  OBVIOUS
<1> HIDE DEF seqs, longer
<1>7. FlattenSeq(longer) = FlattenSeq(seqs) \o part(n + 1)
  BY <1>4, <1>5, <1>6, FlattenLonger
<1>8. FlattenSeq(seqs) \in Seq(Nat)
  BY <1>4, Flattened
<1>9. CASE Is(n + 1)
  <2>1. Append(FlattenSeq(seqs), n + 1) = FlattenSeq(seqs) \o <<n + 1>>
    BY <1>8, AppendIsConcat
  <2>. QED
    BY <1>2, <1>3, <1>7, <1>8, <1>9, <2>1 DEF Is
<1>10. CASE ~Is(n + 1)
  <2>1. FlattenSeq(seqs) \o <<>> = FlattenSeq(seqs)
    BY <1>8, ConcatEmptySeq
  <2>. QED
    BY <1>2, <1>3, <1>7, <1>8, <1>10, <2>1 DEF Is
<1>. QED
  BY <1>9, <1>10

(* The calls of an object are those that belong to it, in their order.     *)
LEMMA CallsSelected ==
  ASSUME NEW s, NEW n \in Nat, NEW id, NEW kinds
  PROVE  IsSelection(CallsUpTo(s, n, id, kinds), n,
                     {i \in Nat : Belongs(s, id, i) /\ s[i].op \in kinds})
<1> DEFINE T == {i \in Nat : Belongs(s, id, i) /\ s[i].op \in kinds}
           good == {m \in 0..n : IsSelection(CallsUpTo(s, m, id, kinds), m, T)}
<1>1. 0 \in good
  <2>1. CallsUpTo(s, 0, id, kinds) = <<>>
    <3>1. [i \in 1..0 |-> IF Belongs(s, id, i) /\ s[i].op \in kinds THEN <<i>> ELSE <<>>] = <<>>
      OBVIOUS
    <3>2. FlattenSeq(<<>>) = <<>>
      BY DEF FlattenSeq
    <3>. QED
      BY <3>1, <3>2 DEF CallsUpTo
  <2>2. IsSelection(<<>>, 0, T)
    <3> HIDE DEF T
    <3>. QED
      BY DEF IsSelection
  <2>. QED
    BY <2>1, <2>2
<1>2. \A m \in 0..n : m < n /\ m \in good => m + 1 \in good
  <2> SUFFICES ASSUME NEW m \in 0..n, m < n, m \in good PROVE m + 1 \in good
    OBVIOUS
  <2>1. m \in Nat /\ m + 1 \in 0..n
    OBVIOUS
  <2>2. m + 1 \in T <=> Belongs(s, id, m + 1) /\ s[m + 1].op \in kinds
    BY <2>1
  <2>3. IsSelection(CallsUpTo(s, m, id, kinds), m, T)
    OBVIOUS
  <2>4. IsSelection(CallsUpTo(s, m + 1, id, kinds), m + 1, T)
    <3> DEFINE old == CallsUpTo(s, m, id, kinds)
    <3> HIDE DEF T
    <3>1. CallsUpTo(s, m + 1, id, kinds) = IF m + 1 \in T THEN Append(old, m + 1) ELSE old
      BY <2>1, <2>2, CallsNext
    <3>2. IsSelection(old, m, T)
      BY <2>3
    <3> HIDE DEF old
    <3>. QED
      BY <2>1, <3>1, <3>2, SelectionGrows
  <2>. QED
    BY <2>1, <2>4
<1>3. 0..n \subseteq good
  <2> HIDE DEF good
  <2>. QED
    BY <1>1, <1>2, IntervalInduction
<1>4. n \in 0..n
  OBVIOUS
<1>. QED
  BY <1>3, <1>4

(* A call that has just been made has got no calls yet.                    *)
LEMMA NoCallsYet ==
  ASSUME NEW s, NEW n \in Nat, NEW kinds
  PROVE  CallsUpTo(s, n, n, kinds) = <<>>
<1> DEFINE seqs == [i \in 1..n |-> <<>>]
<1>1. CallsUpTo(s, n, n, kinds) = FlattenSeq(seqs)
  <2>1. ASSUME NEW i \in 1..n PROVE ~Belongs(s, n, i)
    BY DEF Belongs
  <2>2. [i \in 1..n |-> IF Belongs(s, n, i) /\ s[i].op \in kinds THEN <<i>> ELSE <<>>] = seqs
    BY <2>1
  <2>. QED
    BY <2>2 DEF CallsUpTo
<1>2. seqs \in Seq(Seq(Nat)) /\ Len(seqs) = n /\ \A i \in 1..n : seqs[i] = <<>>
  <2>1. \A i \in 1..n : <<>> \in Seq(Nat)
    OBVIOUS
  <2>. QED
    BY <2>1, IsASeq, LenProperties
<1> HIDE DEF seqs
<1>3. PICK begin : FlattenSeq(seqs) \in Seq(Nat) /\ IsFlat(FlattenSeq(seqs), begin, seqs, n)
  BY <1>2, Flattened
<1>4. Len(FlattenSeq(seqs)) = 0
  <2>1. Len(FlattenSeq(seqs)) \in Nat
    BY <1>3, LenProperties
  <2>2. ASSUME 1 \in 1..Len(FlattenSeq(seqs)) PROVE FALSE
    <3>1. PICK i \in 1..n : \E k \in 1..Len(seqs[i]) : 1 = begin[i] + k
      BY <1>3, <2>2 DEF IsFlat
    <3>2. Len(seqs[i]) = 0
      BY <1>2, EmptySeq
    <3>. QED
      BY <3>1, <3>2
  <2>. QED
    BY <2>1, <2>2
<1>. QED
  BY <1>1, <1>3, <1>4, EmptySeq

(* A call about an object is about the newest one.                         *)
LEMMA BelongsToNewest ==
  ASSUME NEW s, NEW n \in Nat, n + 1 \in 1..Len(s), IsScript(s), NEW list, ObjectsOf(s, n, list),
         s[n + 1].op \in PropKinds \cup {"AppendMethod"}
  PROVE  /\ Len(list) \in 1..Len(list)
         /\ \A j \in 1..Len(list) : Belongs(s, list[j].id, n + 1) <=> j = Len(list)
<1>1. PICK id \in 1..Len(s) : Belongs(s, id, n + 1)
  BY DEF IsScript, ObjectsAreWhole
<1>2. id \in 1..n /\ s[id].op \in ObjectKinds /\ \A k \in (id + 1)..(n + 1) : s[k].op \notin ObjectKinds
  BY <1>1 DEF Belongs
<1>3. PICK j \in 1..Len(list) : list[j].id = id
  BY <1>2 DEF ObjectsOf
<1>4. Len(list) \in Nat
  BY LenProperties DEF ObjectsOf
<1>5. ASSUME NEW k \in 1..Len(list) PROVE list[k].id <= id /\ list[k].id \in 1..n
  <2>1. list[k].id \in 1..n /\ s[list[k].id].op \in ObjectKinds
    BY DEF ObjectsOf
  <2>2. list[k].id \notin (id + 1)..(n + 1)
    BY <1>2, <2>1
  <2>. QED
    BY <1>2, <2>1, <2>2
<1>6. j = Len(list)
  <2>1. SUFFICES ASSUME j # Len(list) PROVE FALSE
    OBVIOUS
  <2>2. Len(list) \in (j + 1)..Len(list) /\ Len(list) \in 1..Len(list)
    BY <1>4, <2>1
  <2>3. list[j].id < list[Len(list)].id
    BY <2>2 DEF ObjectsOf
  <2>4. list[Len(list)].id <= id /\ list[Len(list)].id \in 1..n
    BY <1>5, <2>2
  <2>. QED
    BY <1>2, <1>3, <2>3, <2>4
<1>7. ASSUME NEW k \in 1..Len(list), k # Len(list) PROVE ~Belongs(s, list[k].id, n + 1)
  <2>1. j \in (k + 1)..Len(list)
    BY <1>4, <1>6, <1>7
  <2>2. list[k].id < id
    BY <1>3, <2>1 DEF ObjectsOf
  <2>3. id \in (list[k].id + 1)..(n + 1)
    BY <1>2, <1>5, <2>2
  <2>. QED
    BY <1>2, <2>3 DEF Belongs
<1>. QED
  BY <1>1, <1>3, <1>4, <1>6, <1>7

(* The objects after one more call.                                        *)
LEMMA ObjectsGrow ==
  ASSUME NEW s, NEW n \in Nat, n + 1 \in 1..Len(s), IsScript(s), NEW list, ObjectsOf(s, n, list),
         NEW more,
         \/ /\ s[n + 1].op \in ObjectKinds
            /\ more = Append(list, [id |-> n + 1, props |-> <<>>, methods |-> <<>>])
         \/ /\ s[n + 1].op \in PropKinds
            /\ more = [list EXCEPT ![Len(list)].props = Append(@, n + 1)]
         \/ /\ s[n + 1].op = "AppendMethod"
            /\ more = [list EXCEPT ![Len(list)].methods = Append(@, n + 1)]
         \/ s[n + 1].op \notin ObjectKinds \cup PropKinds \cup {"AppendMethod"} /\ more = list
  PROVE  ObjectsOf(s, n + 1, more)
<1> DEFINE call == s[n + 1]
           Has(j, kinds) == Belongs(s, list[j].id, n + 1) /\ call.op \in kinds
<1>1. /\ list \in Seq(ObjectType) /\ Len(list) \in Nat
      /\ \A j \in 1..Len(list) : list[j] \in ObjectType /\ list[j].id \in 1..n
  BY LenProperties, ElementOfSeq DEF ObjectsOf
<1>2. \A i \in 1..(n + 1) : i = n + 1 \/ i \in 1..n
  OBVIOUS
(* What the calls of an object that was there are now.                     *)
<1>3. \A j \in 1..Len(list) : \A kinds :
        CallsUpTo(s, n + 1, list[j].id, kinds) =
          IF Has(j, kinds) THEN Append(CallsUpTo(s, n, list[j].id, kinds), n + 1)
          ELSE CallsUpTo(s, n, list[j].id, kinds)
  BY CallsNext
<1>4. ObjectKinds \cap PropKinds = {} /\ "AppendMethod" \notin ObjectKinds \cup PropKinds
  BY DEF ObjectKinds, PropKinds
<1>5. CASE /\ call.op \in ObjectKinds
           /\ more = Append(list, [id |-> n + 1, props |-> <<>>, methods |-> <<>>])
  <2> DEFINE new == [id |-> n + 1, props |-> <<>>, methods |-> <<>>]
  <2>1. new \in ObjectType
    BY DEF ObjectType
  <2>2. /\ more \in Seq(ObjectType) /\ Len(more) = Len(list) + 1 /\ more[Len(list) + 1] = new
        /\ \A j \in 1..Len(list) : more[j] = list[j]
    <3> HIDE DEF new
    <3>. QED
      BY <1>1, <1>5, <2>1, AppendProperties DEF new
  <2>3. \A j \in 1..Len(more) : j = Len(list) + 1 \/ j \in 1..Len(list)
    BY <1>1, <2>2
  <2>4. ASSUME NEW j \in 1..Len(more)
        PROVE  /\ more[j].id \in 1..(n + 1) /\ s[more[j].id].op \in ObjectKinds
               /\ more[j].props = CallsUpTo(s, n + 1, more[j].id, PropKinds)
               /\ more[j].methods = CallsUpTo(s, n + 1, more[j].id, {"AppendMethod"})
               /\ \A k \in (j + 1)..Len(more) : more[j].id < more[k].id
    <3>1. CASE j = Len(list) + 1
      <4>1. \A k \in (j + 1)..Len(more) : FALSE
        BY <1>1, <2>2, <3>1
      <4>2. \A kinds : CallsUpTo(s, n + 1, n + 1, kinds) = <<>>
        BY NoCallsYet
      <4>3. more[j].id = n + 1 /\ more[j].props = <<>> /\ more[j].methods = <<>> /\ n + 1 \in 1..(n + 1)
        BY <2>2, <3>1
      <4>. QED
        BY <1>5, <4>1, <4>2, <4>3
    <3>2. CASE j \in 1..Len(list)
      <4>1. ~Has(j, PropKinds) /\ ~Has(j, {"AppendMethod"})
        BY <1>4, <1>5
      <4>2. /\ list[j].id \in 1..(n + 1) /\ s[list[j].id].op \in ObjectKinds
            /\ list[j].props = CallsUpTo(s, n + 1, list[j].id, PropKinds)
            /\ list[j].methods = CallsUpTo(s, n + 1, list[j].id, {"AppendMethod"})
        <5> HIDE DEF Has
        <5>. QED
          BY <1>1, <1>3, <3>2, <4>1 DEF ObjectsOf
      <4>3. ASSUME NEW k \in (j + 1)..Len(more) PROVE list[j].id < more[k].id
        <5>1. CASE k = Len(list) + 1
          <6>1. more[k].id = n + 1 /\ list[j].id \in 1..n
            BY <1>1, <2>2, <3>2, <5>1
          <6>. QED
            BY <6>1
        <5>2. CASE k # Len(list) + 1
          <6>0. k \in Int /\ k >= j + 1 /\ k <= Len(list) + 1 /\ j \in Nat /\ j >= 1
            BY <1>1, <2>2, <3>2
          <6>1. k \in (j + 1)..Len(list) /\ k \in 1..Len(list)
            BY <1>1, <5>2, <6>0
          <6>. QED
            BY <2>2, <3>2, <6>1 DEF ObjectsOf
        <5>. QED
          BY <5>1, <5>2
      <4>. QED
        BY <2>2, <3>2, <4>2, <4>3
    <3>. QED
      BY <2>3, <3>1, <3>2
  <2>5. ASSUME NEW i \in 1..(n + 1), s[i].op \in ObjectKinds
        PROVE  \E j \in 1..Len(more) : more[j].id = i
    <3>1. CASE i = n + 1
      <4>1. Len(list) + 1 \in 1..Len(more)
        BY <1>1, <2>2
      <4>. QED
        BY <2>2, <3>1, <4>1
    <3>2. CASE i \in 1..n
      <4>1. PICK j \in 1..Len(list) : list[j].id = i
        BY <2>5, <3>2 DEF ObjectsOf
      <4>2. j \in 1..Len(more)
        BY <1>1, <2>2
      <4>. QED
        BY <2>2, <4>1, <4>2
    <3>. QED
      BY <1>2, <3>1, <3>2
  <2>. QED
    BY <2>2, <2>4, <2>5 DEF ObjectsOf
(* A list with the same ids that has the calls of its objects.             *)
<1>6. ASSUME call.op \notin ObjectKinds, more \in Seq(ObjectType), Len(more) = Len(list),
             \A j \in 1..Len(list) :
               /\ more[j].id = list[j].id
               /\ more[j].props = CallsUpTo(s, n + 1, list[j].id, PropKinds)
               /\ more[j].methods = CallsUpTo(s, n + 1, list[j].id, {"AppendMethod"})
      PROVE  ObjectsOf(s, n + 1, more)
  <2>1. ASSUME NEW i \in 1..(n + 1), s[i].op \in ObjectKinds
        PROVE  \E j \in 1..Len(more) : more[j].id = i
    <3>1. i \in 1..n
      BY <1>2, <1>6, <2>1
    <3>2. PICK j \in 1..Len(list) : list[j].id = i
      BY <2>1, <3>1 DEF ObjectsOf
    <3>. QED
      BY <1>6, <3>2
  <2>2. ASSUME NEW j \in 1..Len(more)
        PROVE  /\ more[j].id \in 1..(n + 1) /\ s[more[j].id].op \in ObjectKinds
               /\ \A k \in (j + 1)..Len(more) : more[j].id < more[k].id
    <3>1. j \in 1..Len(list) /\ more[j].id = list[j].id
      BY <1>6
    <3>2. list[j].id \in 1..n /\ s[list[j].id].op \in ObjectKinds
      BY <3>1 DEF ObjectsOf
    <3>3. ASSUME NEW k \in (j + 1)..Len(more) PROVE list[j].id < more[k].id
      <4>1. k \in 1..Len(list) /\ k \in (j + 1)..Len(list)
        BY <1>1, <1>6, <3>1
      <4>. QED
        BY <1>6, <3>1, <4>1 DEF ObjectsOf
    <3>. QED
      BY <3>1, <3>2, <3>3
  <2>. QED
    BY <1>6, <2>1, <2>2 DEF ObjectsOf
<1>7. CASE call.op \in PropKinds /\ more = [list EXCEPT ![Len(list)].props = Append(@, n + 1)]
  <2> DEFINE m == Len(list)
  <2>1. m \in 1..m /\ \A j \in 1..m : Belongs(s, list[j].id, n + 1) <=> j = m
    BY <1>7, BelongsToNewest
  <2>2. \A j \in 1..m : (Has(j, PropKinds) <=> j = m) /\ ~Has(j, {"AppendMethod"})
    BY <1>4, <1>7, <2>1
  <2>3. list[m] \in ObjectType /\ Append(list[m].props, n + 1) \in Seq(Nat)
    <3>1. list[m] \in ObjectType
      BY <1>1, <2>1
    <3>2. list[m].props \in Seq(Nat) /\ n + 1 \in Nat
      BY <3>1 DEF ObjectType
    <3>. QED
      BY <3>1, <3>2, AppendProperties
  <2>4. /\ more \in Seq(ObjectType) /\ Len(more) = m
        /\ \A j \in 1..m : more[j] = IF j = m THEN [list[m] EXCEPT !.props = Append(list[m].props, n + 1)]
                                     ELSE list[j]
    <3>1. [list[m] EXCEPT !.props = Append(list[m].props, n + 1)] \in ObjectType
      BY <2>3 DEF ObjectType
    <3>2. more = [list EXCEPT ![m] = [list[m] EXCEPT !.props = Append(list[m].props, n + 1)]]
      BY <1>7
    <3> DEFINE new == [list[m] EXCEPT !.props = Append(list[m].props, n + 1)]
    <3> HIDE DEF new, m
    <3>3. more = [list EXCEPT ![m] = new] /\ new \in ObjectType /\ m \in 1..Len(list)
      BY <2>1, <3>1, <3>2 DEF new, m
    <3>4. /\ more \in Seq(ObjectType) /\ Len(more) = Len(list)
          /\ \A j \in 1..Len(list) : more[j] = IF j = m THEN new ELSE list[j]
      BY <1>1, <3>3, ExceptSeq
    <3>. QED
      BY <3>4 DEF new, m
  <2>5. ASSUME NEW j \in 1..m
        PROVE  /\ more[j].id = list[j].id
               /\ more[j].props = CallsUpTo(s, n + 1, list[j].id, PropKinds)
               /\ more[j].methods = CallsUpTo(s, n + 1, list[j].id, {"AppendMethod"})
    <3>0. /\ list[j].props = CallsUpTo(s, n, list[j].id, PropKinds)
          /\ list[j].methods = CallsUpTo(s, n, list[j].id, {"AppendMethod"})
          /\ list[j] \in ObjectType
      BY <1>1 DEF ObjectsOf
    <3>1. CallsUpTo(s, n + 1, list[j].id, {"AppendMethod"}) = list[j].methods
      <4> HIDE DEF Has
      <4>. QED
        BY <1>3, <2>2, <3>0
    <3>2. CASE j = m
      <4>1. CallsUpTo(s, n + 1, list[j].id, PropKinds) = Append(list[j].props, n + 1)
        <5> HIDE DEF Has
        <5>. QED
          BY <1>3, <2>2, <3>0, <3>2
      <4>2. more[j].id = list[j].id /\ more[j].props = Append(list[j].props, n + 1)
            /\ more[j].methods = list[j].methods
        BY <2>4, <3>0, <3>2 DEF ObjectType
      <4>. QED
        BY <3>1, <4>1, <4>2
    <3>3. CASE j # m
      <4>1. CallsUpTo(s, n + 1, list[j].id, PropKinds) = list[j].props
        <5> HIDE DEF Has
        <5>. QED
          BY <1>3, <2>2, <3>0, <3>3
      <4>. QED
        BY <2>4, <3>0, <3>1, <3>3, <4>1
    <3>. QED
      BY <3>2, <3>3
  <2>6. call.op \notin ObjectKinds
    BY <1>4, <1>7
  <2>. QED
    BY <1>6, <2>4, <2>5, <2>6
<1>8. CASE call.op = "AppendMethod" /\ more = [list EXCEPT ![Len(list)].methods = Append(@, n + 1)]
  <2> DEFINE m == Len(list)
  <2>1. m \in 1..m /\ \A j \in 1..m : Belongs(s, list[j].id, n + 1) <=> j = m
    BY <1>8, BelongsToNewest
  <2>2. \A j \in 1..m : (Has(j, {"AppendMethod"}) <=> j = m) /\ ~Has(j, PropKinds)
    BY <1>4, <1>8, <2>1
  <2>3. list[m] \in ObjectType /\ Append(list[m].methods, n + 1) \in Seq(Nat)
    <3>1. list[m] \in ObjectType
      BY <1>1, <2>1
    <3>2. list[m].methods \in Seq(Nat) /\ n + 1 \in Nat
      BY <3>1 DEF ObjectType
    <3>. QED
      BY <3>1, <3>2, AppendProperties
  <2>4. /\ more \in Seq(ObjectType) /\ Len(more) = m
        /\ \A j \in 1..m : more[j] = IF j = m THEN [list[m] EXCEPT !.methods = Append(list[m].methods, n + 1)]
                                     ELSE list[j]
    <3>1. [list[m] EXCEPT !.methods = Append(list[m].methods, n + 1)] \in ObjectType
      BY <2>3 DEF ObjectType
    <3>2. more = [list EXCEPT ![m] = [list[m] EXCEPT !.methods = Append(list[m].methods, n + 1)]]
      BY <1>8
    <3> DEFINE new == [list[m] EXCEPT !.methods = Append(list[m].methods, n + 1)]
    <3> HIDE DEF new, m
    <3>3. more = [list EXCEPT ![m] = new] /\ new \in ObjectType /\ m \in 1..Len(list)
      BY <2>1, <3>1, <3>2 DEF new, m
    <3>4. /\ more \in Seq(ObjectType) /\ Len(more) = Len(list)
          /\ \A j \in 1..Len(list) : more[j] = IF j = m THEN new ELSE list[j]
      BY <1>1, <3>3, ExceptSeq
    <3>. QED
      BY <3>4 DEF new, m
  <2>5. ASSUME NEW j \in 1..m
        PROVE  /\ more[j].id = list[j].id
               /\ more[j].props = CallsUpTo(s, n + 1, list[j].id, PropKinds)
               /\ more[j].methods = CallsUpTo(s, n + 1, list[j].id, {"AppendMethod"})
    <3>0. /\ list[j].props = CallsUpTo(s, n, list[j].id, PropKinds)
          /\ list[j].methods = CallsUpTo(s, n, list[j].id, {"AppendMethod"})
          /\ list[j] \in ObjectType
      BY <1>1 DEF ObjectsOf
    <3>1. CallsUpTo(s, n + 1, list[j].id, PropKinds) = list[j].props
      <4> HIDE DEF Has
      <4>. QED
        BY <1>3, <2>2, <3>0
    <3>2. CASE j = m
      <4>1. CallsUpTo(s, n + 1, list[j].id, {"AppendMethod"}) = Append(list[j].methods, n + 1)
        <5> HIDE DEF Has
        <5>. QED
          BY <1>3, <2>2, <3>0, <3>2
      <4>2. more[j].id = list[j].id /\ more[j].methods = Append(list[j].methods, n + 1)
            /\ more[j].props = list[j].props
        BY <2>4, <3>0, <3>2 DEF ObjectType
      <4>. QED
        BY <3>1, <4>1, <4>2
    <3>3. CASE j # m
      <4>1. CallsUpTo(s, n + 1, list[j].id, {"AppendMethod"}) = list[j].methods
        <5> HIDE DEF Has
        <5>. QED
          BY <1>3, <2>2, <3>0, <3>3
      <4>. QED
        BY <2>4, <3>0, <3>1, <3>3, <4>1
    <3>. QED
      BY <3>2, <3>3
  <2>6. call.op \notin ObjectKinds
    BY <1>4, <1>8
  <2>. QED
    BY <1>6, <2>4, <2>5, <2>6
<1>9. CASE call.op \notin ObjectKinds \cup PropKinds \cup {"AppendMethod"} /\ more = list
  <2>1. \A j \in 1..Len(list) : ~Has(j, PropKinds) /\ ~Has(j, {"AppendMethod"})
    BY <1>9
  <2>2. ASSUME NEW j \in 1..Len(list)
        PROVE  /\ list[j].props = CallsUpTo(s, n + 1, list[j].id, PropKinds)
               /\ list[j].methods = CallsUpTo(s, n + 1, list[j].id, {"AppendMethod"})
    <3> HIDE DEF Has
    <3>. QED
      BY <1>3, <2>1 DEF ObjectsOf
  <2>. QED
    BY <1>1, <1>6, <1>9, <2>2
<1>. QED
  BY <1>5, <1>7, <1>8, <1>9

-----------------------------------------------------------------------------
(* The lists at the beginning, and after every step.                       *)
LEMMA InitContents ==
  ASSUME Init
  PROVE  ContentsInv
<1>1. next - 1 = 0 /\ \A i \in 1..0 : FALSE
  BY DEF Init
<1>2. <<>> \in Seq(Value \cup {Hole}) /\ <<>> \in Seq(ObjectType) /\ <<>> \in Seq(1..0) /\ <<>> \in Seq(0..0)
  OBVIOUS
<1>3. Len(<<>>) = 0
  OBVIOUS
<1>4. VarsInv
  BY <1>1, <1>2, <1>3 DEF Init, VarsInv
<1>5. TextsOf(script, 0, texts) /\ CodeOf(script, 0, code)
  BY <1>1, <1>2, <1>3 DEF Init, TextsOf, CodeOf, IsSelection
<1>6. ObjectsOf(script, 0, objects) /\ PublicsOf(script, 0, dispatches)
  BY <1>1, <1>2, <1>3 DEF Init, ObjectsOf, PublicsOf
<1>. QED
  BY <1>1, <1>4, <1>5, <1>6 DEF ContentsInv

(* A call that gives no variable a value.                                  *)
LEMMA OtherVars ==
  ASSUME VarsInv, next \in Nat, next' = next + 1, UNCHANGED <<script, localVars>>,
         script[next].op # "SetVar"
  PROVE  VarsInv'
<1>1. next' - 1 = next /\ \A i \in 1..next : i = next \/ i \in 1..(next - 1)
  OBVIOUS
<1>2. \A i \in 1..(next - 1) : i \in 1..next
  OBVIOUS
<1>3. ASSUME NEW v \in 1..Len(localVars)
      PROVE  \/ /\ localVars[v] = Hole
                /\ \A i \in 1..next : ~(script[i].op = "SetVar" /\ script[i].num = v - 1)
             \/ \E i \in 1..next :
                  /\ script[i].op = "SetVar" /\ script[i].num = v - 1
                  /\ localVars[v] = script[i].val
                  /\ \A k \in 1..(i - 1) : ~(script[k].op = "SetVar" /\ script[k].num = v - 1)
  <2>1. CASE /\ localVars[v] = Hole
             /\ \A i \in 1..(next - 1) : ~(script[i].op = "SetVar" /\ script[i].num = v - 1)
    BY <1>1, <2>1
  <2>2. CASE \E i \in 1..(next - 1) :
               /\ script[i].op = "SetVar" /\ script[i].num = v - 1
               /\ localVars[v] = script[i].val
               /\ \A k \in 1..(i - 1) : ~(script[k].op = "SetVar" /\ script[k].num = v - 1)
    BY <1>2, <2>2
  <2>. QED
    BY <2>1, <2>2 DEF VarsInv
<1>4. \A i \in 1..next : script[i].op = "SetVar" => script[i].num + 1 \in 1..Len(localVars)
  BY <1>1 DEF VarsInv
<1>5. localVars \in Seq(Value \cup {Hole})
  BY DEF VarsInv
<1>. QED
  BY <1>1, <1>3, <1>4, <1>5 DEF VarsInv

(* A call is made: each list is left alone or has grown as it says.        *)
LEMMA CallContents ==
  ASSUME IInv, ContentsInv, NEW kinds, Called(kinds), VarsInv',
         \/ This.op # "AddTextNode" /\ texts' = texts
         \/ texts' = IF \E i \in 1..Len(texts) : script[texts[i]].val = This.val
                     THEN texts ELSE Append(texts, next),
         \/ This.op \notin CodeKinds /\ code' = code
         \/ This.op \in CodeKinds /\ code' = Append(code, next),
         \/ This.op # "AddPublic" /\ dispatches' = dispatches
         \/ /\ This.op = "AddPublic"
            /\ dispatches' = [Grown(dispatches, This.num + 1, 0) EXCEPT ![This.num + 1] = next],
         \/ /\ This.op \in ObjectKinds
            /\ objects' = Append(objects, [id |-> next, props |-> <<>>, methods |-> <<>>])
         \/ /\ This.op \in PropKinds
            /\ objects' = [objects EXCEPT ![Len(objects)].props = Append(@, next)]
         \/ /\ This.op = "AppendMethod"
            /\ objects' = [objects EXCEPT ![Len(objects)].methods = Append(@, next)]
         \/ This.op \notin ObjectKinds \cup PropKinds \cup {"AppendMethod"} /\ objects' = objects
  PROVE  ContentsInv'
<1> DEFINE n == next - 1
<1>1. /\ next \in 1..Len(script) /\ next \in Nat /\ next' = next + 1 /\ script' = script
      /\ IsScript(script)
  <2>1. IsScript(script)
    BY ScriptsAssumption DEF IInv, RefsInv, ScriptInv
  <2>. QED
    BY <2>1, CalledFacts DEF Stepped
<1>2. n \in Nat /\ n + 1 = next /\ next' - 1 = n + 1 /\ n + 1 \in 1..Len(script) /\ This = script[n + 1]
  <2>1. n \in Nat /\ n + 1 = next /\ next' - 1 = n + 1
    BY <1>1
  <2>. QED
    BY <1>1, <2>1 DEF This
<1>3. texts \in Seq(1..n) /\ TextsOf(script, n, texts) /\ ObjectsOf(script, n, objects)
      /\ CodeOf(script, n, code) /\ PublicsOf(script, n, dispatches)
  BY DEF IInv, TypeOK, ContentsInv
<1> HIDE DEF n
<1>4. TextsOf(script, n + 1, texts')
  BY <1>2, <1>3, TextsGrow
<1>5. CodeOf(script, n + 1, code')
  BY <1>2, <1>3, CodeGrows
<1>6. PublicsOf(script, n + 1, dispatches')
  BY <1>1, <1>2, <1>3, PublicsGrow
<1>7. ObjectsOf(script, n + 1, objects')
  BY <1>1, <1>2, <1>3, ObjectsGrow
<1>. QED
  BY <1>1, <1>2, <1>4, <1>5, <1>6, <1>7 DEF ContentsInv

LEMMA NextContents ==
  ASSUME IInv, ContentsInv, [Next]_vars
  PROVE  ContentsInv'
<1>1. ASSUME NEW kinds, Called(kinds), This.op # "SetVar", localVars' = localVars
      PROVE  VarsInv'
  BY <1>1, CalledFacts, OtherVars DEF ContentsInv, Stepped, This
<1>2. CASE SetVar
  <2>1. Called({"SetVar"}) /\ This.op = "SetVar"
    BY <1>2 DEF SetVar, Called
  <2>2. VarsInv'
    BY <1>2, SetVarKeeps DEF ContentsInv
  <2>. QED
    BY <1>2, <2>1, <2>2, CallContents DEF SetVar, ObjectKinds, PropKinds, CodeKinds
<1>3. CASE AddTextNode
  <2>1. Called({"AddTextNode"}) /\ This.op = "AddTextNode"
    BY <1>3 DEF AddTextNode, Called
  <2>2. VarsInv'
    BY <1>1, <1>3, <2>1 DEF AddTextNode
  <2>. QED
    BY <1>3, <2>1, <2>2, CallContents DEF AddTextNode, ObjectKinds, PropKinds, CodeKinds
<1>4. CASE CreateObject
  <2>1. Called(ObjectKinds) /\ This.op \in ObjectKinds
    BY <1>4 DEF CreateObject, Called
  <2>2. VarsInv'
    BY <1>1, <1>4, <2>1 DEF CreateObject, ObjectKinds
  <2>. QED
    BY <1>4, <2>1, <2>2, CallContents DEF CreateObject, ObjectKinds, CodeKinds
<1>5. CASE AppendProperty
  <2>1. Called(PropKinds) /\ This.op \in PropKinds
    BY <1>5 DEF AppendProperty, Called
  <2>2. VarsInv'
    BY <1>1, <1>5, <2>1 DEF AppendProperty, PropKinds
  <2>. QED
    BY <1>5, <2>1, <2>2, CallContents DEF AppendProperty, PropKinds, CodeKinds, Newest
<1>6. CASE AppendMethod
  <2>1. Called({"AppendMethod"}) /\ This.op = "AppendMethod"
    BY <1>6 DEF AppendMethod, Called
  <2>2. VarsInv'
    BY <1>1, <1>6, <2>1 DEF AppendMethod
  <2>. QED
    BY <1>6, <2>1, <2>2, CallContents DEF AppendMethod, CodeKinds, Newest
<1>7. CASE CreateFunction
  <2>1. Called({"CreateFunction"}) /\ This.op = "CreateFunction"
    BY <1>7 DEF CreateFunction, Called
  <2>2. VarsInv'
    BY <1>1, <1>7, <2>1 DEF CreateFunction
  <2>. QED
    BY <1>7, <2>1, <2>2, CallContents DEF CreateFunction, ObjectKinds, PropKinds, CodeKinds
<1>8. CASE AddOp
  <2>1. Called({"AddOp", "AddLoadImmediate"}) /\ This.op \in {"AddOp", "AddLoadImmediate"}
    BY <1>8 DEF AddOp, Called
  <2>2. VarsInv'
    BY <1>1, <1>8, <2>1 DEF AddOp
  <2>. QED
    BY <1>8, <2>1, <2>2, CallContents DEF AddOp, ObjectKinds, PropKinds, CodeKinds
<1>9. CASE AddReference
  <2>1. Called({"AddLoadOffsetTo", "AddProcCall"}) /\ This.op \in {"AddLoadOffsetTo", "AddProcCall"}
    BY <1>9 DEF AddReference, Called
  <2>2. VarsInv'
    BY <1>1, <1>9, <2>1 DEF AddReference
  <2>. QED
    BY <1>9, <2>1, <2>2, CallContents DEF AddReference, ObjectKinds, PropKinds, CodeKinds
<1>10. CASE AddPublic
  <2>1. Called({"AddPublic"}) /\ This.op = "AddPublic"
    BY <1>10 DEF AddPublic, Called
  <2>2. VarsInv'
    BY <1>1, <1>10, <2>1 DEF AddPublic
  <2>. QED
    BY <1>10, <2>1, <2>2, CallContents DEF AddPublic, ObjectKinds, PropKinds, CodeKinds
<1>11. CASE LayOut \/ EmitHeap \/ EmitHunk \/ UNCHANGED vars
  <2>1. UNCHANGED <<script, next, listVars>>
    BY <1>11 DEF LayOut, EmitHeap, EmitHunk, Emit, vars
  <2>. QED
    BY <2>1 DEF listVars, ContentsInv, VarsInv
<1>. QED
  BY <1>2, <1>3, <1>4, <1>5, <1>6, <1>7, <1>8, <1>9, <1>10, <1>11 DEF Next

-----------------------------------------------------------------------------
(* The leaves when all calls have been made.                               *)
Ready == IInv /\ ContentsInv /\ phase # "building"

LEMMA ReadyFacts ==
  ASSUME Ready
  PROVE  /\ IsScript(script) /\ Len(script) \in Nat /\ script \in Scripts
         /\ next = Len(script) + 1 /\ next - 1 = Len(script)
         /\ \A i \in 1..Len(script) : i \in Sites /\ i \in Nodes /\ i \in Nat
<1>1. /\ script \in Scripts /\ next = Len(script) + 1
  BY DEF Ready, IInv, RefsInv, ScriptInv
<1>2. IsScript(script) /\ Len(script) \in Nat
  BY <1>1, ScriptsAssumption, LenProperties
<1>3. \A i \in 1..Len(script) : i \in Sites /\ i \in Nodes /\ i \in Nat
  BY <1>2 DEF IsScript
<1>. QED
  BY <1>1, <1>2, <1>3

LEMMA NodeIs ==
  ASSUME NEW kind \in NodeKinds, NEW id \in Int
  PROVE  Node(kind, id) \in NodeType /\ Node(kind, id)[1] = kind /\ Node(kind, id)[2] = id
BY DEF Node, NodeType

LEMMA NoNodeType == NoNode \in NodeType
<1>1. "none" \in NodeKinds
  BY DEF NodeKinds
<1>2. 0 \in Int
  OBVIOUS
<1>. QED
  BY <1>1, <1>2, NodeIs DEF NoNode

(* A reference points to what its name stands for.                         *)
LEMMA TargetNodeIs ==
  ASSUME Ready, NEW s \in 1..Len(script), Refers(script[s])
  PROVE  /\ Meant[s] \in 1..Len(script) /\ Creates(script[Meant[s]])
         /\ script[Meant[s]].name = script[s].name
         /\ TargetNode(s) = IF script[Meant[s]].op = "CreateFunction"
                            THEN Node("code", Meant[s]) ELSE Node("props", Meant[s])
         /\ TargetNode(s) \in NodeType
<1>1. /\ IsScript(script) /\ Len(script) \in Nat /\ script \in Scripts
      /\ s \in Sites /\ s \in Nat
  BY ReadyFacts
<1>2. PICK k \in 1..Len(script) : Creates(script[k]) /\ script[k].name = script[s].name
  BY <1>1 DEF IsScript, NamesAreFound
<1>3. Meant[s] = k
  BY <1>1, <1>2, MeantFacts
<1>4. target[s] = Meant[s]
  BY IInvBinds DEF Ready, AllBound
<1>5. target[s] = k /\ k \in Nodes /\ k \in Int
  BY <1>1, <1>2, <1>3, <1>4, ReadyFacts
<1>6. target[s] # Unresolved /\ s # 0
  BY <1>5, UnresolvedAssumption
<1>7. TargetNode(s) = IF script[Meant[s]].op = "CreateFunction"
                      THEN Node("code", Meant[s]) ELSE Node("props", Meant[s])
  BY <1>4, <1>6 DEF TargetNode
<1>8. Node("code", k) \in NodeType /\ Node("props", k) \in NodeType
  <2>1. "code" \in NodeKinds
    BY DEF NodeKinds
  <2>2. "props" \in NodeKinds
    BY DEF NodeKinds
  <2>. QED
    BY <1>5, <2>1, <2>2, NodeIs
<1>. QED
  BY <1>2, <1>3, <1>7, <1>8

(* A text that is used is among the texts.                                 *)
LEMMA TextNodeIs ==
  ASSUME Ready, NEW v, \E i \in 1..Len(script) : script[i].op = "AddTextNode" /\ script[i].val = v
  PROVE  /\ \E t \in 1..Len(texts) : TextNode(v) = Node("text", texts[t])
         /\ TextNode(v) \in NodeType
<1>1. \E t \in 1..Len(texts) : script[texts[t]].val = v
  BY ReadyFacts DEF Ready, ContentsInv, TextsOf
<1> DEFINE t == CHOOSE t \in 1..Len(texts) : script[texts[t]].val = v
<1>2. t \in 1..Len(texts)
  BY <1>1
<1>3. TextNode(v) = Node("text", texts[t])
  BY DEF TextNode
<1>4. texts \in Seq(1..(next - 1))
  BY DEF Ready, IInv, TypeOK
<1> HIDE DEF t
<1>5. texts[t] \in Int
  <2>1. texts[t] \in 1..(next - 1)
    BY <1>2, <1>4, ElementOfSeq
  <2>. QED
    BY <2>1, ReadyFacts
<1>6. Node("text", texts[t]) \in NodeType
  <2>1. "text" \in NodeKinds
    BY DEF NodeKinds
  <2>. QED
    BY <1>5, <2>1, NodeIs
<1>. QED
  BY <1>2, <1>3, <1>6

(* A value that is written, of a variable or a property.                   *)
LEMMA LiteralWordIs ==
  ASSUME Ready, NEW v \in Value \cup {Hole}, NEW rel \in Nat,
         IsText(v) => \E i \in 1..Len(script) : script[i].op = "AddTextNode" /\ script[i].val = v
  PROVE  LiteralWord(rel, v) \in WordType /\ LiteralWord(rel, v).rel = rel
<1>1. CASE IsText(v)
  <2>1. TextNode(v) \in NodeType
    BY <1>1, TextNodeIs
  <2>. QED
    BY <1>1, <2>1 DEF LiteralWord, Word, WordType
<1>2. CASE ~IsText(v)
  <2>1. v.val \in Int
    BY DEF Value, Hole
  <2>. QED
    BY <1>2, <2>1, NoNodeType DEF LiteralWord, Word, WordType
<1>. QED
  BY <1>1, <1>2

-----------------------------------------------------------------------------
(* Leaves with no word or one.                                             *)
LEMMA SmallLeaves ==
  ASSUME NEW kind \in NodeKinds, NEW id \in Int, NEW size \in Nat, NEW rel \in Nat,
         NEW to \in NodeType, NEW n \in Int \cup GuessedRels
  PROVE  /\ IsLeaf(Leaf(Node(kind, id), size, <<>>))
         /\ kind # "padding" /\ rel < size => IsLeaf(Leaf(Node(kind, id), size, <<Word(rel, to, n)>>))
<1>1. Node(kind, id) \in NodeType /\ Node(kind, id)[1] = kind
  BY DEF Node, NodeType
<1>2. Word(rel, to, n) \in WordType /\ Word(rel, to, n).rel = rel
  BY DEF Word, WordType
<1>3. IsLeaf(Leaf(Node(kind, id), size, <<>>))
  <2>1. <<>> \in Seq(WordType) /\ Len(<<>>) = 0
    OBVIOUS
  <2>2. Leaf(Node(kind, id), size, <<>>) \in LeafType
    BY <1>1, <2>1 DEF Leaf, LeafType
  <2>. QED
    BY <2>1, <2>2 DEF IsLeaf, Leaf
<1> DEFINE w == Word(rel, to, n)
<1>4. ASSUME kind # "padding", rel < size PROVE IsLeaf(Leaf(Node(kind, id), size, <<w>>))
  <2> HIDE DEF w
  <2>1. w \in WordType /\ w.rel = rel
    BY <1>2 DEF w
  <2>2. <<w>> \in Seq(WordType) /\ Len(<<w>>) = 1 /\ <<w>>[1] = w
    BY <2>1
  <2>3. Leaf(Node(kind, id), size, <<w>>) \in LeafType
    BY <1>1, <2>2 DEF Leaf, LeafType
  <2>. QED
    BY <1>1, <1>4, <2>1, <2>2, <2>3 DEF IsLeaf, Leaf
<1>. QED
  BY <1>3, <1>4

LEMMA PlainLeaf ==
  ASSUME NEW kind \in NodeKinds, NEW id \in Int, kind # "padding", NEW n \in Int \cup GuessedRels
  PROVE  IsLeaf(Plain(kind, id, n))
<1>1. 2 \in Nat /\ 0 \in Nat /\ 0 < 2
  OBVIOUS
<1>. QED
  BY <1>1, SmallLeaves, NoNodeType DEF Plain

LEMMA PointerLeaf ==
  ASSUME NEW kind \in NodeKinds, NEW id \in Int, kind # "padding", NEW to \in NodeType
  PROVE  IsLeaf(Pointer(kind, id, to))
<1>1. 2 \in Nat /\ 0 \in Nat /\ 0 < 2 /\ 0 \in Int \cup GuessedRels
  OBVIOUS
<1>. QED
  BY <1>1, SmallLeaves DEF Pointer

LEMMA MarkLeaf ==
  ASSUME NEW kind \in NodeKinds, NEW id \in Int
  PROVE  IsLeaf(Mark(kind, id))
<1>1. 0 \in Nat /\ 0 \in Int \cup GuessedRels
  OBVIOUS
<1>. QED
  BY <1>1, SmallLeaves, NoNodeType DEF Mark

(* One element, and others behind it.                                      *)
LEMMA HeadAndRest ==
  ASSUME NEW S, NEW x \in S, NEW n \in Nat, NEW g \in [1..n -> S]
  PROVE  /\ <<x>> \o g \in Seq(S) /\ Len(<<x>> \o g) = n + 1
         /\ (<<x>> \o g)[1] = x /\ \A i \in 1..n : (<<x>> \o g)[i + 1] = g[i]
<1>1. <<x>> \in Seq(S) /\ Len(<<x>>) = 1 /\ <<x>>[1] = x
  OBVIOUS
<1>2. g \in Seq(S) /\ Len(g) = n
  BY LenProperties, SeqDef
<1>3. /\ <<x>> \o g \in Seq(S) /\ Len(<<x>> \o g) = 1 + n
      /\ \A i \in 1..(1 + n) : (<<x>> \o g)[i] = IF i <= 1 THEN <<x>>[i] ELSE g[i - 1]
  BY <1>1, <1>2, ConcatProperties
<1>4. (<<x>> \o g)[1] = x
  BY <1>1, <1>3
<1>5. ASSUME NEW i \in 1..n PROVE (<<x>> \o g)[i + 1] = g[i]
  <2>1. i + 1 \in 1..(1 + n) /\ ~(i + 1 <= 1) /\ (i + 1) - 1 = i
    OBVIOUS
  <2>. QED
    BY <1>3, <2>1
<1>. QED
  BY <1>3, <1>4, <1>5

(* A number of words, and the words.                                       *)
LEMMA TableLeaf ==
  ASSUME NEW kind \in NodeKinds, kind # "padding", NEW n \in Nat,
         NEW x \in WordType, NEW g \in [1..n -> WordType],
         x.rel = 0, \A i \in 1..n : g[i].rel = 2 * i
  PROVE  IsLeaf(Leaf(Node(kind, 0), 2 * (n + 1), <<x>> \o g))
<1> DEFINE words == <<x>> \o g
           leaf == Leaf(Node(kind, 0), 2 * (n + 1), words)
<1>1. /\ words \in Seq(WordType) /\ Len(words) = n + 1
      /\ words[1] = x /\ \A i \in 1..n : words[i + 1] = g[i]
  BY HeadAndRest
<1> HIDE DEF words
<1>2. ASSUME NEW k \in 1..(n + 1) PROVE words[k].rel = 2 * (k - 1)
  <2>1. CASE k = 1
    BY <1>1, <2>1
  <2>2. CASE k # 1
    <3>1. k - 1 \in 1..n /\ (k - 1) + 1 = k
      BY <2>2
    <3>. QED
      BY <1>1, <3>1
  <2>. QED
    BY <2>1, <2>2
<1>3. Node(kind, 0) \in NodeType /\ Node(kind, 0)[1] = kind /\ 2 * (n + 1) \in Nat
  BY DEF Node, NodeType
<1>4. leaf \in LeafType /\ leaf.words = words /\ leaf.size = 2 * (n + 1) /\ leaf.node = Node(kind, 0)
  BY <1>1, <1>3 DEF LeafType, Leaf
<1> HIDE DEF leaf
<1>5. \A k \in 1..(n + 1) : words[k].rel < 2 * (n + 1)
  BY <1>2
<1>6. \A k, l \in 1..(n + 1) : words[k].rel = words[l].rel => k = l
  BY <1>2
<1>7. IsLeaf(leaf)
  BY <1>1, <1>3, <1>4, <1>5, <1>6 DEF IsLeaf
<1>. QED
  BY <1>7 DEF leaf, words

-----------------------------------------------------------------------------
(* What each thing looks like in its file.                                 *)
LEMMA VarsLeafIs ==
  ASSUME Ready
  PROVE  /\ IsLeaf(VarsLeaf) /\ VarsLeaf.node = Node("vars", 0)
         /\ VarsLeaf.size = 2 * (Len(localVars) + 1)
         /\ Len(localVars) \in Nat /\ Len(VarsLeaf.words) = Len(localVars) + 1
         /\ VarsLeaf.words[1] = Word(0, NoNode, Len(localVars))
         /\ \A v \in 1..Len(localVars) :
              VarsLeaf.words[v + 1] = LiteralWord(2 * v, localVars[v])
<1> DEFINE n == Len(localVars)
           x == Word(0, NoNode, n)
           g == [i \in 1..n |-> LiteralWord(2 * i, localVars[i])]
<1>1. n \in Nat /\ \A v \in 1..n : localVars[v] \in Value \cup {Hole}
  <2>1. localVars \in Seq(Value \cup {Hole})
    BY DEF Ready, ContentsInv, VarsInv
  <2>. QED
    BY <2>1, LenProperties, ElementOfSeq
<1>2. x \in WordType /\ x.rel = 0
  BY <1>1, NoNodeType DEF Word, WordType
<1>3. ASSUME NEW v \in 1..n
      PROVE  LiteralWord(2 * v, localVars[v]) \in WordType /\ LiteralWord(2 * v, localVars[v]).rel = 2 * v
  <2>1. IsText(localVars[v]) =>
          \E i \in 1..Len(script) : script[i].op = "AddTextNode" /\ script[i].val = localVars[v]
    <3>1. SUFFICES ASSUME IsText(localVars[v])
                   PROVE  \E i \in 1..Len(script) :
                            script[i].op = "AddTextNode" /\ script[i].val = localVars[v]
      OBVIOUS
    <3>2. localVars[v] # Hole
      BY <3>1 DEF IsText, Hole
    <3>3. PICK i \in 1..Len(script) : script[i].op = "SetVar" /\ localVars[v] = script[i].val
      BY <3>2, ReadyFacts DEF Ready, ContentsInv, VarsInv
    <3>4. NeedsText(script[i])
      BY <3>1, <3>3 DEF NeedsText
    <3>. QED
      BY <3>3, <3>4, ReadyFacts DEF IsScript, TextsAreAdded
  <2>2. 2 * v \in Nat
    BY <1>1
  <2>. QED
    BY <1>1, <2>1, <2>2, LiteralWordIs
<1>4. g \in [1..n -> WordType] /\ \A i \in 1..n : g[i] = LiteralWord(2 * i, localVars[i]) /\ g[i].rel = 2 * i
  BY <1>3
<1>5. VarsLeaf = Leaf(Node("vars", 0), 2 * (n + 1), <<x>> \o g)
  BY DEF VarsLeaf
<1>6. "vars" \in NodeKinds /\ "vars" # "padding"
  BY DEF NodeKinds
<1> HIDE DEF x, g, n
<1>7. IsLeaf(VarsLeaf)
  BY <1>1, <1>2, <1>4, <1>5, <1>6, TableLeaf
<1>8. /\ Len(<<x>> \o g) = n + 1 /\ (<<x>> \o g)[1] = x
      /\ \A i \in 1..n : (<<x>> \o g)[i + 1] = g[i]
  <2>1. n \in Nat /\ x \in WordType /\ g \in [1..n -> WordType]
    BY <1>1, <1>2, <1>4
  <2>. QED
    BY <2>1, HeadAndRest
<1>9. VarsLeaf.node = Node("vars", 0) /\ VarsLeaf.size = 2 * (n + 1) /\ VarsLeaf.words = <<x>> \o g
  BY <1>5 DEF Leaf
<1>. QED
  BY <1>1, <1>4, <1>7, <1>8, <1>9 DEF n, x

LEMMA DispatchTableIs ==
  ASSUME Ready
  PROVE  /\ IsLeaf(DispatchTable) /\ DispatchTable.node = Node("dispatchTable", 0)
         /\ DispatchTable.size = 2 * (Len(dispatches) + 1)
         /\ Len(dispatches) \in Nat /\ Len(DispatchTable.words) = Len(dispatches) + 1
         /\ DispatchTable.words[1] = Word(0, NoNode, Len(dispatches))
         /\ \A i \in 1..Len(dispatches) :
              /\ DispatchTable.words[i + 1] = Word(2 * i, TargetNode(dispatches[i]), 0)
              /\ TargetNode(dispatches[i]) \in NodeType
              /\ dispatches[i] \in Int
<1> DEFINE n == Len(dispatches)
           x == Word(0, NoNode, n)
           g == [i \in 1..n |-> Word(2 * i, TargetNode(dispatches[i]), 0)]
<1>1. n \in Nat /\ \A i \in 1..n : dispatches[i] \in 0..Len(script)
  <2>1. dispatches \in Seq(0..Len(script))
    BY ReadyFacts DEF Ready, IInv, TypeOK
  <2>. QED
    BY <2>1, LenProperties, ElementOfSeq
<1>2. x \in WordType /\ x.rel = 0
  BY <1>1, NoNodeType DEF Word, WordType
<1>3. ASSUME NEW i \in 1..n PROVE TargetNode(dispatches[i]) \in NodeType /\ dispatches[i] \in Int
  <2>0. dispatches[i] \in 0..Len(script) /\ Len(script) \in Nat
    BY <1>1, ReadyFacts
  <2>1. CASE dispatches[i] = 0
    BY <2>0, <2>1, NoNodeType DEF TargetNode
  <2>2. CASE dispatches[i] # 0
    <3>1. dispatches[i] \in 1..Len(script)
      BY <2>0, <2>2
    <3>2. script[dispatches[i]].op = "AddPublic"
      BY <2>2, ReadyFacts DEF Ready, ContentsInv, PublicsOf
    <3>3. Refers(script[dispatches[i]])
      BY <3>2 DEF Refers
    <3>. QED
      BY <2>0, <3>1, <3>3, TargetNodeIs
  <2>. QED
    BY <2>1, <2>2
<1>4. g \in [1..n -> WordType]
      /\ \A i \in 1..n : g[i] = Word(2 * i, TargetNode(dispatches[i]), 0) /\ g[i].rel = 2 * i
  <2>1. ASSUME NEW i \in 1..n
        PROVE  /\ Word(2 * i, TargetNode(dispatches[i]), 0) \in WordType
               /\ Word(2 * i, TargetNode(dispatches[i]), 0).rel = 2 * i
    <3>1. 2 * i \in Nat
      BY <1>1
    <3>. QED
      BY <1>3, <3>1 DEF Word, WordType
  <2>. QED
    BY <2>1
<1>5. DispatchTable = Leaf(Node("dispatchTable", 0), 2 * (n + 1), <<x>> \o g)
  BY DEF DispatchTable
<1>6. "dispatchTable" \in NodeKinds /\ "dispatchTable" # "padding"
  BY DEF NodeKinds
<1> HIDE DEF x, g, n
<1>7. IsLeaf(DispatchTable)
  BY <1>1, <1>2, <1>4, <1>5, <1>6, TableLeaf
<1>8. /\ Len(<<x>> \o g) = n + 1 /\ (<<x>> \o g)[1] = x
      /\ \A i \in 1..n : (<<x>> \o g)[i + 1] = g[i]
  <2>1. n \in Nat /\ x \in WordType /\ g \in [1..n -> WordType]
    BY <1>1, <1>2, <1>4
  <2>. QED
    BY <2>1, HeadAndRest
<1>9. /\ DispatchTable.node = Node("dispatchTable", 0) /\ DispatchTable.size = 2 * (n + 1)
      /\ DispatchTable.words = <<x>> \o g
  BY <1>5 DEF Leaf
<1>. QED
  BY <1>1, <1>3, <1>4, <1>7, <1>8, <1>9 DEF n, x

(* The objects are made by their calls, and have their calls.              *)
LEMMA ObjectIs ==
  ASSUME Ready, NEW j \in 1..Len(objects)
  PROVE  /\ objects[j] \in ObjectType /\ objects[j].id \in 1..Len(script)
         /\ script[objects[j].id].op \in ObjectKinds
         /\ objects[j].props = PropCallsOf(objects[j].id)
         /\ objects[j].methods = MethodCallsOf(objects[j].id)
         /\ IsSelection(objects[j].props, Len(script),
              {i \in Nat : Belongs(script, objects[j].id, i) /\ script[i].op \in PropKinds})
         /\ IsSelection(objects[j].methods, Len(script),
              {i \in Nat : Belongs(script, objects[j].id, i) /\ script[i].op \in {"AppendMethod"}})
<1>1. ObjectsOf(script, Len(script), objects) /\ Len(script) \in Nat
  BY ReadyFacts DEF Ready, ContentsInv
<1>2. /\ objects \in Seq(ObjectType) /\ objects[j].id \in 1..Len(script)
      /\ script[objects[j].id].op \in ObjectKinds
      /\ objects[j].props = CallsUpTo(script, Len(script), objects[j].id, PropKinds)
      /\ objects[j].methods = CallsUpTo(script, Len(script), objects[j].id, {"AppendMethod"})
  BY <1>1 DEF ObjectsOf
<1>3. /\ objects[j].props = PropCallsOf(objects[j].id)
      /\ objects[j].methods = MethodCallsOf(objects[j].id)
  BY <1>2 DEF PropCallsOf, MethodCallsOf, CallsOf
<1>4. objects[j] \in ObjectType
  BY <1>2, ElementOfSeq
<1>5. IsSelection(objects[j].props, Len(script),
        {i \in Nat : Belongs(script, objects[j].id, i) /\ script[i].op \in PropKinds})
  BY <1>1, <1>2, CallsSelected
<1>6. IsSelection(objects[j].methods, Len(script),
        {i \in Nat : Belongs(script, objects[j].id, i) /\ script[i].op \in {"AppendMethod"}})
  BY <1>1, <1>2, CallsSelected
<1>. QED
  BY <1>2, <1>3, <1>4, <1>5, <1>6

LEMMA PropLeafIs ==
  ASSUME Ready, NEW object \in ObjectType, NEW id \in 1..Len(script), script[id].op \in PropKinds
  PROVE  /\ IsLeaf(PropLeaf(object, id)) /\ PropLeaf(object, id).node = Node("prop", id)
         /\ PropLeaf(object, id).size = 2
         /\ \E w \in WordType : PropLeaf(object, id).words = <<w>> /\ w.rel = 0
         /\ script[id].op = "AppendPropTableProperty" =>
              PropLeaf(object, id).words = <<Word(0, Node("propDict", object.id), 0)>>
         /\ script[id].op = "AppendMethodTableProperty" =>
              PropLeaf(object, id).words = <<Word(0, Node("methDict", object.id), 0)>>
         /\ script[id].op = "AppendProperty" =>
              PropLeaf(object, id).words = <<LiteralWord(0, script[id].val)>>
<1>1. id \in Int /\ object.id \in Int /\ 0 \in Nat /\ 2 \in Nat /\ 0 < 2 /\ 0 \in Int \cup GuessedRels
  BY ReadyFacts DEF ObjectType
<1>2. /\ "prop" \in NodeKinds /\ "propDict" \in NodeKinds /\ "methDict" \in NodeKinds
      /\ "prop" # "padding"
  BY DEF NodeKinds
<1>3. Node("propDict", object.id) \in NodeType /\ Node("methDict", object.id) \in NodeType
  BY <1>1, <1>2, NodeIs
<1>4. CASE script[id].op = "AppendPropTableProperty"
  <2> DEFINE w == Word(0, Node("propDict", object.id), 0)
  <2>1. PropLeaf(object, id) = Leaf(Node("prop", id), 2, <<w>>)
    BY <1>4 DEF PropLeaf, Pointer
  <2>2. w \in WordType /\ w.rel = 0
    BY <1>3 DEF Word, WordType
  <2>3. IsLeaf(PropLeaf(object, id))
    BY <1>1, <1>2, <1>3, <2>1, SmallLeaves
  <2>. QED
    BY <1>4, <2>1, <2>2, <2>3 DEF Leaf
<1>5. CASE script[id].op = "AppendMethodTableProperty"
  <2> DEFINE w == Word(0, Node("methDict", object.id), 0)
  <2>1. PropLeaf(object, id) = Leaf(Node("prop", id), 2, <<w>>)
    BY <1>5 DEF PropLeaf, Pointer
  <2>2. w \in WordType /\ w.rel = 0
    BY <1>3 DEF Word, WordType
  <2>3. IsLeaf(PropLeaf(object, id))
    BY <1>1, <1>2, <1>3, <2>1, SmallLeaves
  <2>. QED
    BY <1>5, <2>1, <2>2, <2>3 DEF Leaf
<1>6. CASE script[id].op = "AppendProperty"
  <2> DEFINE w == LiteralWord(0, script[id].val)
  <2>1. PropLeaf(object, id) = Leaf(Node("prop", id), 2, <<w>>)
    BY <1>6 DEF PropLeaf
  <2>2. w \in WordType /\ w.rel = 0
    <3>1. script[id].val \in Value
      BY ReadyFacts DEF IsScript
    <3>2. IsText(script[id].val) =>
            \E i \in 1..Len(script) : script[i].op = "AddTextNode" /\ script[i].val = script[id].val
      BY <1>6, ReadyFacts DEF IsScript, TextsAreAdded, NeedsText
    <3>. QED
      BY <1>1, <3>1, <3>2, LiteralWordIs
  <2> HIDE DEF w
  <2>3. w = Word(0, w.to, w.add) /\ w.to \in NodeType /\ w.add \in Int \cup GuessedRels
    BY <2>2 DEF Word, WordType
  <2>4. IsLeaf(PropLeaf(object, id))
    <3>1. IsLeaf(Leaf(Node("prop", id), 2, <<Word(0, w.to, w.add)>>))
      BY <1>1, <1>2, <2>3, SmallLeaves
    <3>. QED
      BY <2>1, <2>3, <3>1
  <2>. QED
    BY <1>6, <2>1, <2>2, <2>4 DEF Leaf, w
<1>. QED
  BY <1>4, <1>5, <1>6 DEF PropKinds

LEMMA CodeLeafIs ==
  ASSUME Ready, NEW id \in 1..Len(script), script[id].op \in CodeKinds
  PROVE  /\ IsLeaf(CodeLeaf(id)) /\ CodeLeaf(id).node = Node("code", id)
         /\ CodeLeaf(id).words = <<>> \/ \E to \in NodeType : CodeLeaf(id).words = <<Word(1, to, 0)>>
         /\ script[id].op = "AddLoadOffsetTo" => CodeLeaf(id).words = <<Word(1, TargetNode(id), 0)>>
         /\ script[id].op = "AddLoadImmediate" =>
              CodeLeaf(id).words = <<Word(1, TextNode(script[id].val), 0)>>
         /\ script[id].op \notin {"AddLoadOffsetTo", "AddLoadImmediate"} => CodeLeaf(id).words = <<>>
<1>1. id \in Int /\ 0 \in Nat /\ 1 \in Nat /\ 2 \in Nat /\ 3 \in Nat /\ 1 < 3 /\ 0 \in Int \cup GuessedRels
  BY ReadyFacts
<1>2. "code" \in NodeKinds /\ "code" # "padding"
  BY DEF NodeKinds
<1>3. \A size \in Nat : IsLeaf(Leaf(Node("code", id), size, <<>>))
  BY <1>1, <1>2, NoNodeType, SmallLeaves
<1>4. \A to \in NodeType : IsLeaf(Leaf(Node("code", id), 3, <<Word(1, to, 0)>>))
  BY <1>1, <1>2, SmallLeaves
<1>5. CASE script[id].op = "CreateFunction"
  BY <1>1, <1>3, <1>5 DEF CodeLeaf, Leaf
<1>6. CASE script[id].op = "AddLoadOffsetTo"
  <2>1. TargetNode(id) \in NodeType
    BY <1>6, TargetNodeIs DEF Refers
  <2>. QED
    BY <1>4, <1>6, <2>1 DEF CodeLeaf, Leaf
<1>7. CASE script[id].op = "AddLoadImmediate"
  <2>1. TextNode(script[id].val) \in NodeType
    <3>1. \E i \in 1..Len(script) : script[i].op = "AddTextNode" /\ script[i].val = script[id].val
      BY <1>7, ReadyFacts DEF IsScript, TextsAreAdded, NeedsText
    <3>. QED
      BY <3>1, TextNodeIs
  <2>. QED
    BY <1>4, <1>7, <2>1 DEF CodeLeaf, Leaf
<1>8. CASE script[id].op = "AddProcCall"
  BY <1>1, <1>3, <1>8 DEF CodeLeaf, Leaf
<1>9. CASE script[id].op = "AddOp"
  BY <1>1, <1>3, <1>9 DEF CodeLeaf, Leaf
<1>. QED
  BY <1>5, <1>6, <1>7, <1>8, <1>9 DEF CodeKinds

-----------------------------------------------------------------------------
(* Where each leaf is in its file.                                         *)
LeafSet == {leaf \in LeafType : IsLeaf(leaf)}

LEMMA LeafSetIs ==
  ASSUME NEW leaf, IsLeaf(leaf)
  PROVE  leaf \in LeafSet
BY DEF LeafSet, IsLeaf

LEMMA LeafSeqs ==
  ASSUME NEW leaves \in Seq(LeafSet)
  PROVE  /\ leaves \in Seq(LeafType) /\ Len(leaves) \in Nat
         /\ \A i \in 1..Len(leaves) : leaves[i] \in LeafType /\ IsLeaf(leaves[i])
<1>1. \A i \in 1..Len(leaves) : leaves[i] \in LeafType /\ IsLeaf(leaves[i])
  BY ElementOfSeq DEF LeafSet
<1>2. Len(leaves) \in Nat /\ leaves = [i \in 1..Len(leaves) |-> leaves[i]]
  BY LenProperties
<1>3. leaves \in [1..Len(leaves) -> LeafType]
  BY <1>1, <1>2
<1>. QED
  BY <1>1, <1>2, <1>3, SeqDef

(* A sequence made of three parts, or four.                                *)
AreThree(whole, a, b, c) ==
  /\ Len(whole) = Len(a) + Len(b) + Len(c)
  /\ IsAt(a, 0, whole) /\ IsAt(b, Len(a), whole) /\ IsAt(c, Len(a) + Len(b), whole)
  /\ \A x \in 1..Len(whole) :
       \/ x \in 1..Len(a)
       \/ \E k \in 1..Len(b) : x = Len(a) + k
       \/ \E k \in 1..Len(c) : x = Len(a) + Len(b) + k

AreFour(whole, a, b, c, d) ==
  /\ Len(whole) = Len(a) + Len(b) + Len(c) + Len(d)
  /\ IsAt(a, 0, whole) /\ IsAt(b, Len(a), whole) /\ IsAt(c, Len(a) + Len(b), whole) /\ IsAt(d, Len(a) + Len(b) + Len(c), whole)
  /\ \A x \in 1..Len(whole) :
       \/ x \in 1..Len(a)
       \/ \E k \in 1..Len(b) : x = Len(a) + k
       \/ \E k \in 1..Len(c) : x = Len(a) + Len(b) + k
       \/ \E k \in 1..Len(d) : x = Len(a) + Len(b) + Len(c) + k

LEMMA ThreeParts ==
  ASSUME NEW S, NEW a \in Seq(S), NEW b \in Seq(S), NEW c \in Seq(S)
  PROVE  a \o b \o c \in Seq(S) /\ AreThree(a \o b \o c, a, b, c)
<1> DEFINE ab == a \o b
<1>1. /\ ab \in Seq(S) /\ Len(ab) = Len(a) + Len(b)
      /\ IsAt(a, 0, ab) /\ IsAt(b, Len(a), ab)
      /\ \A x \in 1..Len(ab) : x \in 1..Len(a) \/ \E k \in 1..Len(b) : x = Len(a) + k
  BY AtConcat
<1> DEFINE whole == ab \o c
<1>2. whole = a \o b \o c
  OBVIOUS
<1> HIDE DEF ab
<1>3. /\ whole \in Seq(S) /\ Len(whole) = Len(ab) + Len(c)
      /\ IsAt(ab, 0, whole) /\ IsAt(c, Len(ab), whole)
      /\ \A x \in 1..Len(whole) : x \in 1..Len(ab) \/ \E k \in 1..Len(c) : x = Len(ab) + k
  <2>1. ab \in Seq(S)
    BY <1>1
  <2>. QED
    BY <2>1, AtConcat
<1> HIDE DEF whole
<1>4. IsAt(a, 0 + 0, whole)
  <2>1. IsAt(a, 0, ab) /\ ab \in Seq(S) /\ whole \in Seq(S) /\ IsAt(ab, 0, whole)
    BY <1>1, <1>3
  <2>. QED
    BY <2>1, AtAt
<1>5. IsAt(b, 0 + Len(a), whole)
  <2>1. IsAt(b, Len(a), ab) /\ ab \in Seq(S) /\ whole \in Seq(S) /\ IsAt(ab, 0, whole)
    BY <1>1, <1>3
  <2>. QED
    BY <2>1, AtAt
<1>6. /\ Len(a) \in Nat /\ Len(b) \in Nat /\ Len(c) \in Nat
      /\ 0 + 0 = 0 /\ 0 + Len(a) = Len(a)
  BY LenProperties
<1>7. AreThree(whole, a, b, c)
  BY <1>1, <1>3, <1>4, <1>5, <1>6 DEF AreThree
<1>. QED
  BY <1>2, <1>3, <1>7

LEMMA FourParts ==
  ASSUME NEW S, NEW a \in Seq(S), NEW b \in Seq(S), NEW c \in Seq(S), NEW d \in Seq(S)
  PROVE  a \o b \o c \o d \in Seq(S) /\ AreFour(a \o b \o c \o d, a, b, c, d)
<1> DEFINE abc == a \o b \o c
<1>1. abc \in Seq(S) /\ AreThree(abc, a, b, c)
  BY ThreeParts
<1> DEFINE whole == abc \o d
<1>2. whole = a \o b \o c \o d
  OBVIOUS
<1> HIDE DEF abc
<1>3. /\ whole \in Seq(S) /\ Len(whole) = Len(abc) + Len(d)
      /\ IsAt(abc, 0, whole) /\ IsAt(d, Len(abc), whole)
      /\ \A x \in 1..Len(whole) : x \in 1..Len(abc) \/ \E k \in 1..Len(d) : x = Len(abc) + k
  <2>1. abc \in Seq(S)
    BY <1>1
  <2>. QED
    BY <2>1, AtConcat
<1> HIDE DEF whole
<1>4. IsAt(a, 0 + 0, whole)
  <2>1. IsAt(a, 0, abc) /\ abc \in Seq(S) /\ whole \in Seq(S) /\ IsAt(abc, 0, whole)
    BY <1>1, <1>3 DEF AreThree
  <2>. QED
    BY <2>1, AtAt
<1>5. IsAt(b, 0 + Len(a), whole)
  <2>1. IsAt(b, Len(a), abc) /\ abc \in Seq(S) /\ whole \in Seq(S) /\ IsAt(abc, 0, whole)
    BY <1>1, <1>3 DEF AreThree
  <2>. QED
    BY <2>1, AtAt
<1>6. IsAt(c, 0 + (Len(a) + Len(b)), whole)
  <2>1. IsAt(c, Len(a) + Len(b), abc) /\ abc \in Seq(S) /\ whole \in Seq(S) /\ IsAt(abc, 0, whole)
    BY <1>1, <1>3 DEF AreThree
  <2>. QED
    BY <2>1, AtAt
<1>7. /\ Len(a) \in Nat /\ Len(b) \in Nat /\ Len(c) \in Nat /\ Len(d) \in Nat
      /\ 0 + 0 = 0 /\ 0 + Len(a) = Len(a) /\ 0 + (Len(a) + Len(b)) = Len(a) + Len(b)
  BY LenProperties
<1>8. AreFour(whole, a, b, c, d)
  BY <1>1, <1>3, <1>4, <1>5, <1>6, <1>7 DEF AreFour, AreThree
<1>. QED
  BY <1>2, <1>3, <1>8

(* Pairs behind each other.                                                *)
ArePairs(flat, n, a, b) ==
  /\ Len(flat) = 2 * n
  /\ \A i \in 1..n : flat[2 * i - 1] = a[i] /\ flat[2 * i] = b[i]

LEMMA Pairs ==
  ASSUME NEW S, NEW n \in Nat, NEW a \in [1..n -> S], NEW b \in [1..n -> S], NEW seqs,
         seqs = [i \in 1..n |-> <<a[i], b[i]>>]
  PROVE  FlattenSeq(seqs) \in Seq(S) /\ ArePairs(FlattenSeq(seqs), n, a, b)
<1> DEFINE flat == FlattenSeq(seqs)
<1>1. /\ seqs \in Seq(Seq(S)) /\ Len(seqs) = n
      /\ \A i \in 1..n : Len(seqs[i]) = 2 /\ seqs[i][1] = a[i] /\ seqs[i][2] = b[i]
  <2>1. \A i \in 1..n : <<a[i], b[i]>> \in Seq(S)
    OBVIOUS
  <2>2. seqs \in [1..n -> Seq(S)] /\ \A i \in 1..n : seqs[i] = <<a[i], b[i]>>
    BY <2>1
  <2>3. seqs \in Seq(Seq(S)) /\ Len(seqs) = n
    BY <2>2, SeqDef, LenProperties
  <2>4. ASSUME NEW i \in 1..n
        PROVE  Len(seqs[i]) = 2 /\ seqs[i][1] = a[i] /\ seqs[i][2] = b[i]
    <3>1. seqs[i] = <<a[i], b[i]>>
      BY <2>2
    <3>. QED
      BY <3>1
  <2>. QED
    BY <2>3, <2>4
<1>2. PICK begin : flat \in Seq(S) /\ IsFlat(flat, begin, seqs, n)
  BY <1>1, Flattened
<1> HIDE DEF flat
<1>3. /\ begin \in [1..(n + 1) -> Nat] /\ begin[1] = 0 /\ Len(flat) = begin[n + 1]
      /\ \A i \in 1..n : begin[i + 1] = begin[i] + 2
  BY <1>1, <1>2 DEF IsFlat
<1> DEFINE good == {i \in 1..(n + 1) : begin[i] = 2 * (i - 1)}
<1>4. 1..(n + 1) \subseteq good
  <2>1. 1 \in good
    BY <1>3
  <2>2. ASSUME NEW i \in 1..(n + 1), i < n + 1, i \in good PROVE i + 1 \in good
    <3>1. i \in 1..n /\ i + 1 \in 1..(n + 1) /\ i \in Nat
      BY <2>2
    <3>2. begin[i + 1] = begin[i] + 2 /\ begin[i] = 2 * (i - 1)
      BY <1>3, <2>2, <3>1
    <3>. QED
      BY <3>1, <3>2
  <2>3. n + 1 \in Int /\ 1 \in Int
    OBVIOUS
  <2> HIDE DEF good
  <2>. QED
    BY <2>1, <2>2, <2>3, IntervalInduction
<1>5. Len(flat) = 2 * n
  <2>1. n + 1 \in 1..(n + 1)
    OBVIOUS
  <2>2. begin[n + 1] = 2 * ((n + 1) - 1)
    BY <1>4, <2>1
  <2>. QED
    BY <1>3, <2>2
<1>6. ASSUME NEW i \in 1..n PROVE flat[2 * i - 1] = a[i] /\ flat[2 * i] = b[i]
  <2>1. i \in 1..(n + 1) /\ begin[i] = 2 * (i - 1)
    BY <1>4
  <2>2. begin[i] + 1 = 2 * i - 1 /\ begin[i] + 2 = 2 * i
    BY <2>1
  <2>3. IsAt(seqs[i], begin[i], flat)
    BY <1>2 DEF IsFlat
  <2>4. flat[begin[i] + 1] = seqs[i][1] /\ flat[begin[i] + 2] = seqs[i][2]
    BY <1>1, <2>3 DEF IsAt
  <2>. QED
    BY <1>1, <2>2, <2>4
<1>. QED
  BY <1>2, <1>5, <1>6 DEF flat, ArePairs

(* The mark of an object and its properties.                               *)
LEMMA PropsIs ==
  ASSUME Ready, NEW j \in 1..Len(objects)
  PROVE  /\ Props(objects[j]) \in Seq(LeafSet)
         /\ Len(objects[j].props) \in Nat /\ Len(Props(objects[j])) = Len(objects[j].props) + 1
         /\ Props(objects[j])[1] = Mark("props", objects[j].id)
         /\ \A i \in 1..Len(objects[j].props) :
              /\ objects[j].props[i] \in 1..Len(script)
              /\ script[objects[j].props[i]].op \in PropKinds
              /\ Belongs(script, objects[j].id, objects[j].props[i])
              /\ Props(objects[j])[i + 1] = PropLeaf(objects[j], objects[j].props[i])
<1> DEFINE o == objects[j]
           n == Len(o.props)
           x == Mark("props", o.id)
           g == [i \in 1..n |-> PropLeaf(o, o.props[i])]
<1>1. /\ o \in ObjectType /\ o.id \in 1..Len(script)
      /\ IsSelection(o.props, Len(script),
           {i \in Nat : Belongs(script, o.id, i) /\ script[i].op \in PropKinds})
  BY ObjectIs
<1>2. /\ n \in Nat
      /\ \A i \in 1..n : /\ o.props[i] \in 1..Len(script)
                         /\ script[o.props[i]].op \in PropKinds /\ Belongs(script, o.id, o.props[i])
  <2>1. o.props \in Seq(1..Len(script))
    BY <1>1 DEF IsSelection
  <2>2. n \in Nat /\ \A i \in 1..n : o.props[i] \in 1..Len(script)
    BY <2>1, LenProperties, ElementOfSeq
  <2>3. \A i \in 1..n : script[o.props[i]].op \in PropKinds /\ Belongs(script, o.id, o.props[i])
    BY <1>1 DEF IsSelection
  <2>. QED
    BY <2>2, <2>3
<1>3. x \in LeafSet
  <2>1. "props" \in NodeKinds /\ o.id \in Int
    BY <1>1, ReadyFacts DEF NodeKinds
  <2>. QED
    BY <2>1, MarkLeaf, LeafSetIs
<1>4. g \in [1..n -> LeafSet]
  <2>1. \A i \in 1..n : PropLeaf(o, o.props[i]) \in LeafSet
    <3> HIDE DEF o, n
    <3>. QED
      BY <1>1, <1>2, PropLeafIs, LeafSetIs
  <2>. QED
    BY <2>1
<1>5. Props(o) = <<x>> \o g
  BY DEF Props
<1>6. \A i \in 1..n : g[i] = PropLeaf(o, o.props[i])
  OBVIOUS
<1> HIDE DEF x, g, n
<1>7. /\ <<x>> \o g \in Seq(LeafSet) /\ Len(<<x>> \o g) = n + 1
      /\ (<<x>> \o g)[1] = x /\ \A i \in 1..n : (<<x>> \o g)[i + 1] = g[i]
  BY <1>2, <1>3, <1>4, HeadAndRest
<1>. QED
  BY <1>2, <1>5, <1>6, <1>7 DEF x, n

(* How many selectors stand before the methods of an object.               *)
SelectorsOf(object) == IF script[object.id].op = "CreateClass" THEN Len(object.props) ELSE 0

LEMMA DictionaryIs ==
  ASSUME Ready, NEW j \in 1..Len(objects), NEW o, o = objects[j]
  PROVE  /\ Dictionary(o) \in Seq(LeafSet)
         /\ SelectorsOf(o) \in Nat /\ Len(o.methods) \in Nat
         /\ Len(Dictionary(o)) = SelectorsOf(o) + 2 * Len(o.methods) + 2
         /\ Dictionary(o)[1] = Mark("propDict", o.id)
         /\ \A i \in 1..SelectorsOf(o) :
              Dictionary(o)[1 + i] = Plain("selector", o.props[i], script[o.props[i]].num)
         /\ Dictionary(o)[SelectorsOf(o) + 2] = Plain("methDict", o.id, Len(o.methods))
         /\ \A i \in 1..Len(o.methods) :
              /\ o.methods[i] \in 1..Len(script)
              /\ script[o.methods[i]].op = "AppendMethod"
              /\ Dictionary(o)[SelectorsOf(o) + 2 * i + 1] =
                   Plain("selector", o.methods[i], script[o.methods[i]].num)
              /\ Dictionary(o)[SelectorsOf(o) + 2 * i + 2] =
                   Pointer("method", o.methods[i], TargetNode(o.methods[i]))
<1> DEFINE n == SelectorsOf(o)
           m == Len(o.methods)
           sel == IF script[o.id].op = "CreateClass"
                  THEN [i \in 1..Len(o.props) |-> Plain("selector", o.props[i], script[o.props[i]].num)]
                  ELSE <<>>
           a == [i \in 1..m |-> Plain("selector", o.methods[i], script[o.methods[i]].num)]
           b == [i \in 1..m |-> Pointer("method", o.methods[i], TargetNode(o.methods[i]))]
           seqs == [i \in 1..m |-> <<a[i], b[i]>>]
           head == <<Mark("propDict", o.id)>>
           count == <<Plain("methDict", o.id, m)>>
<1>1. /\ o \in ObjectType /\ o.id \in 1..Len(script) /\ o.id \in Int
      /\ IsSelection(o.methods, Len(script),
           {i \in Nat : Belongs(script, o.id, i) /\ script[i].op \in {"AppendMethod"}})
  <2>1. /\ o \in ObjectType /\ o.id \in 1..Len(script)
        /\ IsSelection(o.methods, Len(script),
             {i \in Nat : Belongs(script, o.id, i) /\ script[i].op \in {"AppendMethod"}})
    BY ObjectIs
  <2>2. o.id \in Int
    BY <2>1, ReadyFacts
  <2>. QED
    BY <2>1, <2>2
<1>2. /\ Len(o.props) \in Nat
      /\ \A i \in 1..Len(o.props) : o.props[i] \in 1..Len(script)
  BY PropsIs
<1>3. /\ m \in Nat
      /\ \A i \in 1..m : o.methods[i] \in 1..Len(script) /\ script[o.methods[i]].op = "AppendMethod"
  <2>1. o.methods \in Seq(1..Len(script))
    BY <1>1 DEF IsSelection
  <2>2. m \in Nat /\ \A i \in 1..m : o.methods[i] \in 1..Len(script)
    BY <2>1, LenProperties, ElementOfSeq
  <2>3. \A i \in 1..m : script[o.methods[i]].op = "AppendMethod"
    BY <1>1 DEF IsSelection
  <2>. QED
    BY <2>2, <2>3
<1>4. \A id \in 1..Len(script) : Plain("selector", id, script[id].num) \in LeafSet
  <2> SUFFICES ASSUME NEW id \in 1..Len(script)
               PROVE  Plain("selector", id, script[id].num) \in LeafSet
    OBVIOUS
  <2>1. script[id].num \in Int \cup GuessedRels /\ id \in Int
    BY ReadyFacts DEF IsScript
  <2>2. "selector" \in NodeKinds /\ "selector" # "padding"
    BY DEF NodeKinds
  <2>. QED
    BY <2>1, <2>2, PlainLeaf, LeafSetIs
<1>5. n \in Nat /\ sel \in Seq(LeafSet) /\ Len(sel) = n
      /\ \A i \in 1..n : sel[i] = Plain("selector", o.props[i], script[o.props[i]].num)
  <2>1. CASE script[o.id].op = "CreateClass"
    <3> DEFINE g == [i \in 1..Len(o.props) |-> Plain("selector", o.props[i], script[o.props[i]].num)]
    <3>1. g \in [1..Len(o.props) -> LeafSet]
      BY <1>2, <1>4
    <3>2. n = Len(o.props) /\ sel = g
      BY <2>1 DEF SelectorsOf
    <3>3. \A i \in 1..n : g[i] = Plain("selector", o.props[i], script[o.props[i]].num)
      BY <3>2
    <3> HIDE DEF n, sel, g
    <3>4. g \in Seq(LeafSet) /\ Len(g) = n
      BY <1>2, <3>1, <3>2, SeqDef, LenProperties
    <3>. QED
      BY <1>2, <3>2, <3>3, <3>4
  <2>2. CASE script[o.id].op # "CreateClass"
    <3>1. n = 0 /\ sel = <<>>
      BY <2>2 DEF SelectorsOf
    <3> HIDE DEF n, sel
    <3>. QED
      BY <3>1
  <2>. QED
    BY <2>1, <2>2
<1>6. a \in [1..m -> LeafSet] /\ \A i \in 1..m : a[i] = Plain("selector", o.methods[i], script[o.methods[i]].num)
  BY <1>3, <1>4
<1>7. b \in [1..m -> LeafSet] /\ \A i \in 1..m : b[i] = Pointer("method", o.methods[i], TargetNode(o.methods[i]))
  <2>1. ASSUME NEW i \in 1..m
        PROVE  Pointer("method", o.methods[i], TargetNode(o.methods[i])) \in LeafSet
    <3>1. TargetNode(o.methods[i]) \in NodeType
      BY <1>3, TargetNodeIs DEF Refers
    <3>2. "method" \in NodeKinds /\ "method" # "padding" /\ o.methods[i] \in Int
      BY <1>3, ReadyFacts DEF NodeKinds
    <3>. QED
      BY <3>1, <3>2, PointerLeaf, LeafSetIs
  <2>. QED
    BY <2>1
<1>8. head \in Seq(LeafSet) /\ Len(head) = 1 /\ head[1] = Mark("propDict", o.id)
  <2>1. "propDict" \in NodeKinds
    BY DEF NodeKinds
  <2>2. Mark("propDict", o.id) \in LeafSet
    BY <1>1, <2>1, MarkLeaf, LeafSetIs
  <2>. QED
    BY <2>2
<1>9. count \in Seq(LeafSet) /\ Len(count) = 1 /\ count[1] = Plain("methDict", o.id, m)
  <2>1. "methDict" \in NodeKinds /\ "methDict" # "padding" /\ m \in Int \cup GuessedRels
    BY <1>3 DEF NodeKinds
  <2>2. Plain("methDict", o.id, m) \in LeafSet
    BY <1>1, <2>1, PlainLeaf, LeafSetIs
  <2>. QED
    BY <2>2
<1>10. Dictionary(o) = head \o sel \o count \o FlattenSeq(seqs)
  <2>1. seqs = [i \in 1..m |-> <<Plain("selector", o.methods[i], script[o.methods[i]].num),
                                 Pointer("method", o.methods[i], TargetNode(o.methods[i]))>>]
    OBVIOUS
  <2>. QED
    BY <2>1 DEF Dictionary
<1>11. seqs = [i \in 1..m |-> <<a[i], b[i]>>]
  OBVIOUS
<1> HIDE DEF a, b, sel, head, count, seqs, m, n
<1> DEFINE pairs == FlattenSeq(seqs)
<1>12. /\ pairs \in Seq(LeafSet) /\ Len(pairs) = 2 * m
       /\ \A i \in 1..m : pairs[2 * i - 1] = a[i] /\ pairs[2 * i] = b[i]
  <2>1. pairs \in Seq(LeafSet) /\ ArePairs(pairs, m, a, b)
    BY <1>3, <1>6, <1>7, <1>11, Pairs
  <2>. QED
    BY <2>1 DEF ArePairs
<1>13. Dictionary(o) = head \o sel \o count \o pairs
  BY <1>10
<1> HIDE DEF pairs
<1> DEFINE d == Dictionary(o)
<1> HIDE DEF d
<1>14. d = head \o sel \o count \o pairs
  BY <1>13 DEF d
<1>15. /\ d \in Seq(LeafSet) /\ Len(d) = 1 + n + 1 + 2 * m
       /\ IsAt(head, 0, d) /\ IsAt(sel, 1, d) /\ IsAt(count, 1 + n, d) /\ IsAt(pairs, 1 + n + 1, d)
  <2>1. head \in Seq(LeafSet) /\ sel \in Seq(LeafSet) /\ count \in Seq(LeafSet) /\ pairs \in Seq(LeafSet)
    BY <1>5, <1>8, <1>9, <1>12
  <2>2. d \in Seq(LeafSet) /\ AreFour(d, head, sel, count, pairs)
    BY <1>14, <2>1, FourParts
  <2>. QED
    BY <1>5, <1>8, <1>9, <1>12, <2>2 DEF AreFour
<1>16. d[1] = Mark("propDict", o.id)
  <2>1. d[0 + 1] = head[1]
    BY <1>8, <1>15 DEF IsAt
  <2>. QED
    BY <1>8, <2>1
<1>17. \A i \in 1..n : d[1 + i] = Plain("selector", o.props[i], script[o.props[i]].num)
  BY <1>5, <1>15 DEF IsAt
<1>18. d[n + 2] = Plain("methDict", o.id, m)
  <2>1. d[(1 + n) + 1] = count[1]
    BY <1>9, <1>15 DEF IsAt
  <2>2. (1 + n) + 1 = n + 2
    BY <1>5
  <2>. QED
    BY <1>9, <2>1, <2>2
<1>19. ASSUME NEW i \in 1..m
       PROVE  /\ d[n + 2 * i + 1] = Plain("selector", o.methods[i], script[o.methods[i]].num)
              /\ d[n + 2 * i + 2] = Pointer("method", o.methods[i], TargetNode(o.methods[i]))
  <2>1. 2 * i - 1 \in 1..(2 * m) /\ 2 * i \in 1..(2 * m)
    BY <1>3
  <2>2. d[(1 + n + 1) + (2 * i - 1)] = pairs[2 * i - 1] /\ d[(1 + n + 1) + 2 * i] = pairs[2 * i]
    BY <1>12, <1>15, <2>1 DEF IsAt
  <2>3. (1 + n + 1) + (2 * i - 1) = n + 2 * i + 1 /\ (1 + n + 1) + 2 * i = n + 2 * i + 2
    BY <1>3, <1>5
  <2>. QED
    BY <1>6, <1>7, <1>12, <2>2, <2>3
<1>20. Len(d) = n + 2 * m + 2
  BY <1>3, <1>5, <1>15
<1>. QED
  BY <1>3, <1>5, <1>15, <1>16, <1>17, <1>18, <1>19, <1>20 DEF d, n, m

-----------------------------------------------------------------------------
(* The bodies of the files.                                                *)
PropBlocks == [j \in 1..Len(objects) |-> Props(objects[j])]
DictBlocks == [j \in 1..Len(objects) |-> Dictionary(objects[j])]
TextLeaf(t) == Leaf(Node("text", texts[t]), script[texts[t]].num + 1, <<>>)
TextLeaves == [t \in 1..Len(texts) |-> TextLeaf(t)]
CodeLeaves == [c \in 1..Len(code) |-> CodeLeaf(code[c])]

LEMMA ListsAre ==
  ASSUME Ready
  PROVE  /\ Len(objects) \in Nat /\ Len(texts) \in Nat /\ Len(code) \in Nat
         /\ \A t \in 1..Len(texts) : texts[t] \in 1..Len(script)
         /\ \A c \in 1..Len(code) : /\ code[c] \in 1..Len(script) /\ script[code[c]].op \in CodeKinds
                                    /\ \A d \in 1..Len(code) : code[c] = code[d] => c = d
         /\ \A i \in 1..Len(script) : script[i].op \in CodeKinds => \E c \in 1..Len(code) : code[c] = i
<1>1. /\ objects \in Seq(ObjectType) /\ texts \in Seq(1..Len(script))
      /\ code \in Seq(1..Len(script))
      /\ IsSelection(code, Len(script), {i \in Nat : script[i].op \in CodeKinds})
  BY ReadyFacts DEF Ready, IInv, TypeOK, ContentsInv, ObjectsOf, CodeOf
<1>2. Len(objects) \in Nat /\ Len(texts) \in Nat /\ Len(code) \in Nat
  BY <1>1, LenProperties
<1>3. /\ \A t \in 1..Len(texts) : texts[t] \in 1..Len(script)
      /\ \A c \in 1..Len(code) : code[c] \in 1..Len(script)
  BY <1>1, ElementOfSeq
<1>4. \A c \in 1..Len(code) : script[code[c]].op \in CodeKinds
  BY <1>1 DEF IsSelection
<1>5. \A i \in 1..Len(script) : script[i].op \in CodeKinds => \E c \in 1..Len(code) : code[c] = i
  BY <1>1, ReadyFacts DEF IsSelection
<1>6. ASSUME NEW c \in 1..Len(code), NEW d \in 1..Len(code), code[c] = code[d]
      PROVE  c = d
  <2>1. c < d => code[c] < code[d]
    BY <1>1, <1>2 DEF IsSelection
  <2>2. d < c => code[d] < code[c]
    BY <1>1, <1>2 DEF IsSelection
  <2>3. code[c] \in Int
    BY <1>3, ReadyFacts
  <2>. QED
    BY <1>2, <1>6, <2>1, <2>2, <2>3
<1>. QED
  BY <1>2, <1>3, <1>4, <1>5, <1>6

HeapHolds(body, begin) ==
  /\ begin \in [1..(Len(objects) + 1) -> Nat]
  /\ 1 \in 1..Len(body) /\ body[1] = VarsLeaf
  /\ \A j \in 1..Len(objects) : \A k \in 1..Len(Props(objects[j])) :
       1 + begin[j] + k \in 1..Len(body) /\ body[1 + begin[j] + k] = Props(objects[j])[k]
  /\ \A t \in 1..Len(texts) : \E x \in 1..Len(body) : body[x] = TextLeaf(t)
  /\ \A x \in 1..Len(body) :
       \/ x = 1
       \/ \E j \in 1..Len(objects) : \E k \in 1..Len(Props(objects[j])) : x = 1 + begin[j] + k
       \/ body[x] = Plain("terminator", Heap, 0)
       \/ \E t \in 1..Len(texts) : body[x] = TextLeaf(t)

LEMMA HeapBody ==
  ASSUME Ready
  PROVE  /\ Body(Heap) \in Seq(LeafSet) /\ Len(Body(Heap)) \in Nat
         /\ \E begin : HeapHolds(Body(Heap), begin)
<1> DEFINE n == Len(objects)
           a == <<VarsLeaf>>
           flat == FlattenSeq(PropBlocks)
           c == <<Plain("terminator", Heap, 0)>>
<1>1. n \in Nat /\ Len(texts) \in Nat /\ \A t \in 1..Len(texts) : texts[t] \in 1..Len(script)
  BY ListsAre
<1>2. a \in Seq(LeafSet) /\ Len(a) = 1 /\ a[1] = VarsLeaf
  <2>1. VarsLeaf \in LeafSet
    BY VarsLeafIs, LeafSetIs
  <2>. QED
    BY <2>1
<1>3. c \in Seq(LeafSet) /\ Len(c) = 1 /\ c[1] = Plain("terminator", Heap, 0)
  <2>1. /\ "terminator" \in NodeKinds /\ "terminator" # "padding" /\ Heap \in Int
        /\ 0 \in Int \cup GuessedRels
    BY DEF NodeKinds, Heap
  <2>2. Plain("terminator", Heap, 0) \in LeafSet
    BY <2>1, PlainLeaf, LeafSetIs
  <2>. QED
    BY <2>2
<1>4. /\ PropBlocks \in Seq(Seq(LeafSet)) /\ Len(PropBlocks) = n
      /\ \A j \in 1..n : PropBlocks[j] = Props(objects[j])
  <2>1. PropBlocks \in [1..n -> Seq(LeafSet)] /\ \A j \in 1..n : PropBlocks[j] = Props(objects[j])
    BY PropsIs DEF PropBlocks
  <2>. QED
    BY <1>1, <2>1, SeqDef, LenProperties
<1>5. flat \in Seq(LeafSet) /\ \E begin : IsFlat(flat, begin, PropBlocks, n)
  BY <1>4, Flattened
<1>6. /\ TextLeaves \in Seq(LeafSet) /\ Len(TextLeaves) = Len(texts)
      /\ \A t \in 1..Len(texts) : TextLeaves[t] = TextLeaf(t)
  <2>1. ASSUME NEW t \in 1..Len(texts) PROVE TextLeaf(t) \in LeafSet
    <3>1. texts[t] \in 1..Len(script) /\ texts[t] \in Int /\ script[texts[t]].num \in Nat
      BY <1>1, ReadyFacts DEF IsScript
    <3>2. "text" \in NodeKinds
      BY DEF NodeKinds
    <3>3. script[texts[t]].num + 1 \in Nat /\ 0 \in Nat /\ 0 \in Int \cup GuessedRels
      BY <3>1
    <3>4. IsLeaf(TextLeaf(t))
      BY <3>1, <3>2, <3>3, SmallLeaves, NoNodeType DEF TextLeaf
    <3>. QED
      BY <3>4, LeafSetIs
  <2>2. TextLeaves \in [1..Len(texts) -> LeafSet] /\ \A t \in 1..Len(texts) : TextLeaves[t] = TextLeaf(t)
    BY <2>1 DEF TextLeaves
  <2>. QED
    BY <1>1, <2>2, SeqDef, LenProperties
<1> DEFINE body == Body(Heap)
<1>7. body = a \o flat \o c \o TextLeaves
  BY DEF Body, PropBlocks, TextLeaves, TextLeaf, Heap
<1> HIDE DEF a, c, flat, body, n
<1>8. body \in Seq(LeafSet) /\ AreFour(body, a, flat, c, TextLeaves)
  BY <1>2, <1>3, <1>5, <1>6, <1>7, FourParts
<1>9. PICK begin : IsFlat(flat, begin, PropBlocks, n)
  BY <1>5
<1>10. Len(body) \in Nat /\ Len(flat) \in Nat
  BY <1>5, <1>8, LenProperties
<1>11. 1 \in 1..Len(body) /\ body[1] = VarsLeaf
  <2>1. IsAt(a, 0, body)
    BY <1>8 DEF AreFour
  <2>2. 0 + 1 \in 1..Len(body) /\ body[0 + 1] = a[1]
    BY <1>2, <1>10, <2>1 DEF IsAt
  <2>. QED
    BY <1>2, <2>2
<1>12. ASSUME NEW j \in 1..n, NEW k \in 1..Len(Props(objects[j]))
       PROVE  1 + begin[j] + k \in 1..Len(body) /\ body[1 + begin[j] + k] = Props(objects[j])[k]
  <2>1. IsAt(flat, 1, body) /\ IsAt(PropBlocks[j], begin[j], flat) /\ PropBlocks[j] = Props(objects[j])
    BY <1>2, <1>4, <1>8, <1>9 DEF AreFour, IsFlat
  <2>2. begin[j] \in Nat /\ k \in Nat /\ begin[j] + k \in 1..Len(flat) /\ flat[begin[j] + k] = Props(objects[j])[k]
    <3>1. Len(Props(objects[j])) \in Nat
      BY PropsIs DEF n
    <3>. QED
      BY <1>10, <2>1, <3>1 DEF IsAt
  <2>3. 1 + (begin[j] + k) \in 1..Len(body) /\ body[1 + (begin[j] + k)] = flat[begin[j] + k]
    BY <1>10, <2>1, <2>2 DEF IsAt
  <2>4. 1 + (begin[j] + k) = 1 + begin[j] + k
    BY <2>2
  <2>. QED
    BY <2>2, <2>3, <2>4
<1> DEFINE m == Len(a) + Len(flat) + Len(c)
<1>13. IsAt(TextLeaves, m, body) /\ m \in Nat
  BY <1>2, <1>3, <1>8, <1>10 DEF AreFour
<1>14. ASSUME NEW t \in 1..Len(texts) PROVE m + t \in 1..Len(body) /\ body[m + t] = TextLeaf(t)
  <2> HIDE DEF m
  <2>1. t \in 1..Len(TextLeaves) /\ t \in Nat /\ Len(TextLeaves) \in Nat
    BY <1>1, <1>6
  <2>2. m + Len(TextLeaves) <= Len(body) /\ body[m + t] = TextLeaves[t]
    BY <1>13, <2>1 DEF IsAt
  <2>3. m + t \in 1..Len(body)
    BY <1>10, <1>13, <2>1, <2>2
  <2>. QED
    BY <1>6, <2>2, <2>3
<1>15. ASSUME NEW x \in 1..Len(body)
       PROVE  \/ x = 1
              \/ \E j \in 1..n : \E k \in 1..Len(Props(objects[j])) : x = 1 + begin[j] + k
              \/ body[x] = Plain("terminator", Heap, 0)
              \/ \E t \in 1..Len(texts) : body[x] = TextLeaf(t)
  <2>1. CASE x \in 1..Len(a)
    BY <1>2, <2>1
  <2>2. CASE \E y \in 1..Len(flat) : x = Len(a) + y
    <3>1. PICK y \in 1..Len(flat) : x = 1 + y
      BY <1>2, <2>2
    <3>2. PICK j \in 1..n : \E k \in 1..Len(PropBlocks[j]) : y = begin[j] + k
      BY <1>9 DEF IsFlat
    <3>3. PICK k \in 1..Len(Props(objects[j])) : y = begin[j] + k
      BY <1>4, <3>2
    <3>4. begin[j] \in Nat /\ k \in Nat
      <4>1. Len(Props(objects[j])) \in Nat
        BY PropsIs DEF n
      <4>. QED
        BY <1>1, <1>9, <4>1 DEF IsFlat
    <3>5. x = 1 + begin[j] + k
      BY <3>1, <3>3, <3>4
    <3>. QED
      BY <3>5
  <2>3. CASE \E k \in 1..Len(c) : x = Len(a) + Len(flat) + k
    <3>1. IsAt(c, Len(a) + Len(flat), body) /\ 1 \in 1..Len(c)
      BY <1>3, <1>8 DEF AreFour
    <3>2. body[Len(a) + Len(flat) + 1] = c[1] /\ x = Len(a) + Len(flat) + 1
      BY <1>3, <2>3, <3>1 DEF IsAt
    <3>. QED
      BY <1>3, <3>2
  <2>4. CASE \E t \in 1..Len(TextLeaves) : x = m + t
    BY <1>6, <1>14, <2>4
  <2>. QED
    BY <1>8, <2>1, <2>2, <2>3, <2>4 DEF AreFour
<1>16. begin \in [1..(n + 1) -> Nat]
  BY <1>9 DEF IsFlat
<1>17. \A t \in 1..Len(texts) : \E x \in 1..Len(body) : body[x] = TextLeaf(t)
  BY <1>14
<1>18. HeapHolds(body, begin)
  BY <1>11, <1>12, <1>15, <1>16, <1>17 DEF HeapHolds, n
<1>. QED
  BY <1>8, <1>10, <1>18 DEF body

-----------------------------------------------------------------------------
(* The code begins behind the dictionaries.                                *)
HunkHolds(body, begin) ==
  /\ begin \in [1..(Len(objects) + 1) -> Nat]
  /\ 3 + begin[Len(objects) + 1] + Len(code) = Len(body)
  /\ body[1] = Plain("heapAddress", Hunk, 0) /\ body[2] = Plain("farText", Hunk, 0)
  /\ 3 \in 1..Len(body) /\ body[3] = DispatchTable
  /\ \A j \in 1..Len(objects) : \A k \in 1..Len(Dictionary(objects[j])) :
       3 + begin[j] + k \in 1..Len(body) /\ body[3 + begin[j] + k] = Dictionary(objects[j])[k]
  /\ \A c \in 1..Len(code) :
       body[3 + begin[Len(objects) + 1] + c] = CodeLeaf(code[c])
  /\ \A x \in 1..Len(body) :
       \/ x \in 1..3
       \/ \E j \in 1..Len(objects) : \E k \in 1..Len(Dictionary(objects[j])) : x = 3 + begin[j] + k
       \/ \E c \in 1..Len(code) : x = 3 + begin[Len(objects) + 1] + c

LEMMA AtIn ==
  ASSUME NEW part, NEW n, NEW whole, IsAt(part, n, whole),
         Len(part) \in Nat, Len(whole) \in Nat, NEW k \in 1..Len(part)
  PROVE  n \in Nat /\ k \in Nat /\ n + k \in 1..Len(whole) /\ whole[n + k] = part[k]
BY DEF IsAt

LEMMA HunkBody ==
  ASSUME Ready
  PROVE  /\ Body(Hunk) \in Seq(LeafSet) /\ Len(Body(Hunk)) \in Nat
         /\ \E begin : HunkHolds(Body(Hunk), begin)
<1> DEFINE n == Len(objects)
           p == Plain("heapAddress", Hunk, 0)
           q == Plain("farText", Hunk, 0)
           a == <<p, q, DispatchTable>>
           flat == FlattenSeq(DictBlocks)
<1>1. /\ n \in Nat /\ Len(code) \in Nat
      /\ \A c \in 1..Len(code) : code[c] \in 1..Len(script) /\ script[code[c]].op \in CodeKinds
  BY ListsAre
<1>2. a \in Seq(LeafSet) /\ Len(a) = 3 /\ a[1] = p /\ a[2] = q /\ a[3] = DispatchTable
  <2>1. /\ "heapAddress" \in NodeKinds /\ "heapAddress" # "padding"
        /\ "farText" \in NodeKinds /\ "farText" # "padding"
        /\ Hunk \in Int /\ 0 \in Int \cup GuessedRels
    BY DEF NodeKinds, Hunk
  <2>2. p \in LeafSet
    BY <2>1, PlainLeaf, LeafSetIs
  <2>3. q \in LeafSet
    BY <2>1, PlainLeaf, LeafSetIs
  <2>4. DispatchTable \in LeafSet
    BY DispatchTableIs, LeafSetIs
  <2> HIDE DEF p, q
  <2>. QED
    BY <2>2, <2>3, <2>4
<1>3. /\ DictBlocks \in Seq(Seq(LeafSet)) /\ Len(DictBlocks) = n
      /\ \A j \in 1..n : DictBlocks[j] = Dictionary(objects[j])
  <2>1. \A j \in 1..n : Dictionary(objects[j]) \in Seq(LeafSet)
    BY DictionaryIs
  <2>2. DictBlocks \in [1..n -> Seq(LeafSet)] /\ \A j \in 1..n : DictBlocks[j] = Dictionary(objects[j])
    BY <2>1 DEF DictBlocks
  <2>. QED
    BY <1>1, <2>2, SeqDef, LenProperties
<1>4. flat \in Seq(LeafSet) /\ \E begin : IsFlat(flat, begin, DictBlocks, n)
  BY <1>3, Flattened
<1>5. /\ CodeLeaves \in Seq(LeafSet) /\ Len(CodeLeaves) = Len(code)
      /\ \A c \in 1..Len(code) : CodeLeaves[c] = CodeLeaf(code[c])
  <2>1. \A c \in 1..Len(code) : CodeLeaf(code[c]) \in LeafSet
    BY <1>1, CodeLeafIs, LeafSetIs
  <2>2. CodeLeaves \in [1..Len(code) -> LeafSet] /\ \A c \in 1..Len(code) : CodeLeaves[c] = CodeLeaf(code[c])
    BY <2>1 DEF CodeLeaves
  <2>. QED
    BY <1>1, <2>2, SeqDef, LenProperties
<1> DEFINE body == Body(Hunk)
<1>6. body = a \o flat \o CodeLeaves
  BY DEF Body, DictBlocks, CodeLeaves, Heap, Hunk
<1> HIDE DEF a, flat, body, n, p, q
<1>7. body \in Seq(LeafSet) /\ AreThree(body, a, flat, CodeLeaves)
  BY <1>2, <1>4, <1>5, <1>6, ThreeParts
<1>8. PICK begin : IsFlat(flat, begin, DictBlocks, n)
  BY <1>4
<1>9. Len(body) \in Nat /\ Len(flat) \in Nat /\ begin \in [1..(n + 1) -> Nat] /\ Len(flat) = begin[n + 1]
  BY <1>4, <1>7, <1>8, LenProperties DEF IsFlat
<1>10. body[1] = p /\ body[2] = q /\ 3 \in 1..Len(body) /\ body[3] = DispatchTable
  <2>1. IsAt(a, 0, body)
    BY <1>7 DEF AreThree
  <2>2. 0 + 3 <= Len(body) /\ body[0 + 1] = a[1] /\ body[0 + 2] = a[2] /\ body[0 + 3] = a[3]
    BY <1>2, <1>9, <2>1 DEF IsAt
  <2>. QED
    BY <1>2, <1>9, <2>2
<1>11. ASSUME NEW j \in 1..n, NEW k \in 1..Len(Dictionary(objects[j]))
       PROVE  3 + begin[j] + k \in 1..Len(body) /\ body[3 + begin[j] + k] = Dictionary(objects[j])[k]
  <2>1. IsAt(flat, 3, body) /\ IsAt(DictBlocks[j], begin[j], flat) /\ DictBlocks[j] = Dictionary(objects[j])
    BY <1>2, <1>3, <1>7, <1>8 DEF AreThree, IsFlat
  <2>2. begin[j] \in Nat /\ k \in Nat /\ begin[j] + k \in 1..Len(flat) /\ flat[begin[j] + k] = Dictionary(objects[j])[k]
    <3>1. Len(Dictionary(objects[j])) \in Nat
      BY DictionaryIs, LenProperties DEF n
    <3>2. Len(DictBlocks[j]) \in Nat /\ k \in 1..Len(DictBlocks[j])
      BY <2>1, <3>1
    <3>3. flat[begin[j] + k] = DictBlocks[j][k] /\ begin[j] + k \in 1..Len(flat) /\ k \in Nat /\ begin[j] \in Nat
      <4> DEFINE part == DictBlocks[j]
      <4>1. IsAt(part, begin[j], flat) /\ Len(part) \in Nat /\ Len(flat) \in Nat /\ k \in 1..Len(part)
        BY <1>9, <2>1, <3>2
      <4> HIDE DEF part
      <4>2. flat[begin[j] + k] = part[k] /\ begin[j] + k \in 1..Len(flat) /\ k \in Nat /\ begin[j] \in Nat
        BY <4>1, AtIn
      <4>. QED
        BY <4>2 DEF part
    <3>. QED
      BY <2>1, <3>3
  <2>3. 3 + (begin[j] + k) \in 1..Len(body) /\ body[3 + (begin[j] + k)] = flat[begin[j] + k]
    <3>1. ASSUME NEW y \in 1..Len(flat)
          PROVE  3 + y \in 1..Len(body) /\ body[3 + y] = flat[y]
      BY <1>9, <2>1, AtIn
    <3>. QED
      BY <2>2, <3>1
  <2>4. 3 + (begin[j] + k) = 3 + begin[j] + k
    BY <2>2
  <2>. QED
    BY <2>2, <2>3, <2>4
<1> DEFINE m == 3 + begin[n + 1]
<1>12. IsAt(CodeLeaves, m, body) /\ m \in Nat /\ Len(body) = m + Len(code)
  BY <1>2, <1>5, <1>7, <1>9 DEF AreThree
<1>13. ASSUME NEW c \in 1..Len(code) PROVE body[m + c] = CodeLeaf(code[c])
  <2> HIDE DEF m
  <2>. QED
    BY <1>5, <1>12 DEF IsAt
<1>14. ASSUME NEW x \in 1..Len(body)
       PROVE  \/ x \in 1..3
              \/ \E j \in 1..n : \E k \in 1..Len(Dictionary(objects[j])) : x = 3 + begin[j] + k
              \/ \E c \in 1..Len(code) : x = m + c
  <2>1. CASE x \in 1..Len(a)
    BY <1>2, <2>1
  <2>2. CASE \E y \in 1..Len(flat) : x = Len(a) + y
    <3>1. PICK y \in 1..Len(flat) : x = 3 + y
      BY <1>2, <2>2
    <3>2. PICK j \in 1..n : \E k \in 1..Len(DictBlocks[j]) : y = begin[j] + k
      BY <1>8 DEF IsFlat
    <3>3. PICK k \in 1..Len(Dictionary(objects[j])) : y = begin[j] + k
      BY <1>3, <3>2
    <3>4. begin[j] \in Nat /\ k \in Nat
      <4>1. Len(Dictionary(objects[j])) \in Nat
        BY DictionaryIs, LenProperties DEF n
      <4>. QED
        BY <1>1, <1>9, <4>1
    <3>5. x = 3 + begin[j] + k
      BY <3>1, <3>3, <3>4
    <3>. QED
      BY <3>5
  <2>3. CASE \E c \in 1..Len(CodeLeaves) : x = Len(a) + Len(flat) + c
    BY <1>2, <1>5, <1>9, <2>3
  <2>. QED
    BY <1>7, <2>1, <2>2, <2>3 DEF AreThree
<1>15. HunkHolds(body, begin)
  BY <1>9, <1>10, <1>11, <1>12, <1>13, <1>14 DEF HunkHolds, n, p, q
<1>. QED
  BY <1>7, <1>9, <1>15 DEF body

-----------------------------------------------------------------------------
(* The whole file.                                                         *)
FixupType == [node : NodeType, rel : Int \cup GuessedRels]
FixupLeaf(f, entry) == Leaf(Node("fixup", f), 2, <<Word(0, entry.node, entry.rel)>>)

FileHolds(leaves, f, table) ==
  /\ Len(leaves) = Len(Body(f)) + 3 + Len(table)
  /\ leaves[1] = Pointer("fixupOffset", f, Node("fixupTable", f))
  /\ \A x \in 1..Len(Body(f)) : leaves[x + 1] = Body(f)[x]
  /\ leaves[Len(Body(f)) + 2] = Mark("padding", f)
  /\ leaves[Len(Body(f)) + 3] = Plain("fixupTable", f, Len(table))
  /\ \A i \in 1..Len(table) : leaves[Len(Body(f)) + 3 + i] = FixupLeaf(f, table[i])

LEMMA LeavesAre ==
  ASSUME Ready, NEW f \in {Heap, Hunk}, NEW table \in Seq(FixupType)
  PROVE  /\ Leaves(f, table) \in Seq(LeafSet) /\ FileHolds(Leaves(f, table), f, table)
         /\ Len(Body(f)) \in Nat /\ Len(table) \in Nat
<1> DEFINE p == Pointer("fixupOffset", f, Node("fixupTable", f))
           a == <<p>>
           b == Body(f)
           q == Mark("padding", f)
           r == Plain("fixupTable", f, Len(table))
           c == <<q, r>>
           d == [i \in 1..Len(table) |-> FixupLeaf(f, table[i])]
<1>1. f \in Int /\ Len(table) \in Nat /\ \A i \in 1..Len(table) : table[i] \in FixupType
  BY LenProperties, ElementOfSeq DEF Heap, Hunk
<1>2. /\ "fixupOffset" \in NodeKinds /\ "fixupOffset" # "padding" /\ "padding" \in NodeKinds
      /\ "fixupTable" \in NodeKinds /\ "fixupTable" # "padding" /\ "fixup" \in NodeKinds /\ "fixup" # "padding"
  BY DEF NodeKinds
<1>3. a \in Seq(LeafSet) /\ Len(a) = 1 /\ a[1] = p
  <2>1. Node("fixupTable", f) \in NodeType
    BY <1>1, <1>2, NodeIs
  <2>2. p \in LeafSet
    BY <1>1, <1>2, <2>1, PointerLeaf, LeafSetIs
  <2>. QED
    BY <2>2
<1>4. c \in Seq(LeafSet) /\ Len(c) = 2 /\ c[1] = q /\ c[2] = r
  <2>1. q \in LeafSet
    BY <1>1, <1>2, MarkLeaf, LeafSetIs
  <2>2. r \in LeafSet
    BY <1>1, <1>2, PlainLeaf, LeafSetIs
  <2> HIDE DEF q, r
  <2>. QED
    BY <2>1, <2>2
<1>5. d \in Seq(LeafSet) /\ Len(d) = Len(table) /\ \A i \in 1..Len(table) : d[i] = FixupLeaf(f, table[i])
  <2>1. ASSUME NEW i \in 1..Len(table) PROVE FixupLeaf(f, table[i]) \in LeafSet
    <3>1. table[i].node \in NodeType /\ table[i].rel \in Int \cup GuessedRels
      BY <1>1 DEF FixupType
    <3>2. 0 \in Nat /\ 2 \in Nat /\ 0 < 2
      OBVIOUS
    <3>3. IsLeaf(FixupLeaf(f, table[i]))
      BY <1>1, <1>2, <3>1, <3>2, SmallLeaves DEF FixupLeaf
    <3>. QED
      BY <3>3, LeafSetIs
  <2>2. d \in [1..Len(table) -> LeafSet] /\ \A i \in 1..Len(table) : d[i] = FixupLeaf(f, table[i])
    BY <2>1
  <2> HIDE DEF d
  <2>. QED
    BY <1>1, <2>2, SeqDef, LenProperties
<1>6. b \in Seq(LeafSet) /\ Len(b) \in Nat
  BY HeapBody, HunkBody
<1> DEFINE leaves == Leaves(f, table)
<1>7. leaves = a \o b \o c \o d
  BY DEF Leaves, FixupLeaf
<1> HIDE DEF a, b, c, d, leaves, p, q, r
<1>8. leaves \in Seq(LeafSet) /\ AreFour(leaves, a, b, c, d)
  BY <1>3, <1>4, <1>5, <1>6, <1>7, FourParts
<1>9. /\ Len(leaves) = 1 + Len(b) + 2 + Len(d)
      /\ IsAt(a, 0, leaves) /\ IsAt(b, 1, leaves) /\ IsAt(c, 1 + Len(b), leaves)
      /\ IsAt(d, 1 + Len(b) + 2, leaves)
  BY <1>3, <1>4, <1>8 DEF AreFour
<1>10. leaves[1] = p
  <2>1. leaves[0 + 1] = a[1]
    BY <1>3, <1>9 DEF IsAt
  <2>. QED
    BY <1>3, <2>1
<1>11. ASSUME NEW x \in 1..Len(b) PROVE leaves[x + 1] = b[x]
  <2>1. leaves[1 + x] = b[x] /\ 1 + x = x + 1
    BY <1>6, <1>9 DEF IsAt
  <2>. QED
    BY <2>1
<1>12. leaves[Len(b) + 2] = q /\ leaves[Len(b) + 3] = r
  <2>1. leaves[1 + Len(b) + 1] = c[1] /\ leaves[1 + Len(b) + 2] = c[2]
    BY <1>4, <1>9 DEF IsAt
  <2>2. 1 + Len(b) + 1 = Len(b) + 2 /\ 1 + Len(b) + 2 = Len(b) + 3
    BY <1>6
  <2>. QED
    BY <1>4, <2>1, <2>2
<1>13. ASSUME NEW i \in 1..Len(table) PROVE leaves[Len(b) + 3 + i] = FixupLeaf(f, table[i])
  <2>1. leaves[1 + Len(b) + 2 + i] = d[i]
    BY <1>5, <1>9 DEF IsAt
  <2>2. 1 + Len(b) + 2 + i = Len(b) + 3 + i
    BY <1>1, <1>6
  <2>. QED
    BY <1>5, <2>1, <2>2
<1>14. Len(leaves) = Len(b) + 3 + Len(table)
  BY <1>1, <1>5, <1>6, <1>9
<1>15. FileHolds(leaves, f, table)
  BY <1>10, <1>11, <1>12, <1>13, <1>14 DEF FileHolds, b, p, q, r
<1>. QED
  BY <1>1, <1>6, <1>8, <1>15 DEF b, leaves

-----------------------------------------------------------------------------
(* Once the lists stay as they are, so does what is made of them.          *)
Frozen == UNCHANGED <<script, localVars, texts, objects, code, dispatches, target>>

LEMMA LeafStays ==
  ASSUME Frozen
  PROVE  /\ \A v : TextNode(v)' = TextNode(v)
         /\ \A s : TargetNode(s)' = TargetNode(s)
         /\ \A rel, v : LiteralWord(rel, v)' = LiteralWord(rel, v)
         /\ VarsLeaf' = VarsLeaf
         /\ \A object, id : PropLeaf(object, id)' = PropLeaf(object, id)
         /\ \A object : Props(object)' = Props(object)
         /\ \A object : Dictionary(object)' = Dictionary(object)
         /\ DispatchTable' = DispatchTable
         /\ \A id : CodeLeaf(id)' = CodeLeaf(id)
<1>0. /\ script' = script /\ localVars' = localVars /\ texts' = texts /\ objects' = objects
      /\ code' = code /\ dispatches' = dispatches /\ target' = target
  BY DEF Frozen
<1>1. ASSUME NEW v PROVE TextNode(v)' = TextNode(v)
  BY <1>0 DEF TextNode
<1>2. ASSUME NEW s PROVE TargetNode(s)' = TargetNode(s)
  BY <1>0 DEF TargetNode
<1>3. ASSUME NEW rel, NEW v PROVE LiteralWord(rel, v)' = LiteralWord(rel, v)
  BY <1>1 DEF LiteralWord
<1>4. VarsLeaf' = VarsLeaf
  BY <1>0, <1>3 DEF VarsLeaf
<1>5. ASSUME NEW object, NEW id PROVE PropLeaf(object, id)' = PropLeaf(object, id)
  BY <1>0, <1>3 DEF PropLeaf
<1>6. ASSUME NEW object PROVE Props(object)' = Props(object)
  BY <1>5 DEF Props
<1>7. ASSUME NEW object PROVE Dictionary(object)' = Dictionary(object)
  BY <1>0, <1>2 DEF Dictionary
<1>8. DispatchTable' = DispatchTable
  BY <1>0, <1>2 DEF DispatchTable
<1>9. ASSUME NEW id PROVE CodeLeaf(id)' = CodeLeaf(id)
  BY <1>0, <1>1, <1>2 DEF CodeLeaf
<1>. QED
  BY <1>1, <1>2, <1>3, <1>4, <1>5, <1>6, <1>7, <1>8, <1>9

(* The offsets of leaves one behind the other.                             *)
Numbered(leaves) ==
  [node \in {leaves[i].node : i \in 1..Len(leaves)} |->
     Starts(leaves)[CHOOSE i \in 1..Len(leaves) : leaves[i].node = node]]

LEMMA FileStays ==
  ASSUME Frozen
  PROVE  /\ \A f : Body(f)' = Body(f)
         /\ \A node : IsInHeap(node)' <=> IsInHeap(node)
         /\ \A f, table : Leaves(f, table)' = Leaves(f, table)
         /\ \A f, table : SetOffset(f, table)' = SetOffset(f, table)
         /\ \A f : CollectFixups(f)' = CollectFixups(f)
         /\ \A f, table, offsets, unset :
              Written(f, table, offsets, unset)' = Written(f, table, offsets, unset)
<1>0. /\ script' = script /\ localVars' = localVars /\ texts' = texts /\ objects' = objects
      /\ code' = code /\ dispatches' = dispatches /\ target' = target
  BY DEF Frozen
<1>1. ASSUME NEW f PROVE Body(f)' = Body(f)
  BY <1>0, LeafStays DEF Body
<1>2. ASSUME NEW node PROVE IsInHeap(node)' <=> IsInHeap(node)
  <2>1. HeapNodes' = HeapNodes
    BY <1>1 DEF HeapNodes
  <2>. QED
    BY <2>1 DEF IsInHeap
<1>3. ASSUME NEW f, NEW table PROVE Leaves(f, table)' = Leaves(f, table)
  BY <1>1 DEF Leaves
<1>4. ASSUME NEW f, NEW table PROVE SetOffset(f, table)' = SetOffset(f, table)
  <2>1. SetOffset(f, table) = Numbered(Leaves(f, table))
    BY DEF SetOffset, Numbered
  <2>2. SetOffset(f, table)' = Numbered(Leaves(f, table)')
    BY DEF SetOffset, Numbered
  <2>. QED
    BY <1>3, <2>1, <2>2
<1>5. ASSUME NEW leaf PROVE FixupsOfLeaf(leaf)' = FixupsOfLeaf(leaf)
  <2>1. ASSUME NEW word PROVE NeedsFixup(leaf, word)' <=> NeedsFixup(leaf, word)
    BY <1>2 DEF NeedsFixup
  <2> DEFINE public(i) == IF IsInHeap(TargetNode(dispatches[i]))
                          THEN <<Fixup(Node("dispatch", dispatches[i]), 0)>> ELSE <<>>
             used(k) == IF NeedsFixup(leaf, leaf.words[k])
                        THEN <<Fixup(leaf.node, leaf.words[k].rel)>> ELSE <<>>
  <2>2. ASSUME NEW i PROVE public(i)' = public(i)
    <3>1. TargetNode(dispatches[i])' = TargetNode(dispatches[i])
      BY <1>0, LeafStays
    <3>2. IsInHeap(TargetNode(dispatches[i]))' <=> IsInHeap(TargetNode(dispatches[i]))
      BY <1>2, <3>1
    <3>. QED
      BY <1>0, <3>2
  <2>3. ASSUME NEW k PROVE used(k)' = used(k)
    BY <2>1
  <2>4. [i \in 1..Len(dispatches) |-> public(i)]' = [i \in 1..Len(dispatches) |-> public(i)]
    <3> HIDE DEF public
    <3>. QED
      BY <1>0, <2>2
  <2>5. [k \in 1..Len(leaf.words) |-> used(k)]' = [k \in 1..Len(leaf.words) |-> used(k)]
    <3> HIDE DEF used
    <3>. QED
      BY <2>3
  <2>. QED
    BY <2>4, <2>5 DEF FixupsOfLeaf
<1>6. ASSUME NEW f PROVE CollectFixups(f)' = CollectFixups(f)
  BY <1>1, <1>5 DEF CollectFixups
<1>7. ASSUME NEW f, NEW table, NEW offsets, NEW unset
      PROVE  Written(f, table, offsets, unset)' = Written(f, table, offsets, unset)
  BY <1>3 DEF Written
<1>. QED
  BY <1>1, <1>2, <1>3, <1>4, <1>6, <1>7

-----------------------------------------------------------------------------
(* The files, from their offsets to their words.                           *)
FirstOffsets == Over(SetOffset(Heap, <<>>), SetOffset(Hunk, <<>>))
HeapOffsets == Over(SetOffset(Heap, fixups[Heap]), FirstOffsets)
HunkOffsets == Over(SetOffset(Hunk, fixups[Hunk]), HeapOffsets)

Guessed(holes) ==
  [i \in 1..Cardinality(holes) |-> Fixup(Node("vars", 0), 2 * Sorted(holes)[i])]

FilesInv ==
  /\ DOMAIN out = {Heap, Hunk} /\ DOMAIN fixups = {Heap, Hunk}
  /\ phase = "laid out" => offset = FirstOffsets
  /\ phase = "heap written" => offset = HeapOffsets
  /\ phase \in {"heap written", "done"} =>
       /\ \E holes \in SUBSET Holes : fixups[Heap] = CollectFixups(Heap) \o Guessed(holes)
       /\ out[Heap] = Written(Heap, fixups[Heap], HeapOffsets, 0)
  /\ phase = "done" =>
       /\ fixups[Hunk] = CollectFixups(Hunk) \o <<>>
       /\ \E unset \in UnsetOffsets : out[Hunk] = Written(Hunk, fixups[Hunk], HunkOffsets, unset)

LEMMA InitFiles ==
  ASSUME Init
  PROVE  FilesInv
<1>1. DOMAIN out = {Heap, Hunk} /\ DOMAIN fixups = {Heap, Hunk}
  BY DEF Init, Heap, Hunk
<1>2. phase = "building"
  BY DEF Init
<1>. QED
  BY <1>1, <1>2 DEF FilesInv

LEMMA OffsetsStay ==
  ASSUME Frozen
  PROVE  /\ FirstOffsets' = FirstOffsets /\ Holes' = Holes
         /\ fixups'[Heap] = fixups[Heap] => HeapOffsets' = HeapOffsets
         /\ fixups'[Heap] = fixups[Heap] /\ fixups'[Hunk] = fixups[Hunk] => HunkOffsets' = HunkOffsets
<1>1. \A f, table : SetOffset(f, table)' = SetOffset(f, table)
  BY FileStays
<1>2. FirstOffsets' = FirstOffsets
  BY <1>1 DEF FirstOffsets
<1>3. fixups'[Heap] = fixups[Heap] => HeapOffsets' = HeapOffsets
  BY <1>1, <1>2 DEF HeapOffsets
<1>4. fixups'[Heap] = fixups[Heap] /\ fixups'[Hunk] = fixups[Hunk] => HunkOffsets' = HunkOffsets
  BY <1>1, <1>3 DEF HunkOffsets
<1>5. Holes' = Holes
  BY DEF Frozen, Holes
<1>. QED
  BY <1>2, <1>3, <1>4, <1>5

LEMMA NextFiles ==
  ASSUME FilesInv, [Next]_vars
  PROVE  FilesInv'
<1>1. CASE phase = "building" /\ phase' = "building" /\ UNCHANGED fileVars
  <2>1. out' = out /\ fixups' = fixups
    BY <1>1 DEF fileVars
  <2>2. DOMAIN out' = {Heap, Hunk} /\ DOMAIN fixups' = {Heap, Hunk}
    BY <2>1 DEF FilesInv
  <2>. QED
    BY <1>1, <2>2 DEF FilesInv
<1>2. CASE LayOut
  <2>1. Frozen /\ out' = out /\ fixups' = fixups /\ phase' = "laid out" /\ offset' = FirstOffsets
    BY <1>2 DEF LayOut, Frozen, listVars, refVars, FirstOffsets
  <2>2. DOMAIN out' = {Heap, Hunk} /\ DOMAIN fixups' = {Heap, Hunk}
    BY <2>1 DEF FilesInv
  <2>3. offset' = FirstOffsets'
    BY <2>1, OffsetsStay
  <2>. QED
    BY <2>1, <2>2, <2>3 DEF FilesInv
<1>3. CASE EmitHeap
  <2>1. PICK holes \in SUBSET Holes : Emit(Heap, Guessed(holes), 0)
    BY <1>3 DEF EmitHeap, Guessed, Sorted
  <2> DEFINE table == CollectFixups(Heap) \o Guessed(holes)
  <2>2. /\ Frozen /\ phase = "laid out" /\ phase' = "heap written"
        /\ fixups' = [fixups EXCEPT ![Heap] = table]
        /\ offset' = Over(SetOffset(Heap, table), offset)
        /\ out' = [out EXCEPT ![Heap] = Written(Heap, table, Over(SetOffset(Heap, table), offset), 0)]
    BY <1>3, <2>1 DEF EmitHeap, Emit, Frozen, listVars, refVars
  <2>3. CollectFixups(Heap)' = CollectFixups(Heap) /\ Guessed(holes)' = Guessed(holes) /\ Holes' = Holes
    BY <2>2, FileStays, OffsetsStay
  <2>4. table' = table
    BY <2>3
  <2> HIDE DEF table
  <2>5. /\ DOMAIN out' = {Heap, Hunk} /\ DOMAIN fixups' = {Heap, Hunk}
        /\ fixups'[Heap] = table /\ offset = FirstOffsets
        /\ out'[Heap] = Written(Heap, table, Over(SetOffset(Heap, table), offset), 0)
    BY <2>2 DEF FilesInv
  <2>6. offset' = HeapOffsets'
    <3>1. SetOffset(Heap, table)' = SetOffset(Heap, table) /\ FirstOffsets' = FirstOffsets
      BY <2>2, <2>4, FileStays, OffsetsStay
    <3>2. HeapOffsets' = Over(SetOffset(Heap, table)', FirstOffsets')
      BY <2>4, <2>5 DEF HeapOffsets
    <3>. QED
      BY <2>2, <2>5, <3>1, <3>2
  <2>7. out'[Heap] = Written(Heap, fixups[Heap], HeapOffsets, 0)'
    <3>1. out'[Heap] = Written(Heap, table, offset', 0)
      BY <2>2, <2>5
    <3>2. PICK o : o = offset'
      OBVIOUS
    <3>3. PICK l : l = table
      OBVIOUS
    <3>4. Written(Heap, l, o, 0)' = Written(Heap, l, o, 0)
      BY <2>2, FileStays
    <3>5. o = HeapOffsets' /\ l = fixups'[Heap]
      BY <2>5, <2>6, <3>2, <3>3
    <3>. QED
      BY <3>1, <3>2, <3>3, <3>4, <3>5
  <2>8. (\E h \in SUBSET Holes : fixups[Heap] = CollectFixups(Heap) \o Guessed(h))'
    <3>1. fixups'[Heap] = CollectFixups(Heap)' \o Guessed(holes)'
      BY <2>3, <2>5 DEF table
    <3>. QED
      BY <2>3, <3>1
  <2>. QED
    BY <2>2, <2>5, <2>6, <2>7, <2>8 DEF FilesInv
<1>4. CASE EmitHunk
  <2>1. PICK unset \in UnsetOffsets : Emit(Hunk, <<>>, unset)
    BY <1>4 DEF EmitHunk
  <2> DEFINE table == CollectFixups(Hunk) \o <<>>
  <2>2. /\ Frozen /\ phase = "heap written" /\ phase' = "done"
        /\ fixups' = [fixups EXCEPT ![Hunk] = table]
        /\ offset' = Over(SetOffset(Hunk, table), offset)
        /\ out' = [out EXCEPT ![Hunk] = Written(Hunk, table, Over(SetOffset(Hunk, table), offset), unset)]
    BY <1>4, <2>1 DEF EmitHunk, Emit, Frozen, listVars, refVars
  <2>3. CollectFixups(Hunk)' = CollectFixups(Hunk) /\ CollectFixups(Heap)' = CollectFixups(Heap) /\ Holes' = Holes
    BY <2>2, FileStays, OffsetsStay
  <2>4. table' = table
    BY <2>3
  <2>10. fixups'[Hunk] = CollectFixups(Hunk)' \o <<>>
    BY <2>2, <2>3 DEF FilesInv
  <2> HIDE DEF table
  <2>5. /\ DOMAIN out' = {Heap, Hunk} /\ DOMAIN fixups' = {Heap, Hunk}
        /\ fixups'[Hunk] = table /\ fixups'[Heap] = fixups[Heap] /\ offset = HeapOffsets
        /\ out'[Heap] = out[Heap]
        /\ out'[Hunk] = Written(Hunk, table, Over(SetOffset(Hunk, table), offset), unset)
    <3>1. Heap # Hunk
      BY DEF Heap, Hunk
    <3>2. DOMAIN out = {Heap, Hunk} /\ DOMAIN fixups = {Heap, Hunk} /\ offset = HeapOffsets
      BY <2>2 DEF FilesInv
    <3> DEFINE w == Written(Hunk, table, Over(SetOffset(Hunk, table), offset), unset)
    <3>3. out' = [out EXCEPT ![Hunk] = w] /\ fixups' = [fixups EXCEPT ![Hunk] = table]
      BY <2>2
    <3> HIDE DEF w
    <3>4. /\ DOMAIN out' = {Heap, Hunk} /\ out'[Heap] = out[Heap] /\ out'[Hunk] = w
      BY <3>1, <3>2, <3>3
    <3>5. /\ DOMAIN fixups' = {Heap, Hunk} /\ fixups'[Heap] = fixups[Heap] /\ fixups'[Hunk] = table
      BY <3>1, <3>2, <3>3
    <3>. QED
      BY <3>2, <3>4, <3>5 DEF w
  <2>6. HeapOffsets' = HeapOffsets /\ SetOffset(Hunk, table)' = SetOffset(Hunk, table)
    BY <2>2, <2>4, <2>5, FileStays, OffsetsStay
  <2>7. offset' = HunkOffsets'
    <3>1. HunkOffsets' = Over(SetOffset(Hunk, table)', HeapOffsets')
      BY <2>4, <2>5 DEF HunkOffsets
    <3>. QED
      BY <2>2, <2>5, <2>6, <3>1
  <2>8. out'[Hunk] = Written(Hunk, fixups[Hunk], HunkOffsets, unset)'
    <3>1. out'[Hunk] = Written(Hunk, table, offset', unset)
      BY <2>2, <2>5
    <3>2. PICK o : o = offset'
      OBVIOUS
    <3>3. PICK l : l = table
      OBVIOUS
    <3>4. Written(Hunk, l, o, unset)' = Written(Hunk, l, o, unset)
      BY <2>2, FileStays
    <3>5. o = HunkOffsets' /\ l = fixups'[Hunk]
      BY <2>5, <2>7, <3>2, <3>3
    <3>. QED
      BY <3>1, <3>2, <3>3, <3>4, <3>5
  <2>9. /\ (\E h \in SUBSET Holes : fixups[Heap] = CollectFixups(Heap) \o Guessed(h))'
        /\ out'[Heap] = Written(Heap, fixups[Heap], HeapOffsets, 0)'
    <3>1. PICK h \in SUBSET Holes : fixups[Heap] = CollectFixups(Heap) \o Guessed(h)
      BY <2>2 DEF FilesInv
    <3>2. Guessed(h)' = Guessed(h)
      OBVIOUS
    <3>3. out[Heap] = Written(Heap, fixups[Heap], HeapOffsets, 0)
      BY <2>2 DEF FilesInv
    <3>4. PICK t : t = fixups[Heap]
      OBVIOUS
    <3>5. PICK o : o = HeapOffsets
      OBVIOUS
    <3>6. Written(Heap, t, o, 0)' = Written(Heap, t, o, 0)
      BY <2>2, FileStays
    <3>7. t = fixups'[Heap] /\ o = HeapOffsets'
      BY <2>5, <2>6, <3>4, <3>5
    <3>8. out'[Heap] = Written(Heap, fixups[Heap], HeapOffsets, 0)'
      BY <2>5, <3>3, <3>4, <3>5, <3>6, <3>7
    <3>. QED
      BY <2>3, <2>5, <3>1, <3>2, <3>8
  <2>. QED
    BY <2>2, <2>5, <2>7, <2>8, <2>9, <2>10 DEF FilesInv
<1>5. CASE UNCHANGED vars
  <2>1. Frozen /\ out' = out /\ fixups' = fixups /\ offset' = offset /\ phase' = phase
    BY <1>5 DEF vars, Frozen, listVars, refVars, fileVars
  <2>2. HeapOffsets' = HeapOffsets /\ HunkOffsets' = HunkOffsets /\ FirstOffsets' = FirstOffsets /\ Holes' = Holes
    BY <2>1, OffsetsStay
  <2>3. /\ \A f : CollectFixups(f)' = CollectFixups(f)
        /\ \A f, table, offsets, unset :
             Written(f, table, offsets, unset)' = Written(f, table, offsets, unset)
    BY <2>1, FileStays
  <2>4. ASSUME NEW h PROVE Guessed(h)' = Guessed(h)
    OBVIOUS
  <2>. QED
    BY <2>1, <2>2, <2>3, <2>4 DEF FilesInv
<1>6. ASSUME NEW kinds, Called(kinds)
      PROVE  phase = "building" /\ phase' = "building" /\ UNCHANGED fileVars
  BY <1>6 DEF Called
<1>. QED
  BY <1>1, <1>2, <1>3, <1>4, <1>5, <1>6
  DEF Next, SetVar, AddTextNode, CreateObject, AppendProperty, AppendMethod, CreateFunction, AddOp,
      AddReference, AddPublic

-----------------------------------------------------------------------------
(* The kinds of nodes tell the files apart, and their bodies from the rest. *)
HeapKinds == {"vars", "props", "prop", "terminator", "text"}
HunkKinds ==
  {"heapAddress", "farText", "dispatchTable", "propDict", "selector", "methDict", "method", "code"}
FrameKinds == {"fixupOffset", "padding", "fixupTable", "fixup"}

KindsOf(f) == IF f = Heap THEN HeapKinds ELSE HunkKinds

LEMMA KindsApart ==
  ASSUME NEW kind
  PROVE  /\ ~(kind \in HeapKinds /\ kind \in HunkKinds)
         /\ kind \in HeapKinds \cup HunkKinds => kind \notin FrameKinds /\ kind # "none"
BY DEF HeapKinds, HunkKinds, FrameKinds

LEMMA HeapBodyKinds ==
  ASSUME Ready, NEW x \in 1..Len(Body(Heap))
  PROVE  Body(Heap)[x].node[1] \in HeapKinds
<1>1. PICK begin : HeapHolds(Body(Heap), begin)
  BY HeapBody
<1> DEFINE body == Body(Heap)
<1> HIDE DEF body
<1>2. HeapHolds(body, begin) /\ x \in 1..Len(body)
  BY <1>1 DEF body
<1>3. CASE x = 1
  <2>1. body[x] = VarsLeaf
    BY <1>2, <1>3 DEF HeapHolds
  <2>. QED
    BY <2>1, VarsLeafIs DEF body, Node, HeapKinds
<1>4. CASE \E j \in 1..Len(objects) : \E k \in 1..Len(Props(objects[j])) : x = 1 + begin[j] + k
  <2>0. PICK j \in 1..Len(objects) : \E k \in 1..Len(Props(objects[j])) : x = 1 + begin[j] + k
    BY <1>4
  <2>1. PICK k \in 1..Len(Props(objects[j])) : x = 1 + begin[j] + k
    BY <2>0
  <2>2. body[x] = Props(objects[j])[k]
    BY <1>2, <2>1 DEF HeapHolds
  <2>3. /\ Len(Props(objects[j])) = Len(objects[j].props) + 1 /\ Len(objects[j].props) \in Nat
        /\ Props(objects[j])[1] = Mark("props", objects[j].id)
        /\ \A i \in 1..Len(objects[j].props) :
             /\ objects[j].props[i] \in 1..Len(script) /\ script[objects[j].props[i]].op \in PropKinds
             /\ Props(objects[j])[i + 1] = PropLeaf(objects[j], objects[j].props[i])
    BY PropsIs
  <2>4. CASE k = 1
    BY <2>2, <2>3, <2>4 DEF body, Mark, Leaf, Node, HeapKinds
  <2>5. CASE k # 1
    <3>1. k - 1 \in 1..Len(objects[j].props) /\ (k - 1) + 1 = k
      BY <2>3, <2>5
    <3> DEFINE id == objects[j].props[k - 1]
    <3>2. body[x] = PropLeaf(objects[j], id) /\ id \in 1..Len(script) /\ script[id].op \in PropKinds
      BY <2>2, <2>3, <3>1
    <3>3. objects[j] \in ObjectType
      BY ObjectIs
    <3> HIDE DEF id
    <3>4. body[x].node = Node("prop", id)
      BY <3>2, <3>3, PropLeafIs
    <3>. QED
      BY <3>4 DEF body, Node, HeapKinds
  <2>. QED
    BY <2>4, <2>5
<1>5. CASE body[x] = Plain("terminator", Heap, 0)
  BY <1>5 DEF body, Plain, Leaf, Node, HeapKinds
<1>6. CASE \E t \in 1..Len(texts) : body[x] = TextLeaf(t)
  BY <1>6 DEF body, TextLeaf, Leaf, Node, HeapKinds
<1>. QED
  BY <1>2, <1>3, <1>4, <1>5, <1>6 DEF HeapHolds

(* What leaf k of the dictionary of object o is.                           *)
DictionaryLeaf(o, k) ==
  \/ k = 1 /\ Dictionary(o)[k] = Mark("propDict", o.id)
  \/ \E i \in 1..SelectorsOf(o) :
       k = 1 + i /\ Dictionary(o)[k] = Plain("selector", o.props[i], script[o.props[i]].num)
  \/ k = SelectorsOf(o) + 2 /\ Dictionary(o)[k] = Plain("methDict", o.id, Len(o.methods))
  \/ \E i \in 1..Len(o.methods) :
       /\ k = SelectorsOf(o) + 2 * i + 1
       /\ Dictionary(o)[k] = Plain("selector", o.methods[i], script[o.methods[i]].num)
  \/ \E i \in 1..Len(o.methods) :
       /\ k = SelectorsOf(o) + 2 * i + 2
       /\ Dictionary(o)[k] = Pointer("method", o.methods[i], TargetNode(o.methods[i]))

LEMMA DictionaryCases ==
  ASSUME Ready, NEW j \in 1..Len(objects), NEW k \in 1..Len(Dictionary(objects[j])), NEW o, o = objects[j]
  PROVE  DictionaryLeaf(o, k)
<1> DEFINE n == SelectorsOf(o)
           m == Len(o.methods)
           d == Dictionary(o)
<1>1. /\ n \in Nat /\ m \in Nat /\ Len(d) = n + 2 * m + 2
      /\ d[1] = Mark("propDict", o.id)
      /\ \A i \in 1..n : d[1 + i] = Plain("selector", o.props[i], script[o.props[i]].num)
      /\ d[n + 2] = Plain("methDict", o.id, m)
      /\ \A i \in 1..m :
           /\ d[n + 2 * i + 1] = Plain("selector", o.methods[i], script[o.methods[i]].num)
           /\ d[n + 2 * i + 2] = Pointer("method", o.methods[i], TargetNode(o.methods[i]))
  BY DictionaryIs
<1>2. k \in 1..Len(d)
  OBVIOUS
<1> HIDE DEF n, m, d
<1>3. CASE k \in 2..(n + 1)
  <2>1. k - 1 \in 1..n /\ k = 1 + (k - 1)
    BY <1>1, <1>3
  <2>2. d[k] = Plain("selector", o.props[k - 1], script[o.props[k - 1]].num)
    BY <1>1, <2>1
  <2>. QED
    BY <2>1, <2>2 DEF n, d, DictionaryLeaf
<1>4. CASE k \in (n + 3)..(n + 2 * m + 2)
  <2> DEFINE r == k - (n + 2)
  <2>0. n \in Nat /\ m \in Nat /\ 2 * m \in Nat
    BY <1>1
  <2>1. r \in 1..(2 * m) /\ k = n + r + 2
    BY <1>4, <2>0
  <2> HIDE DEF r
  <2>2. r % 2 = 0 \/ r % 2 = 1
    BY <2>1
  <2>3. CASE r % 2 = 0
    <3>1. r \div 2 \in 1..m /\ r = 2 * (r \div 2)
      BY <1>1, <2>1, <2>3
    <3>2. PICK i \in 1..m : r = 2 * i
      BY <3>1
    <3>3. k = n + 2 * i + 2
      BY <1>1, <2>1, <3>2
    <3>. QED
      BY <1>1, <3>3 DEF n, m, d, DictionaryLeaf
  <2>4. CASE r % 2 = 1
    <3>1. (r + 1) \div 2 \in 1..m /\ r = 2 * ((r + 1) \div 2) - 1
      BY <2>0, <2>1, <2>4
    <3>2. PICK i \in 1..m : r = 2 * i - 1
      BY <3>1
    <3>3. k = n + 2 * i + 1
      BY <1>1, <2>1, <3>2
    <3>. QED
      BY <1>1, <3>3 DEF n, m, d, DictionaryLeaf
  <2>. QED
    BY <2>2, <2>3, <2>4
<1>5. CASE k = 1
  BY <1>1, <1>5 DEF d, DictionaryLeaf
<1>6. CASE k = n + 2
  BY <1>1, <1>6 DEF d, n, m, DictionaryLeaf
<1>7. k = 1 \/ k \in 2..(n + 1) \/ k = n + 2 \/ k \in (n + 3)..(n + 2 * m + 2)
  BY <1>1, <1>2
<1>. QED
  BY <1>3, <1>4, <1>5, <1>6, <1>7

LEMMA HunkBodyKinds ==
  ASSUME Ready, NEW x \in 1..Len(Body(Hunk))
  PROVE  Body(Hunk)[x].node[1] \in HunkKinds
<1>1. PICK begin : HunkHolds(Body(Hunk), begin)
  BY HunkBody
<1> DEFINE body == Body(Hunk)
<1> HIDE DEF body
<1>2. HunkHolds(body, begin) /\ x \in 1..Len(body)
  BY <1>1 DEF body
<1>3. CASE x \in 1..3
  <2>1. \/ body[x] = Plain("heapAddress", Hunk, 0)
        \/ body[x] = Plain("farText", Hunk, 0)
        \/ body[x] = DispatchTable
    BY <1>2, <1>3 DEF HunkHolds
  <2>. QED
    BY <2>1, DispatchTableIs DEF body, Plain, Leaf, Node, HunkKinds
<1>4. CASE \E j \in 1..Len(objects) : \E k \in 1..Len(Dictionary(objects[j])) : x = 3 + begin[j] + k
  <2>0. PICK j \in 1..Len(objects) : \E k \in 1..Len(Dictionary(objects[j])) : x = 3 + begin[j] + k
    BY <1>4
  <2>1. PICK k \in 1..Len(Dictionary(objects[j])) : x = 3 + begin[j] + k
    BY <2>0
  <2>2. PICK o : o = objects[j]
    OBVIOUS
  <2>3. body[x] = Dictionary(o)[k]
    BY <1>2, <2>1, <2>2 DEF HunkHolds
  <2>4. /\ \A kind, id : Mark(kind, id).node[1] = kind
        /\ \A kind, id, v : Plain(kind, id, v).node[1] = kind
        /\ \A kind, id, to : Pointer(kind, id, to).node[1] = kind
    BY DEF Mark, Plain, Pointer, Leaf, Node
  <2>5. Dictionary(o)[k].node[1] \in {"propDict", "selector", "methDict", "method"}
    <3>1. CASE Dictionary(o)[k] = Mark("propDict", o.id)
      BY <2>4, <3>1
    <3>2. CASE \E i \in 1..SelectorsOf(o) :
                 Dictionary(o)[k] = Plain("selector", o.props[i], script[o.props[i]].num)
      BY <2>4, <3>2
    <3>3. CASE Dictionary(o)[k] = Plain("methDict", o.id, Len(o.methods))
      BY <2>4, <3>3
    <3>4. CASE \E i \in 1..Len(o.methods) :
                 Dictionary(o)[k] = Plain("selector", o.methods[i], script[o.methods[i]].num)
      BY <2>4, <3>4
    <3>5. CASE \E i \in 1..Len(o.methods) :
                 Dictionary(o)[k] = Pointer("method", o.methods[i], TargetNode(o.methods[i]))
      BY <2>4, <3>5
    <3>6. k \in 1..Len(Dictionary(objects[j])) /\ o = objects[j]
      BY <2>2
    <3>7. DictionaryLeaf(o, k)
      BY <3>6, DictionaryCases
    <3>. QED
      BY <3>1, <3>2, <3>3, <3>4, <3>5, <3>7 DEF DictionaryLeaf
  <2>. QED
    BY <2>3, <2>5 DEF body, HunkKinds
<1>5. CASE \E c \in 1..Len(code) : x = 3 + begin[Len(objects) + 1] + c
  <2>1. PICK c \in 1..Len(code) : body[x] = CodeLeaf(code[c])
    BY <1>2, <1>5 DEF HunkHolds
  <2>2. code[c] \in 1..Len(script) /\ script[code[c]].op \in CodeKinds
    BY ListsAre
  <2>3. body[x].node = Node("code", code[c])
    BY <2>1, <2>2, CodeLeafIs
  <2>. QED
    BY <2>3 DEF body, Node, HunkKinds
<1>. QED
  BY <1>2, <1>3, <1>4, <1>5 DEF HunkHolds

LEMMA BodyKinds ==
  ASSUME Ready, NEW f \in {Heap, Hunk}, NEW x \in 1..Len(Body(f))
  PROVE  Body(f)[x].node[1] \in KindsOf(f)
BY HeapBodyKinds, HunkBodyKinds DEF KindsOf, Heap, Hunk

-----------------------------------------------------------------------------
(* What is in the fixup tables.                                            *)
LEMMA LeafFixups ==
  ASSUME Ready, NEW leaf \in LeafSet
  PROVE  FixupsOfLeaf(leaf) \in Seq(FixupType)
<1>1. leaf.node \in NodeType /\ leaf.words \in Seq(WordType)
  BY DEF LeafSet, LeafType
<1>2. <<>> \in Seq(FixupType)
  OBVIOUS
<1>3. CASE leaf.node[1] = "dispatchTable"
  <2> DEFINE one(i) == IF IsInHeap(TargetNode(dispatches[i]))
                       THEN <<Fixup(Node("dispatch", dispatches[i]), 0)>> ELSE <<>>
             seqs == [i \in 1..Len(dispatches) |-> one(i)]
  <2>1. Len(dispatches) \in Nat /\ \A i \in 1..Len(dispatches) : dispatches[i] \in Int
    BY DispatchTableIs
  <2>2. ASSUME NEW i \in 1..Len(dispatches) PROVE one(i) \in Seq(FixupType)
    <3>1. Node("dispatch", dispatches[i]) \in NodeType
      BY <2>1, NodeIs DEF NodeKinds
    <3>2. Fixup(Node("dispatch", dispatches[i]), 0) \in FixupType
      BY <3>1 DEF Fixup, FixupType
    <3>. QED
      BY <1>2, <3>2
  <2> HIDE DEF one
  <2>3. seqs \in [1..Len(dispatches) -> Seq(FixupType)]
    BY <2>2
  <2>4. seqs \in Seq(Seq(FixupType))
    BY <2>1, <2>3, SeqDef
  <2>5. FlattenSeq(seqs) \in Seq(FixupType)
    <3> HIDE DEF seqs
    <3>. QED
      BY <2>4, Flattened
  <2>6. FixupsOfLeaf(leaf) = FlattenSeq(seqs)
    BY <1>3 DEF FixupsOfLeaf, one
  <2>. QED
    BY <2>5, <2>6
<1>4. CASE leaf.node[1] # "dispatchTable"
  <2> DEFINE one(k) == IF NeedsFixup(leaf, leaf.words[k])
                       THEN <<Fixup(leaf.node, leaf.words[k].rel)>> ELSE <<>>
             seqs == [k \in 1..Len(leaf.words) |-> one(k)]
  <2>1. Len(leaf.words) \in Nat /\ \A k \in 1..Len(leaf.words) : leaf.words[k] \in WordType
    BY <1>1, LenProperties, ElementOfSeq
  <2>2. ASSUME NEW k \in 1..Len(leaf.words) PROVE one(k) \in Seq(FixupType)
    <3>1. leaf.words[k].rel \in Nat
      BY <2>1 DEF WordType
    <3>2. Fixup(leaf.node, leaf.words[k].rel) \in FixupType
      BY <1>1, <3>1 DEF Fixup, FixupType
    <3>. QED
      BY <1>2, <3>2
  <2> HIDE DEF one
  <2>3. seqs \in [1..Len(leaf.words) -> Seq(FixupType)]
    BY <2>2
  <2>4. seqs \in Seq(Seq(FixupType))
    BY <2>1, <2>3, SeqDef
  <2>5. FlattenSeq(seqs) \in Seq(FixupType)
    <3> HIDE DEF seqs
    <3>. QED
      BY <2>4, Flattened
  <2>6. FixupsOfLeaf(leaf) = FlattenSeq(seqs)
    BY <1>4 DEF FixupsOfLeaf, one
  <2>. QED
    BY <2>5, <2>6
<1>. QED
  BY <1>3, <1>4

LEMMA CollectedFixups ==
  ASSUME Ready, NEW f \in {Heap, Hunk}
  PROVE  CollectFixups(f) \in Seq(FixupType)
<1> DEFINE body == Body(f)
           seqs == [i \in 1..Len(body) |-> FixupsOfLeaf(body[i])]
<1>1. body \in Seq(LeafSet) /\ Len(body) \in Nat
  BY HeapBody, HunkBody
<1> HIDE DEF body
<1>2. ASSUME NEW i \in 1..Len(body) PROVE FixupsOfLeaf(body[i]) \in Seq(FixupType)
  <2>1. body[i] \in LeafSet
    BY <1>1, ElementOfSeq
  <2>. QED
    BY <2>1, LeafFixups
<1>3. seqs \in [1..Len(body) -> Seq(FixupType)]
  BY <1>2
<1>4. seqs \in Seq(Seq(FixupType))
  BY <1>1, <1>3, SeqDef
<1>5. FlattenSeq(seqs) \in Seq(FixupType)
  <2> HIDE DEF seqs
  <2>. QED
    BY <1>4, Flattened
<1>. QED
  BY <1>5 DEF CollectFixups, body

LEMMA GuessedFixups ==
  ASSUME Ready, NEW holes \in SUBSET Holes
  PROVE  Guessed(holes) \in Seq(FixupType)
<1>1. Cardinality(holes) \in Nat
  <2>1. Len(localVars) \in Nat
    BY VarsLeafIs
  <2>2. IsFiniteSet(1..Len(localVars))
    BY <2>1, FS_Interval
  <2>3. holes \subseteq 1..Len(localVars)
    BY DEF Holes
  <2>. QED
    BY <2>2, <2>3, FS_Subset, FS_CardinalityType
<1>2. ASSUME NEW i \in 1..Cardinality(holes)
      PROVE  Fixup(Node("vars", 0), 2 * Sorted(holes)[i]) \in FixupType
  <2>1. Node("vars", 0) \in NodeType
    BY NodeIs DEF NodeKinds
  <2>2. i \in Nat
    BY <1>1
  <2>3. 2 * Sorted(holes)[i] \in GuessedRels
    BY <2>2 DEF GuessedRels
  <2>. QED
    BY <2>1, <2>3 DEF Fixup, FixupType
<1>3. Guessed(holes) \in [1..Cardinality(holes) -> FixupType]
  BY <1>2 DEF Guessed
<1>. QED
  BY <1>1, <1>3, SeqDef

(* Assemble is through.                                                    *)
Done == Ready /\ FilesInv /\ phase = "done"

LEMMA Tables ==
  ASSUME Done, NEW f \in {Heap, Hunk}
  PROVE  fixups[f] \in Seq(FixupType)
<1>1. CollectFixups(f) \in Seq(FixupType)
  BY CollectedFixups DEF Done
<1>2. CASE f = Heap
  <2>1. PICK holes \in SUBSET Holes : fixups[f] = CollectFixups(f) \o Guessed(holes)
    BY <1>2 DEF Done, FilesInv
  <2>2. Guessed(holes) \in Seq(FixupType)
    BY GuessedFixups DEF Done
  <2>. QED
    BY <1>1, <2>1, <2>2, ConcatProperties
<1>3. CASE f = Hunk
  <2>1. fixups[f] = CollectFixups(f) \o <<>>
    BY <1>3 DEF Done, FilesInv
  <2>. QED
    BY <1>1, <2>1, ConcatEmptySeq
<1>. QED
  BY <1>2, <1>3

-----------------------------------------------------------------------------
(* Where the nodes are, and what stands in their words.                    *)

(* The starts of leaves depend on those before them only.                  *)
LEMMA SameStarts ==
  ASSUME NEW leaves \in Seq(LeafType), NEW more \in Seq(LeafType), NEW n \in Nat,
         n > 0, n <= Len(leaves), n <= Len(more), \A i \in 1..n : leaves[i] = more[i]
  PROVE  \A i \in 1..n : Starts(leaves)[i] = Starts(more)[i]
<1> DEFINE s == Starts(leaves)
           t == Starts(more)
           good == {i \in 1..n : s[i] = t[i]}
<1>1. Len(leaves) \in Nat /\ Len(more) \in Nat /\ Len(leaves) > 0 /\ Len(more) > 0
  BY LenProperties
<1>2. s[1] = 0 /\ \A i \in 1..(Len(leaves) - 1) : s[i + 1] = EndOf(leaves[i], s[i])
  BY <1>1, StartsFollow
<1>3. t[1] = 0 /\ \A i \in 1..(Len(more) - 1) : t[i + 1] = EndOf(more[i], t[i])
  BY <1>1, StartsFollow
<1> HIDE DEF s, t
<1>4. 1 \in good
  BY <1>2, <1>3
<1>5. ASSUME NEW i \in 1..n, i < n, i \in good PROVE i + 1 \in good
  <2>1. i \in 1..(Len(leaves) - 1) /\ i \in 1..(Len(more) - 1) /\ i + 1 \in 1..n
    BY <1>1, <1>5
  <2>2. s[i + 1] = EndOf(leaves[i], s[i]) /\ t[i + 1] = EndOf(more[i], t[i])
    BY <1>2, <1>3, <2>1
  <2>. QED
    BY <1>5, <2>1, <2>2
<1>6. 1..n \subseteq good
  <2> HIDE DEF good
  <2>1. \A i \in 1..n : i < n /\ i \in good => i + 1 \in good
    BY <1>5
  <2>2. n \in Int /\ 1 \in Int
    OBVIOUS
  <2>. QED
    BY <1>4, <2>1, <2>2, IntervalInduction
<1>. QED
  BY <1>6 DEF s, t

(* The first leaf that has a node is the same one in two files whose       *)
(* bodies are the same.                                                    *)
LEMMA SameChoice ==
  ASSUME NEW S, NEW T, NEW a, NEW b, NEW node,
         \A i : i \in S /\ a[i].node = node <=> i \in T /\ b[i].node = node
  PROVE  (CHOOSE i \in S : a[i].node = node) = (CHOOSE i \in T : b[i].node = node)
OBVIOUS

LEMMA LeafKinds ==
  ASSUME Ready, NEW f \in {Heap, Hunk}, NEW table \in Seq(FixupType),
         NEW i \in 1..Len(Leaves(f, table))
  PROVE  \/ Leaves(f, table)[i].node[1] \in FrameKinds
         \/ /\ i - 1 \in 1..Len(Body(f)) /\ Leaves(f, table)[i] = Body(f)[i - 1]
            /\ Leaves(f, table)[i].node[1] \in KindsOf(f)
<1> DEFINE leaves == Leaves(f, table)
           n == Len(Body(f))
<1>1. /\ FileHolds(leaves, f, table) /\ n \in Nat /\ Len(table) \in Nat
      /\ i \in 1..Len(leaves)
  BY LeavesAre
<1> HIDE DEF leaves
<1>2. Len(leaves) = n + 3 + Len(table)
  BY <1>1 DEF FileHolds
<1>3. /\ \A kind, id : Mark(kind, id).node[1] = kind
      /\ \A kind, id, v : Plain(kind, id, v).node[1] = kind
      /\ \A kind, id, to : Pointer(kind, id, to).node[1] = kind
      /\ \A g, entry : FixupLeaf(g, entry).node[1] = "fixup"
  BY DEF Mark, Plain, Pointer, FixupLeaf, Leaf, Node
<1>4. CASE i = 1
  BY <1>1, <1>3, <1>4 DEF FileHolds, FrameKinds, leaves
<1>5. CASE i \in 2..(n + 1)
  <2>1. i - 1 \in 1..n /\ (i - 1) + 1 = i
    BY <1>1, <1>5
  <2>2. leaves[i] = Body(f)[i - 1]
    BY <1>1, <2>1 DEF FileHolds
  <2>3. Body(f)[i - 1].node[1] \in KindsOf(f)
    BY <2>1, BodyKinds
  <2>. QED
    BY <2>1, <2>2, <2>3 DEF leaves
<1>6. CASE i = n + 2
  BY <1>1, <1>3, <1>6 DEF FileHolds, FrameKinds, leaves
<1>7. CASE i = n + 3
  BY <1>1, <1>3, <1>7 DEF FileHolds, FrameKinds, leaves
<1>8. CASE i \in (n + 4)..(n + 3 + Len(table))
  <2>1. i - (n + 3) \in 1..Len(table) /\ n + 3 + (i - (n + 3)) = i
    BY <1>1, <1>8
  <2>2. leaves[i] = FixupLeaf(f, table[i - (n + 3)])
    BY <1>1, <2>1 DEF FileHolds
  <2>. QED
    BY <1>3, <2>2 DEF FrameKinds, leaves
<1>9. i = 1 \/ i \in 2..(n + 1) \/ i = n + 2 \/ i = n + 3 \/ i \in (n + 4)..(n + 3 + Len(table))
  BY <1>1, <1>2
<1>. QED
  BY <1>4, <1>5, <1>6, <1>7, <1>8, <1>9

InBody(f, node) == \E x \in 1..Len(Body(f)) : Body(f)[x].node = node

LEMMA BodyNodes ==
  ASSUME Ready, NEW f \in {Heap, Hunk}, NEW node, InBody(f, node)
  PROVE  /\ node[1] \in KindsOf(f) /\ node # NoNode
         /\ IsInHeap(node) <=> f = Heap
<1>1. node[1] \in KindsOf(f)
  BY BodyKinds DEF InBody
<1>2. node # NoNode
  BY <1>1, KindsApart DEF KindsOf, NoNode, Node, HeapKinds, HunkKinds
<1>3. f = Heap => IsInHeap(node)
  BY DEF InBody, IsInHeap, HeapNodes
<1>4. IsInHeap(node) => node[1] \in HeapKinds
  BY HeapBodyKinds DEF IsInHeap, HeapNodes
<1>5. f # Heap => node[1] \in HunkKinds
  BY <1>1 DEF KindsOf
<1>. QED
  BY <1>1, <1>2, <1>3, <1>4, <1>5, KindsApart

(* A node of a body is where it is whatever is in the fixup table.         *)
LEMMA SetOffsetOf ==
  ASSUME Ready, NEW f \in {Heap, Hunk}, NEW table \in Seq(FixupType), NEW node
  PROVE  /\ node \in DOMAIN SetOffset(f, table) => node[1] \in FrameKinds \cup KindsOf(f)
         /\ InBody(f, node) =>
              /\ node \in DOMAIN SetOffset(f, table)
              /\ SetOffset(f, table)[node] \in Nat
              /\ \A more \in Seq(FixupType) : SetOffset(f, more)[node] = SetOffset(f, table)[node]
<1> DEFINE leaves == Leaves(f, table)
           body == Body(f)
           pick(l) == CHOOSE i \in 1..Len(l) : l[i].node = node
<1>1. \A t \in Seq(FixupType) :
        /\ Leaves(f, t) \in Seq(LeafType) /\ Len(Leaves(f, t)) \in Nat
        /\ FileHolds(Leaves(f, t), f, t) /\ Len(body) \in Nat /\ Len(t) \in Nat
  BY LeavesAre, LeafSeqs
<1>2. \A t \in Seq(FixupType) :
        DOMAIN SetOffset(f, t) = {Leaves(f, t)[i].node : i \in 1..Len(Leaves(f, t))}
  BY DEF SetOffset
<1>3. ASSUME NEW t \in Seq(FixupType), node \in DOMAIN SetOffset(f, t)
      PROVE  SetOffset(f, t)[node] = Starts(Leaves(f, t))[pick(Leaves(f, t))]
  BY <1>3 DEF SetOffset
<1>4. ASSUME node \in DOMAIN SetOffset(f, table) PROVE node[1] \in FrameKinds \cup KindsOf(f)
  <2>1. PICK i \in 1..Len(leaves) : leaves[i].node = node
    BY <1>2, <1>4
  <2>. QED
    BY <2>1, LeafKinds
<1>5. ASSUME InBody(f, node), NEW t \in Seq(FixupType)
      PROVE  /\ node \in DOMAIN SetOffset(f, t)
             /\ \A i : i \in 1..Len(Leaves(f, t)) /\ Leaves(f, t)[i].node = node
                  <=> i \in 2..(Len(body) + 1) /\ body[i - 1].node = node
  <2> DEFINE l == Leaves(f, t)
  <2>1. FileHolds(l, f, t) /\ Len(body) \in Nat /\ Len(t) \in Nat /\ Len(l) = Len(body) + 3 + Len(t)
    BY <1>1 DEF FileHolds
  <2>2. ASSUME NEW i \in 2..(Len(body) + 1)
        PROVE  i - 1 \in 1..Len(body) /\ i \in 1..Len(l) /\ l[i] = body[i - 1]
    <3>1. i - 1 \in 1..Len(body) /\ (i - 1) + 1 = i /\ i \in 1..Len(l)
      BY <2>1
    <3>. QED
      BY <2>1, <3>1 DEF FileHolds
  <2>3. ASSUME NEW i \in 1..Len(l), l[i].node = node
        PROVE  i \in 2..(Len(body) + 1) /\ body[i - 1].node = node
    <3>1. node[1] \notin FrameKinds
      BY <1>5, BodyNodes, KindsApart DEF KindsOf
    <3>2. i - 1 \in 1..Len(body) /\ l[i] = body[i - 1]
      BY <2>3, <3>1, LeafKinds
    <3>3. i \in 2..(Len(body) + 1)
      <4>1. i \in Int /\ Len(body) \in Nat
        BY <2>1
      <4>. QED
        BY <3>2, <4>1
    <3>. QED
      BY <2>3, <3>2, <3>3
  <2>4. PICK x \in 1..Len(body) : body[x].node = node
    BY <1>5 DEF InBody
  <2>5. x + 1 \in 2..(Len(body) + 1) /\ (x + 1) - 1 = x
    BY <2>1
  <2>6. l[x + 1].node = node /\ x + 1 \in 1..Len(l)
    BY <2>2, <2>4, <2>5
  <2>7. node \in DOMAIN SetOffset(f, t)
    BY <1>2, <2>6
  <2>. QED
    BY <2>2, <2>3, <2>7
<1>6. ASSUME InBody(f, node), NEW more \in Seq(FixupType)
      PROVE  SetOffset(f, more)[node] = SetOffset(f, table)[node] /\ SetOffset(f, table)[node] \in Nat
  <2> DEFINE l == Leaves(f, more)
  <2>1. pick(l) = pick(leaves)
    <3>1. \A i : i \in 1..Len(l) /\ l[i].node = node <=> i \in 1..Len(leaves) /\ leaves[i].node = node
      BY <1>5, <1>6
    <3> HIDE DEF l, leaves
    <3>. QED
      BY <3>1, SameChoice
  <2>2. pick(leaves) \in 2..(Len(body) + 1)
    <3>1. \E i : i \in 1..Len(leaves) /\ leaves[i].node = node
      <4>1. node \in DOMAIN SetOffset(f, table)
        BY <1>5, <1>6
      <4>2. DOMAIN SetOffset(f, table) = {leaves[i].node : i \in 1..Len(leaves)}
        BY DEF SetOffset
      <4> HIDE DEF leaves
      <4>. QED
        BY <4>1, <4>2
    <3>2. pick(leaves) \in 1..Len(leaves) /\ leaves[pick(leaves)].node = node
      <4> HIDE DEF leaves
      <4>. QED
        BY <3>1
    <3> HIDE DEF pick
    <3>. QED
      BY <1>5, <1>6, <3>2
  <2>3. \A i \in 1..(Len(body) + 1) : l[i] = leaves[i]
    <3>1. FileHolds(l, f, more) /\ FileHolds(leaves, f, table) /\ Len(body) \in Nat
      BY <1>1
    <3> HIDE DEF l, leaves
    <3>2. ASSUME NEW i \in 1..(Len(body) + 1) PROVE l[i] = leaves[i]
      <4>1. CASE i = 1
        BY <3>1, <4>1 DEF FileHolds
      <4>2. CASE i # 1
        <5>1. i - 1 \in 1..Len(body) /\ (i - 1) + 1 = i
          BY <3>1, <4>2
        <5>. QED
          BY <3>1, <5>1 DEF FileHolds
      <4>. QED
        BY <4>1, <4>2
    <3>. QED
      BY <3>2
  <2>4. /\ Len(body) + 1 \in Nat /\ Len(body) + 1 > 0
        /\ Len(body) + 1 <= Len(leaves) /\ Len(body) + 1 <= Len(l)
    <3>1. FileHolds(l, f, more) /\ FileHolds(leaves, f, table) /\ Len(body) \in Nat
          /\ Len(more) \in Nat /\ Len(table) \in Nat
      BY <1>1
    <3>2. Len(leaves) = Len(body) + 3 + Len(table) /\ Len(l) = Len(body) + 3 + Len(more)
      BY <3>1 DEF FileHolds
    <3>. QED
      BY <3>1, <3>2
  <2>5. \A i \in 1..(Len(body) + 1) : Starts(leaves)[i] = Starts(l)[i]
    <3>1. l \in Seq(LeafType) /\ leaves \in Seq(LeafType)
      BY <1>1
    <3>2. \A i \in 1..(Len(body) + 1) : leaves[i] = l[i]
      BY <2>3
    <3> HIDE DEF l, leaves, body
    <3>. QED
      BY <2>4, <3>1, <3>2, SameStarts
  <2>6. Starts(leaves) \in [1..Len(leaves) -> Nat]
    <3>1. leaves \in Seq(LeafType) /\ Len(leaves) > 0
      <4>1. Len(leaves) \in Nat
        BY <1>1
      <4>. QED
        BY <1>1, <2>4, <4>1
    <3>. QED
      BY <3>1, StartsFollow
  <2>7. /\ SetOffset(f, more)[node] = Starts(l)[pick(l)]
        /\ SetOffset(f, table)[node] = Starts(leaves)[pick(leaves)]
    BY <1>3, <1>5, <1>6
  <2>8. pick(leaves) \in 1..(Len(body) + 1) /\ pick(leaves) \in 1..Len(leaves)
    <3> HIDE DEF leaves, pick
    <3>1. Len(body) \in Nat /\ Len(leaves) \in Nat
      BY <1>1 DEF leaves
    <3>. QED
      BY <2>2, <2>4, <3>1
  <2> HIDE DEF pick, l, leaves
  <2>. QED
    BY <2>1, <2>5, <2>6, <2>7, <2>8
<1>. QED
  BY <1>4, <1>5, <1>6

-----------------------------------------------------------------------------
(* The offsets a file is written with.                                     *)
OffsetsOf(f) == IF f = Heap THEN HeapOffsets ELSE HunkOffsets

LEMMA MergeIs ==
  ASSUME NEW a, NEW b, NEW x
  PROVE  /\ x \in DOMAIN Over(a, b) <=> x \in DOMAIN a \/ x \in DOMAIN b
         /\ x \in DOMAIN a => Over(a, b)[x] = a[x]
         /\ x \notin DOMAIN a /\ x \in DOMAIN b => Over(a, b)[x] = b[x]
BY DEF Over

LEMMA PlaceIs ==
  ASSUME Done, NEW f \in {Heap, Hunk}, NEW node, InBody(f, node)
  PROVE  Place(node) = SetOffset(f, fixups[f])[node] /\ Place(node) \in Nat
<1>1. Ready /\ fixups[f] \in Seq(FixupType)
  BY Tables DEF Done
<1>2. node \in DOMAIN SetOffset(f, fixups[f]) /\ SetOffset(f, fixups[f])[node] \in Nat
  BY <1>1, SetOffsetOf
<1>3. f = IF IsInHeap(node) THEN Heap ELSE Hunk
  BY <1>1, BodyNodes
<1>4. Place(node) = SetOffset(f, fixups[f])[node]
  BY <1>2, <1>3 DEF Place, SetOffset
<1>. QED
  BY <1>2, <1>4

LEMMA OffsetIsPlace ==
  ASSUME Done, NEW f \in {Heap, Hunk}, NEW g \in {Heap, Hunk}, NEW node, InBody(g, node)
  PROVE  node \in DOMAIN OffsetsOf(f) /\ OffsetsOf(f)[node] = Place(node)
<1>1. Ready /\ fixups[Heap] \in Seq(FixupType) /\ fixups[Hunk] \in Seq(FixupType) /\ <<>> \in Seq(FixupType)
  BY Tables DEF Done
<1>2. Heap \in {Heap, Hunk} /\ Hunk \in {Heap, Hunk} /\ Heap # Hunk
  BY DEF Heap, Hunk
<1>3. node[1] \in KindsOf(g)
  BY <1>1, BodyNodes
<1> DEFINE H == SetOffset(Heap, fixups[Heap])
           H0 == SetOffset(Heap, <<>>)
           K == SetOffset(Hunk, fixups[Hunk])
           K0 == SetOffset(Hunk, <<>>)
<1>4. HeapOffsets = Over(H, Over(H0, K0)) /\ HunkOffsets = Over(K, HeapOffsets)
  BY DEF HeapOffsets, HunkOffsets, FirstOffsets
<1>5. CASE g = Heap
  <2>1. node \in DOMAIN H /\ Place(node) = H[node]
    BY <1>1, <1>2, <1>5, SetOffsetOf, PlaceIs
  <2>2. node \notin DOMAIN K
    <3>1. node[1] \notin FrameKinds \cup KindsOf(Hunk)
      BY <1>2, <1>3, <1>5, KindsApart DEF KindsOf
    <3>. QED
      BY <1>1, <1>2, <3>1, SetOffsetOf
  <2> HIDE DEF H, H0, K, K0
  <2>3. node \in DOMAIN HeapOffsets /\ HeapOffsets[node] = Place(node)
    BY <1>4, <2>1, MergeIs
  <2>4. node \in DOMAIN HunkOffsets /\ HunkOffsets[node] = Place(node)
    <3> HIDE DEF HeapOffsets
    <3>1. HunkOffsets = Over(K, HeapOffsets)
      BY <1>4
    <3>. QED
      BY <2>2, <2>3, <3>1, MergeIs
  <2>. QED
    BY <2>3, <2>4 DEF OffsetsOf
<1>6. CASE g = Hunk
  <2>1. node \in DOMAIN K /\ Place(node) = K[node] /\ node \in DOMAIN K0 /\ K0[node] = K[node]
    <3>1. node \in DOMAIN K /\ Place(node) = K[node]
      BY <1>1, <1>2, <1>6, SetOffsetOf, PlaceIs
    <3>2. node \in DOMAIN K0
      BY <1>1, <1>2, <1>6, SetOffsetOf
    <3>3. K0[node] = K[node]
      BY <1>1, <1>2, <1>6, SetOffsetOf
    <3>. QED
      BY <3>1, <3>2, <3>3
  <2>2. node \notin DOMAIN H /\ node \notin DOMAIN H0
    <3>1. node[1] \notin FrameKinds \cup KindsOf(Heap)
      BY <1>2, <1>3, <1>6, KindsApart DEF KindsOf
    <3>. QED
      BY <1>1, <1>2, <3>1, SetOffsetOf
  <2> HIDE DEF H, H0, K, K0
  <2>3. node \in DOMAIN Over(H0, K0) /\ Over(H0, K0)[node] = Place(node)
    BY <2>1, <2>2, MergeIs
  <2>4. node \in DOMAIN HeapOffsets /\ HeapOffsets[node] = Place(node)
    BY <1>4, <2>2, <2>3, MergeIs
  <2>5. node \in DOMAIN HunkOffsets /\ HunkOffsets[node] = Place(node)
    <3>1. HunkOffsets = Over(K, HeapOffsets)
      BY <1>4
    <3>. QED
      BY <2>1, <3>1, MergeIs
  <2>. QED
    BY <2>4, <2>5 DEF OffsetsOf
<1>. QED
  BY <1>5, <1>6

(* Where leaf x of a body begins in its file.                              *)
StartAt(f, x) == Starts(Leaves(f, fixups[f]))[x + 1]

LEMMA BodyStarts ==
  ASSUME Done, NEW f \in {Heap, Hunk}
  PROVE  /\ Len(Body(f)) \in Nat /\ Body(f) \in Seq(LeafSet)
         /\ \A x \in 1..Len(Body(f)) : StartAt(f, x) \in Nat
         /\ 1 \in 1..Len(Body(f)) => StartAt(f, 1) = 2
         /\ \A x \in 1..Len(Body(f)) : x + 1 \in 1..Len(Body(f)) =>
              StartAt(f, x + 1) = EndOf(Body(f)[x], StartAt(f, x))
<1> DEFINE leaves == Leaves(f, fixups[f])
           n == Len(Body(f))
<1>1. Ready /\ fixups[f] \in Seq(FixupType)
  BY Tables DEF Done
<1>2. /\ leaves \in Seq(LeafSet) /\ FileHolds(leaves, f, fixups[f])
      /\ n \in Nat /\ Len(fixups[f]) \in Nat
  BY <1>1, LeavesAre
<1>3. leaves \in Seq(LeafType) /\ Len(leaves) > 0 /\ Len(leaves) = n + 3 + Len(fixups[f])
  <2>1. Len(leaves) = n + 3 + Len(fixups[f])
    BY <1>2 DEF FileHolds
  <2>2. leaves \in Seq(LeafType)
    BY <1>2, LeafSeqs
  <2> HIDE DEF leaves, n
  <2>3. PICK m \in Nat : n \in Nat /\ Len(leaves) = n + 3 + m
    BY <1>2, <2>1
  <2>4. Len(leaves) > 0
    BY <2>3
  <2>. QED
    BY <2>1, <2>2, <2>4
<1>4. /\ Starts(leaves) \in [1..Len(leaves) -> Nat]
      /\ Starts(leaves)[1] = 0
      /\ \A i \in 1..(Len(leaves) - 1) : Starts(leaves)[i + 1] = EndOf(leaves[i], Starts(leaves)[i])
  BY <1>3, StartsFollow
<1>5. leaves[1] = Pointer("fixupOffset", f, Node("fixupTable", f)) /\ \A x \in 1..n : leaves[x + 1] = Body(f)[x]
  BY <1>2 DEF FileHolds
<1>6. Body(f) \in Seq(LeafSet)
  BY <1>1, HeapBody, HunkBody
<1>7. \A x : StartAt(f, x) = Starts(leaves)[x + 1]
  BY DEF StartAt
<1> HIDE DEF leaves, n
<1>11. PICK m \in Nat : n \in Nat /\ Len(leaves) = n + 3 + m
  BY <1>2, <1>3
<1>8. ASSUME NEW x \in 1..n PROVE StartAt(f, x) \in Nat
  <2>1. x + 1 \in 1..Len(leaves)
    BY <1>11
  <2>. QED
    BY <1>4, <1>7, <2>1
<1>9. ASSUME 1 \in 1..n PROVE StartAt(f, 1) = 2
  <2>1. 1 \in 1..(Len(leaves) - 1)
    BY <1>9, <1>11
  <2>2. Starts(leaves)[1 + 1] = EndOf(leaves[1], 0)
    BY <1>4, <2>1
  <2>3. EndOf(leaves[1], 0) = 2
    BY <1>5 DEF EndOf, Pointer, Leaf, Node
  <2>. QED
    BY <1>7, <2>2, <2>3
<1>10. ASSUME NEW x \in 1..n, x + 1 \in 1..n
       PROVE  StartAt(f, x + 1) = EndOf(Body(f)[x], StartAt(f, x))
  <2>1. x + 1 \in 1..(Len(leaves) - 1)
    BY <1>10, <1>11
  <2>2. Starts(leaves)[(x + 1) + 1] = EndOf(leaves[x + 1], Starts(leaves)[x + 1])
    BY <1>4, <2>1
  <2>. QED
    BY <1>5, <1>7, <2>2
<1>. QED
  BY <1>2, <1>6, <1>8, <1>9, <1>10 DEF n

(* Leaves of a word each follow each other word by word.                   *)
LEMMA EvenStarts ==
  ASSUME Done, NEW f \in {Heap, Hunk}, NEW x \in 1..Len(Body(f)), NEW m \in Nat,
         x + m \in 1..Len(Body(f)),
         \A k \in 1..m : Body(f)[x + k].size = 2 /\ Body(f)[x + k].node[1] # "padding",
         Body(f)[x].size \in {0, 2}, Body(f)[x].node[1] # "padding"
  PROVE  \A k \in 1..m : StartAt(f, x + k) = StartAt(f, x) + Body(f)[x].size + 2 * (k - 1)
<1> DEFINE body == Body(f)
           size == Body(f)[x].size
           good == {k \in 1..m : StartAt(f, x + k) = StartAt(f, x) + size + 2 * (k - 1)}
<1>1. /\ Len(body) \in Nat /\ \A y \in 1..Len(body) : StartAt(f, y) \in Nat
      /\ \A y \in 1..Len(body) : y + 1 \in 1..Len(body) =>
           StartAt(f, y + 1) = EndOf(body[y], StartAt(f, y))
  BY BodyStarts
<1>2. /\ x \in 1..Len(body) /\ x + m \in 1..Len(body) /\ body[x].size = size /\ size \in {0, 2}
      /\ body[x].node[1] # "padding"
      /\ \A k \in 1..m : body[x + k].size = 2 /\ body[x + k].node[1] # "padding"
  OBVIOUS
<1> HIDE DEF body, size
<1>3. CASE m = 0
  BY <1>3
<1>4. CASE m # 0
  <2>1. 1 \in good
    <3>1. x + 1 \in 1..Len(body) /\ 1 \in 1..m
      BY <1>1, <1>2, <1>4
    <3>2. StartAt(f, x + 1) = EndOf(body[x], StartAt(f, x))
      BY <1>1, <1>2, <3>1
    <3>3. StartAt(f, x + 1) = StartAt(f, x) + size
      BY <1>2, <3>2 DEF EndOf
    <3>4. StartAt(f, x) + size = StartAt(f, x) + size + 2 * (1 - 1)
      BY <1>1, <1>2
    <3>. QED
      BY <3>1, <3>3, <3>4
  <2>2. ASSUME NEW k \in 1..m, k < m, k \in good PROVE k + 1 \in good
    <3>1. /\ x + k \in 1..Len(body) /\ (x + k) + 1 \in 1..Len(body) /\ k + 1 \in 1..m
          /\ x + (k + 1) = (x + k) + 1
      BY <1>1, <1>2, <2>2
    <3>2. StartAt(f, (x + k) + 1) = EndOf(body[x + k], StartAt(f, x + k))
      BY <1>1, <3>1
    <3>3. StartAt(f, x + (k + 1)) = StartAt(f, x + k) + 2
      BY <1>2, <3>1, <3>2 DEF EndOf
    <3>4. StartAt(f, x + k) = StartAt(f, x) + size + 2 * (k - 1) /\ StartAt(f, x) \in Nat
      BY <1>1, <1>2, <2>2
    <3>5. StartAt(f, x + (k + 1)) = StartAt(f, x) + size + 2 * ((k + 1) - 1)
      <4> DEFINE s == StartAt(f, x)
                 t == StartAt(f, x + (k + 1))
      <4>1. t = (s + size + 2 * (k - 1)) + 2 /\ s \in Nat /\ size \in Nat
        BY <1>2, <3>3, <3>4
      <4> HIDE DEF s, t
      <4>2. t = s + size + 2 * ((k + 1) - 1)
        BY <4>1
      <4>. QED
        BY <4>2 DEF s, t
    <3>. QED
      BY <3>1, <3>5
  <2>3. 1..m \subseteq good
    <3> HIDE DEF good
    <3>1. \A k \in 1..m : k < m /\ k \in good => k + 1 \in good
      BY <2>2
    <3>2. m \in Int /\ 1 \in Int
      OBVIOUS
    <3>. QED
      BY <2>1, <3>1, <3>2, IntervalInduction
  <2>. QED
    BY <2>3 DEF size
<1>. QED
  BY <1>3, <1>4

(* What is at a word of a leaf.                                            *)
LEMMA BodyWord ==
  ASSUME Done, NEW f \in {Heap, Hunk}, NEW x \in 1..Len(Body(f)),
         NEW k \in 1..Len(Body(f)[x].words), NEW w, w = Body(f)[x].words[k], w.add \in Int
  PROVE  /\ w.to = NoNode => WordAt(f, StartAt(f, x) + w.rel) = w.add
         /\ \A g \in {Heap, Hunk} : InBody(g, w.to) =>
              WordAt(f, StartAt(f, x) + w.rel) = w.add + Place(w.to)
<1> DEFINE table == fixups[f]
           leaves == Leaves(f, table)
           start == Starts(leaves)
           words == out[f].words
           at == StartAt(f, x) + w.rel
<1>1. Ready /\ table \in Seq(FixupType)
  BY Tables DEF Done
<1>2. /\ leaves \in Seq(LeafSet) /\ FileHolds(leaves, f, table)
      /\ Len(Body(f)) \in Nat /\ Len(table) \in Nat
  BY <1>1, LeavesAre
<1>3. leaves \in Seq(LeafType) /\ \A i \in 1..Len(leaves) : IsLeaf(leaves[i])
  BY <1>2, LeafSeqs
<1>4. Len(leaves) > 0 /\ x + 1 \in 1..Len(leaves) /\ leaves[x + 1] = Body(f)[x]
  <2>1. Len(leaves) = Len(Body(f)) + 3 + Len(table) /\ leaves[x + 1] = Body(f)[x]
    BY <1>2 DEF FileHolds
  <2>2. PICK m \in Nat : Len(leaves) = Len(Body(f)) + 3 + m /\ Len(Body(f)) \in Nat
    BY <1>2, <2>1
  <2>3. Len(leaves) > 0 /\ x + 1 \in 1..Len(leaves)
    <3> HIDE DEF leaves
    <3>. QED
      BY <2>2
  <2>. QED
    BY <2>1, <2>3
<1>5. PICK unset : words = Written(f, table, OffsetsOf(f), unset).words
  <2>1. CASE f = Heap
    BY <2>1 DEF Done, FilesInv, OffsetsOf
  <2>2. CASE f = Hunk
    <3>1. Heap # Hunk
      BY DEF Heap, Hunk
    <3>. QED
      BY <2>2, <3>1 DEF Done, FilesInv, OffsetsOf
  <2>. QED
    BY <2>1, <2>2
<1> DEFINE offsets == OffsetsOf(f)
           W(i, j) == Wrote(leaves[i], start[i], leaves[i].words[j], offsets, unset)
<1>6. /\ Len(words) \in Nat
      /\ \A i \in 1..Len(leaves) : \A j \in 1..Len(leaves[i].words) :
           \E y \in 1..Len(words) : words[y] = W(i, j)
      /\ \A y \in 1..Len(words) :
           \E i \in 1..Len(leaves) : \E j \in 1..Len(leaves[i].words) : words[y] = W(i, j)
      /\ \A i \in 1..Len(leaves) : \A k1 \in 1..Len(leaves[i].words) :
           \A j \in 1..Len(leaves) : \A l \in 1..Len(leaves[j].words) :
             start[i] + leaves[i].words[k1].rel = start[j] + leaves[j].words[l].rel =>
               i = j /\ k1 = l
  <2> HIDE DEF leaves, table, offsets
  <2>1. leaves = Leaves(f, table)
    BY DEF leaves
  <2>2. words = Written(f, table, offsets, unset).words
    BY <1>5 DEF offsets
  <2> HIDE DEF words
  <2>. QED
    <3>1. HasWords(words, leaves, start, offsets, unset)
      BY <1>3, <1>4, <2>1, <2>2, WordsWritten
    <3>. QED
      BY <3>1 DEF HasWords
<1>15. \A i \in 1..Len(leaves) : \A k1 \in 1..Len(leaves[i].words) :
        \A j \in 1..Len(leaves) : \A l \in 1..Len(leaves[j].words) :
          start[i] + leaves[i].words[k1].rel = start[j] + leaves[j].words[l].rel =>
            i = j /\ k1 = l
  BY <1>6
<1>7. w = leaves[x + 1].words[k] /\ k \in 1..Len(leaves[x + 1].words) /\ at = start[x + 1] + w.rel
  BY <1>4 DEF StartAt
<1>8. \A i, j : W(i, j).at = start[i] + leaves[i].words[j].rel
  BY DEF Wrote
<1> HIDE DEF words, leaves, offsets, start, at, table
<1>9. ASSUME NEW y \in 1..Len(words), words[y].at = at PROVE words[y] = W(x + 1, k)
  <2>1. PICK i \in 1..Len(leaves) : \E j \in 1..Len(leaves[i].words) : words[y] = W(i, j)
    BY <1>6
  <2>2. PICK j \in 1..Len(leaves[i].words) : words[y] = W(i, j)
    BY <2>1
  <2>3. start[i] + leaves[i].words[j].rel = start[x + 1] + leaves[x + 1].words[k].rel
    <3> HIDE DEF W
    <3>. QED
      BY <1>7, <1>8, <1>9, <2>2
  <2>4. i = x + 1 /\ j = k
    <3>1. x + 1 \in 1..Len(leaves) /\ k \in 1..Len(leaves[x + 1].words)
      BY <1>4, <1>7
    <3>2. \A p \in 1..Len(leaves) : \A q \in 1..Len(leaves[p].words) :
            start[i] + leaves[i].words[j].rel = start[p] + leaves[p].words[q].rel => i = p /\ j = q
      <4> HIDE DEF W
      <4>. QED
        BY <1>15
    <3>. QED
      BY <2>3, <3>1, <3>2
  <2>. QED
    BY <2>2, <2>4
<1>10. \E y \in 1..Len(words) : words[y].at = at
  <2>1. PICK y \in 1..Len(words) : words[y] = W(x + 1, k)
    BY <1>4, <1>6, <1>7
  <2>2. words[y].at = at
    <3> HIDE DEF W
    <3>. QED
      BY <1>7, <1>8, <2>1
  <2>. QED
    BY <2>2
<1>11. WordAt(f, at) = W(x + 1, k).value
  <2> DEFINE y == CHOOSE y \in 1..Len(words) : words[y].at = at
  <2>1. y \in 1..Len(words) /\ words[y].at = at
    BY <1>10
  <2>2. WordAt(f, at) = words[y].value
    BY DEF WordAt, words
  <2> HIDE DEF y, W
  <2>. QED
    BY <1>9, <2>1, <2>2
<1>12. W(x + 1, k).value = w.add + (IF w.to = NoNode THEN 0
                                    ELSE IF w.to \in DOMAIN offsets THEN offsets[w.to]
                                    ELSE unset)
  BY <1>7 DEF Wrote
<1> HIDE DEF W
<1>13. w.to = NoNode => WordAt(f, at) = w.add
  BY <1>11, <1>12
<1>14. ASSUME NEW g \in {Heap, Hunk}, InBody(g, w.to)
       PROVE  WordAt(f, at) = w.add + Place(w.to)
  <2>1. w.to # NoNode
    BY <1>1, <1>14, BodyNodes
  <2>2. w.to \in DOMAIN offsets /\ offsets[w.to] = Place(w.to)
    BY <1>14, OffsetIsPlace DEF offsets
  <2>. QED
    BY <1>11, <1>12, <2>1, <2>2
<1>. QED
  BY <1>13, <1>14 DEF at

(* The place of a node that only one leaf of a body has.                   *)
LEMMA PlaceOfOne ==
  ASSUME Done, NEW f \in {Heap, Hunk}, NEW x \in 1..Len(Body(f)), NEW node,
         Body(f)[x].node = node,
         \A y \in 1..Len(Body(f)) : Body(f)[y].node = node => y = x
  PROVE  InBody(f, node) /\ Place(node) = StartAt(f, x) /\ Place(node) \in Nat
<1> DEFINE table == fixups[f]
           leaves == Leaves(f, table)
<1>1. Ready /\ table \in Seq(FixupType) /\ InBody(f, node)
  BY Tables DEF Done, InBody
<1>2. FileHolds(leaves, f, table) /\ Len(Body(f)) \in Nat /\ Len(table) \in Nat
  BY <1>1, LeavesAre
<1>3. x + 1 \in 1..Len(leaves) /\ leaves[x + 1].node = node
  <2>1. Len(leaves) = Len(Body(f)) + 3 + Len(table) /\ leaves[x + 1] = Body(f)[x]
    BY <1>2 DEF FileHolds
  <2>2. PICK m \in Nat : Len(leaves) = Len(Body(f)) + 3 + m /\ Len(Body(f)) \in Nat
    BY <1>2, <2>1
  <2>3. x + 1 \in 1..Len(leaves)
    <3> HIDE DEF leaves
    <3>. QED
      BY <2>2
  <2>. QED
    BY <2>1, <2>3
<1>4. ASSUME NEW i \in 1..Len(leaves), leaves[i].node = node PROVE i = x + 1
  <2>1. node[1] \notin FrameKinds
    BY <1>1, BodyNodes, KindsApart DEF KindsOf
  <2>2. i - 1 \in 1..Len(Body(f)) /\ leaves[i] = Body(f)[i - 1]
    BY <1>1, <1>4, <2>1, LeafKinds
  <2>3. i - 1 = x
    BY <1>4, <2>2
  <2>4. i \in Int /\ x \in Int
    BY <1>2, <1>3
  <2>. QED
    BY <2>3, <2>4
<1>5. (CHOOSE i \in 1..Len(leaves) : leaves[i].node = node) = x + 1
  <2> HIDE DEF leaves
  <2>. QED
    BY <1>3, <1>4
<1>6. node \in DOMAIN SetOffset(f, table)
  BY <1>1, SetOffsetOf
<1>7. SetOffset(f, table)[node] = Starts(leaves)[CHOOSE i \in 1..Len(leaves) : leaves[i].node = node]
  BY <1>6 DEF SetOffset
<1>8. Place(node) = SetOffset(f, table)[node] /\ Place(node) \in Nat
  BY <1>1, PlaceIs
<1>. QED
  BY <1>1, <1>5, <1>7, <1>8 DEF StartAt

-----------------------------------------------------------------------------
(* What an interpreter finds in the files.                                 *)
LEMMA NodeParts ==
  ASSUME NEW a, NEW b, NEW c, NEW d, Node(a, b) = Node(c, d)
  PROVE  a = c /\ b = d
BY DEF Node

LEMMA LeafParts ==
  /\ \A kind, id : Mark(kind, id).node = Node(kind, id) /\ Mark(kind, id).size = 0
  /\ \A kind, id, v : /\ Plain(kind, id, v).node = Node(kind, id) /\ Plain(kind, id, v).size = 2
                      /\ Plain(kind, id, v).words = <<Word(0, NoNode, v)>>
  /\ \A kind, id, to : /\ Pointer(kind, id, to).node = Node(kind, id) /\ Pointer(kind, id, to).size = 2
                       /\ Pointer(kind, id, to).words = <<Word(0, to, 0)>>
  /\ \A t : TextLeaf(t).node = Node("text", texts[t])
  /\ \A kind, id : Node(kind, id)[1] = kind
BY DEF Mark, Plain, Pointer, TextLeaf, Leaf, Node

LEMMA WordParts ==
  ASSUME NEW rel, NEW to, NEW n
  PROVE  Word(rel, to, n).rel = rel /\ Word(rel, to, n).to = to /\ Word(rel, to, n).add = n
BY DEF Word

LEMMA TextInHeap ==
  ASSUME Ready, NEW v, \E i \in 1..Len(script) : script[i].op = "AddTextNode" /\ script[i].val = v
  PROVE  InBody(Heap, TextNode(v))
<1>1. PICK t \in 1..Len(texts) : TextNode(v) = Node("text", texts[t])
  BY TextNodeIs
<1>2. PICK begin : HeapHolds(Body(Heap), begin)
  BY HeapBody
<1>3. PICK x \in 1..Len(Body(Heap)) : Body(Heap)[x] = TextLeaf(t)
  BY <1>2 DEF HeapHolds
<1>. QED
  BY <1>1, <1>3, LeafParts DEF InBody

LEMMA CodeInHunk ==
  ASSUME Ready, NEW i \in 1..Len(script), script[i].op \in CodeKinds
  PROVE  InBody(Hunk, Node("code", i))
<1>1. PICK c \in 1..Len(code) : code[c] = i
  BY ListsAre
<1>2. PICK begin : HunkHolds(Body(Hunk), begin)
  BY HunkBody
<1> DEFINE x == 3 + begin[Len(objects) + 1] + c
<1>3. Body(Hunk)[x] = CodeLeaf(i)
  BY <1>1, <1>2 DEF HunkHolds
<1>4. x \in 1..Len(Body(Hunk))
  <2>1. Len(objects) \in Nat /\ Len(code) \in Nat
    BY ListsAre
  <2>2. Len(objects) + 1 \in 1..(Len(objects) + 1)
    BY <2>1
  <2>3. begin[Len(objects) + 1] \in Nat /\ 3 + begin[Len(objects) + 1] + Len(code) = Len(Body(Hunk))
    BY <1>2, <2>2 DEF HunkHolds
  <2>4. PICK b \in Nat : b = begin[Len(objects) + 1] /\ 3 + b + Len(code) = Len(Body(Hunk))
    BY <2>3
  <2>5. 3 + b + c \in 1..(3 + b + Len(code))
    BY <2>1
  <2>6. x = 3 + b + c
    BY <2>4
  <2> HIDE DEF x
  <2>. QED
    BY <2>4, <2>5, <2>6
<1> HIDE DEF x
<1>. QED
  BY <1>3, <1>4, CodeLeafIs DEF InBody

(* A word that stands for a number or a text.                              *)
LEMMA LiteralAt ==
  ASSUME Done, NEW f \in {Heap, Hunk}, NEW x \in 1..Len(Body(f)),
         NEW k \in 1..Len(Body(f)[x].words), NEW v \in Value \cup {Hole}, NEW rel \in Nat,
         Body(f)[x].words[k] = LiteralWord(rel, v),
         IsText(v) => \E i \in 1..Len(script) : script[i].op = "AddTextNode" /\ script[i].val = v
  PROVE  WordAt(f, StartAt(f, x) + rel) = IF IsText(v) THEN Place(TextNode(v)) ELSE v.val
<1>0. Ready /\ Heap \in {Heap, Hunk}
  BY DEF Done
<1>1. CASE IsText(v)
  <2>1. LiteralWord(rel, v) = Word(rel, TextNode(v), 0)
    BY <1>1 DEF LiteralWord
  <2>2. InBody(Heap, TextNode(v))
    BY <1>0, <1>1, TextInHeap
  <2>3. WordAt(f, StartAt(f, x) + rel) = 0 + Place(TextNode(v))
    <3> DEFINE w == Word(rel, TextNode(v), 0)
    <3>1. w = Body(f)[x].words[k] /\ w.add \in Int /\ w.rel = rel /\ w.to = TextNode(v) /\ w.add = 0
      BY <2>1, WordParts
    <3> HIDE DEF w
    <3>2. InBody(Heap, w.to)
      BY <2>2, <3>1
    <3>3. WordAt(f, StartAt(f, x) + w.rel) = w.add + Place(w.to)
      BY <1>0, <3>1, <3>2, BodyWord
    <3>. QED
      BY <3>1, <3>3
  <2>4. Place(TextNode(v)) \in Nat
    BY <1>0, <2>2, PlaceIs
  <2>. QED
    BY <1>1, <2>3, <2>4
<1>2. CASE ~IsText(v)
  <2>1. LiteralWord(rel, v) = Word(rel, NoNode, v.val)
    BY <1>2 DEF LiteralWord
  <2> DEFINE w == Word(rel, NoNode, v.val)
  <2>2. w = Body(f)[x].words[k] /\ w.rel = rel /\ w.to = NoNode /\ w.add = v.val
    BY <2>1, WordParts
  <2>3. v.val \in Int
    BY DEF Value, Hole
  <2> HIDE DEF w
  <2>4. WordAt(f, StartAt(f, x) + w.rel) = w.add
    BY <2>2, <2>3, BodyWord
  <2>. QED
    BY <1>2, <2>2, <2>4
<1>. QED
  BY <1>1, <1>2

LEMMA VariablesDeclared ==
  ASSUME Done
  PROVE  VariablesStartAsDeclared
<1>0. /\ Ready /\ Heap \in {Heap, Hunk} /\ Len(script) \in Nat /\ next - 1 = Len(script)
      /\ IsScript(script)
  BY ReadyFacts DEF Done
<1> SUFFICES ASSUME NEW n \in 0..(Len(localVars) - 1)
             PROVE  LET given == {i \in 1..Len(script) : script[i].op = "SetVar" /\ script[i].num = n}
                        word == WordAt(Heap, 4 + 2 * n)
                    IN  IF given = {} THEN word = 0
                        ELSE LET v == script[CHOOSE i \in given : \A k \in given : i <= k].val
                             IN  word = (IF IsText(v) THEN Place(TextNode(v)) ELSE v.val)
  BY DEF VariablesStartAsDeclared
<1> DEFINE given == {i \in 1..Len(script) : script[i].op = "SetVar" /\ script[i].num = n}
           word == WordAt(Heap, 4 + 2 * n)
           v == n + 1
           val == localVars[v]
<1>1. /\ Len(localVars) \in Nat /\ v \in 1..Len(localVars) /\ v - 1 = n
      /\ v \in Nat /\ 2 + 2 * v = 4 + 2 * n
  <2>1. Len(localVars) \in Nat
    BY <1>0, VarsLeafIs
  <2>. QED
    BY <2>1
<1>2. 1 \in 1..Len(Body(Heap)) /\ Body(Heap)[1] = VarsLeaf
  <2>1. PICK begin : HeapHolds(Body(Heap), begin)
    BY <1>0, HeapBody
  <2>. QED
    BY <2>1 DEF HeapHolds
<1>3. StartAt(Heap, 1) = 2
  BY <1>0, <1>2, BodyStarts
<1>4. /\ v + 1 \in 1..Len(Body(Heap)[1].words)
      /\ Body(Heap)[1].words[v + 1] = LiteralWord(2 * v, val)
  <2>1. Len(VarsLeaf.words) = Len(localVars) + 1 /\ VarsLeaf.words[v + 1] = LiteralWord(2 * v, val)
    BY <1>0, <1>1, VarsLeafIs
  <2>2. v + 1 \in 1..(Len(localVars) + 1)
    BY <1>1
  <2>. QED
    BY <1>2, <2>1, <2>2
<1>5. /\ val \in Value \cup {Hole}
      /\ \/ val = Hole /\ given = {}
         \/ \E i \in given : val = script[i].val /\ \A k \in given : i <= k
  <2>1. VarsInv
    BY <1>0 DEF Ready, ContentsInv
  <2>2. val \in Value \cup {Hole}
    BY <1>1, <2>1, ElementOfSeq DEF VarsInv
  <2>3. \/ val = Hole /\ \A i \in 1..Len(script) : ~(script[i].op = "SetVar" /\ script[i].num = n)
        \/ \E i \in 1..Len(script) :
             /\ script[i].op = "SetVar" /\ script[i].num = n
             /\ val = script[i].val
             /\ \A k \in 1..(i - 1) : ~(script[k].op = "SetVar" /\ script[k].num = n)
    BY <1>0, <1>1, <2>1 DEF VarsInv
  <2>4. ASSUME NEW i \in 1..Len(script),
               \A k \in 1..(i - 1) : ~(script[k].op = "SetVar" /\ script[k].num = n)
        PROVE  \A k \in given : i <= k
    <3> SUFFICES ASSUME NEW k \in given, ~(i <= k) PROVE FALSE
      OBVIOUS
    <3>1. k \in 1..(i - 1)
      BY <1>0
    <3>. QED
      BY <2>4, <3>1
  <2>. QED
    BY <2>2, <2>3, <2>4
<1>6. IsText(val) => \E i \in 1..Len(script) : script[i].op = "AddTextNode" /\ script[i].val = val
  <2>1. CASE val = Hole
    BY <2>1 DEF IsText, Hole
  <2>2. CASE \E i \in given : val = script[i].val
    BY <1>0, <2>2 DEF IsScript, TextsAreAdded, NeedsText
  <2>. QED
    BY <1>5, <2>1, <2>2
<1>7. word = IF IsText(val) THEN Place(TextNode(val)) ELSE val.val
  <2>1. 2 * v \in Nat
    BY <1>1
  <2> HIDE DEF v, val, word
  <2>2. WordAt(Heap, StartAt(Heap, 1) + 2 * v) = IF IsText(val) THEN Place(TextNode(val)) ELSE val.val
    BY <1>0, <1>2, <1>4, <1>5, <1>6, <2>1, LiteralAt
  <2>. QED
    BY <1>1, <1>3, <2>2 DEF word
<1>8. CASE given = {}
  <2>1. word = 0
    BY <1>5, <1>7, <1>8 DEF Hole, IsText
  <2>. QED
    BY <1>8, <2>1
<1>9. CASE given # {}
  <2>1. PICK i \in given : val = script[i].val /\ \A k \in given : i <= k
    BY <1>5, <1>9
  <2>2. \A k \in given : k \in Int
    BY <1>0
  <2>3. (CHOOSE k \in given : \A l \in given : k <= l) = i
    <3> HIDE DEF given
    <3>. QED
      BY <2>1, <2>2
  <2> HIDE DEF val, word, given
  <2>. QED
    BY <1>7, <1>9, <2>1, <2>3 DEF given, word
<1>. QED
  BY <1>8, <1>9

LEMMA PublicsFound ==
  ASSUME Done
  PROVE  PublicsAreFound
<1>0. /\ Ready /\ Hunk \in {Heap, Hunk} /\ Len(script) \in Nat /\ next - 1 = Len(script)
      /\ IsScript(script)
  BY ReadyFacts DEF Done
<1>1. PICK begin : HunkHolds(Body(Hunk), begin)
  BY <1>0, HunkBody
<1> DEFINE body == Body(Hunk)
<1>2. /\ body[1] = Plain("heapAddress", Hunk, 0) /\ body[2] = Plain("farText", Hunk, 0)
      /\ 3 \in 1..Len(body) /\ body[3] = DispatchTable /\ Len(body) \in Nat
  BY <1>0, <1>1, BodyStarts DEF HunkHolds
<1> HIDE DEF body
<1>3. StartAt(Hunk, 3) = 6
  <2>1. 1 \in 1..Len(body) /\ 2 \in 1..Len(body)
    BY <1>2
  <2>2. StartAt(Hunk, 1) = 2 /\ StartAt(Hunk, 1 + 1) = EndOf(body[1], 2)
    BY <1>0, <2>1, BodyStarts DEF body
  <2>3. StartAt(Hunk, 2) = 4
    BY <1>2, <2>2 DEF EndOf, Plain, Leaf, Node
  <2>4. 2 + 1 \in 1..Len(body) /\ 2 \in 1..Len(body)
    BY <1>2
  <2>5. StartAt(Hunk, 2 + 1) = EndOf(body[2], StartAt(Hunk, 2))
    BY <1>0, <2>4, BodyStarts DEF body
  <2>. QED
    BY <1>2, <2>3, <2>5 DEF EndOf, Plain, Leaf, Node
<1>4. /\ Len(dispatches) \in Nat /\ Len(body[3].words) = Len(dispatches) + 1
      /\ body[3].words[1] = Word(0, NoNode, Len(dispatches))
      /\ \A d \in 1..Len(dispatches) : body[3].words[d + 1] = Word(2 * d, TargetNode(dispatches[d]), 0)
  BY <1>0, <1>2, DispatchTableIs
<1>5. WordAt(Hunk, 6) = Len(dispatches)
  <2> DEFINE w == Word(0, NoNode, Len(dispatches))
  <2>1. w.rel = 0 /\ w.to = NoNode /\ w.add = Len(dispatches)
    BY WordParts
  <2>2. w = body[3].words[1] /\ 1 \in 1..Len(body[3].words)
    BY <1>4
  <2> HIDE DEF w
  <2>3. WordAt(Hunk, StartAt(Hunk, 3) + w.rel) = w.add
    BY <1>0, <1>2, <1>4, <2>1, <2>2, BodyWord DEF body
  <2>. QED
    BY <1>3, <2>1, <2>3
<1>6. ASSUME NEW i \in 1..Len(script), script[i].op = "AddPublic"
      PROVE  /\ script[i].num < WordAt(Hunk, 6)
             /\ script[Meant[i]].op = "CreateFunction" =>
                  WordAt(Hunk, 8 + 2 * script[i].num) = Place(Node("code", Meant[i]))
  <2> DEFINE d == script[i].num + 1
  <2>1. script[i].num \in Nat
    BY <1>0 DEF IsScript
  <2>2. d \in 1..Len(dispatches) /\ dispatches[d] = i
    <3>1. PublicsOf(script, Len(script), dispatches)
      BY <1>0 DEF Ready, ContentsInv
    <3>. QED
      BY <1>6, <3>1 DEF PublicsOf
  <2>3. script[i].num < WordAt(Hunk, 6)
    BY <1>4, <1>5, <2>1, <2>2
  <2>4. ASSUME script[Meant[i]].op = "CreateFunction"
        PROVE  WordAt(Hunk, 8 + 2 * script[i].num) = Place(Node("code", Meant[i]))
    <3>1. Refers(script[i])
      BY <1>6 DEF Refers
    <3>2. Meant[i] \in 1..Len(script) /\ TargetNode(i) = Node("code", Meant[i])
      BY <1>0, <2>4, <3>1, TargetNodeIs
    <3>3. InBody(Hunk, TargetNode(i))
      BY <1>0, <2>4, <3>2, CodeInHunk DEF CodeKinds
    <3> DEFINE w == Word(2 * d, TargetNode(i), 0)
    <3>4. w.rel = 2 * d /\ w.to = TargetNode(i) /\ w.add = 0
      BY WordParts
    <3> HIDE DEF d
    <3>5. w = body[3].words[d + 1] /\ d + 1 \in 1..Len(body[3].words)
      BY <1>4, <2>2
    <3> HIDE DEF w
    <3>6. WordAt(Hunk, StartAt(Hunk, 3) + w.rel) = w.add + Place(w.to)
      <4>1. InBody(Hunk, w.to) /\ w.add \in Int
        BY <3>3, <3>4
      <4>. QED
        BY <1>0, <1>2, <3>5, <4>1, BodyWord DEF body
    <3>7. Place(TargetNode(i)) \in Nat
      BY <1>0, <3>3, PlaceIs
    <3>8. 6 + 2 * d = 8 + 2 * script[i].num
      BY <2>1 DEF d
    <3>9. WordAt(Hunk, 6 + 2 * d) = 0 + Place(TargetNode(i))
      BY <1>3, <3>4, <3>6
    <3>. QED
      BY <3>2, <3>7, <3>8, <3>9
  <2>. QED
    BY <2>3, <2>4
<1>. QED
  BY <1>6 DEF PublicsAreFound

-----------------------------------------------------------------------------
(* The way of a message.                                                   *)
LEMMA ObjectsDiffer ==
  ASSUME Ready, NEW i \in 1..Len(objects), NEW j \in 1..Len(objects), objects[i].id = objects[j].id
  PROVE  i = j
<1>1. ObjectsOf(script, next - 1, objects) /\ Len(objects) \in Nat
  BY ListsAre DEF Ready, ContentsInv
<1>2. objects[i].id \in Int /\ objects[j].id \in Int
  <2>1. objects[i].id \in 1..Len(script) /\ objects[j].id \in 1..Len(script) /\ Len(script) \in Nat
    BY ObjectIs, ReadyFacts
  <2>. QED
    BY <2>1
<1>3. i < j => objects[i].id < objects[j].id
  BY <1>1 DEF ObjectsOf
<1>4. j < i => objects[j].id < objects[i].id
  BY <1>1 DEF ObjectsOf
<1>. QED
  BY <1>1, <1>2, <1>3, <1>4

(* Where the properties of object j are.                                   *)
LEMMA PropsPlace ==
  ASSUME Done, NEW begin, HeapHolds(Body(Heap), begin), NEW j \in 1..Len(objects)
  PROVE  /\ begin[j] \in Nat
         /\ 1 + begin[j] + 1 \in 1..Len(Body(Heap))
         /\ Body(Heap)[1 + begin[j] + 1] = Mark("props", objects[j].id)
         /\ Place(Node("props", objects[j].id)) = StartAt(Heap, 1 + begin[j] + 1)
<1> DEFINE body == Body(Heap)
           node == Node("props", objects[j].id)
<1>0. Ready /\ Heap \in {Heap, Hunk}
  BY DEF Done
<1>1. begin[j] \in Nat
  <2>1. Len(objects) \in Nat
    BY <1>0, ListsAre
  <2>2. j \in 1..(Len(objects) + 1)
    BY <2>1
  <2>. QED
    BY <2>2 DEF HeapHolds
<1>2. PICK x : x = 1 + begin[j] + 1
  OBVIOUS
<1>3. x \in 1..Len(body) /\ body[x] = Mark("props", objects[j].id)
  <2>1. Props(objects[j])[1] = Mark("props", objects[j].id) /\ 1 \in 1..Len(Props(objects[j]))
    BY <1>0, PropsIs
  <2>. QED
    BY <1>2, <2>1 DEF HeapHolds
<1>4. ASSUME NEW y \in 1..Len(body), body[y].node = node PROVE y = x
  <2>1. CASE y = 1
    <3>1. body[y].node = Node("vars", 0)
      BY <1>0, <2>1, VarsLeafIs DEF HeapHolds
    <3>2. "vars" = "props"
      BY <1>4, <3>1, NodeParts
    <3>. QED
      BY <3>2
  <2>2. CASE \E i \in 1..Len(objects) : \E k \in 1..Len(Props(objects[i])) : y = 1 + begin[i] + k
    <3>0. PICK i \in 1..Len(objects) : \E k \in 1..Len(Props(objects[i])) : y = 1 + begin[i] + k
      BY <2>2
    <3>1. PICK k \in 1..Len(Props(objects[i])) : y = 1 + begin[i] + k
      BY <3>0
    <3>2. body[y] = Props(objects[i])[k]
      BY <3>1 DEF HeapHolds
    <3>3. /\ Len(objects[i].props) \in Nat /\ Len(Props(objects[i])) = Len(objects[i].props) + 1
          /\ Props(objects[i])[1] = Mark("props", objects[i].id)
          /\ \A l \in 1..Len(objects[i].props) :
               /\ objects[i].props[l] \in 1..Len(script)
               /\ script[objects[i].props[l]].op \in PropKinds
               /\ Props(objects[i])[l + 1] = PropLeaf(objects[i], objects[i].props[l])
      BY <1>0, PropsIs
    <3>4. CASE k = 1
      <4>1. body[y].node = Node("props", objects[i].id)
        BY <3>2, <3>3, <3>4, LeafParts
      <4>2. objects[i].id = objects[j].id
        BY <1>4, <4>1, NodeParts
      <4>3. i = j
        BY <1>0, <4>2, ObjectsDiffer
      <4>. QED
        BY <1>2, <3>1, <3>4, <4>3
    <3>5. CASE k # 1
      <4>1. k - 1 \in 1..Len(objects[i].props) /\ (k - 1) + 1 = k
        BY <3>3, <3>5
      <4> DEFINE id == objects[i].props[k - 1]
      <4>2. body[y] = PropLeaf(objects[i], id) /\ id \in 1..Len(script) /\ script[id].op \in PropKinds
        BY <3>2, <3>3, <4>1
      <4>3. objects[i] \in ObjectType
        BY <1>0, ObjectIs
      <4> HIDE DEF id
      <4>4. body[y].node = Node("prop", id)
        BY <1>0, <4>2, <4>3, PropLeafIs
      <4>5. "prop" = "props"
        BY <1>4, <4>4, NodeParts
      <4>. QED
        BY <4>5
    <3>. QED
      BY <3>4, <3>5
  <2>3. CASE body[y] = Plain("terminator", Heap, 0)
    <3>1. "terminator" = "props"
      BY <1>4, <2>3, LeafParts, NodeParts
    <3>. QED
      BY <3>1
  <2>4. CASE \E t \in 1..Len(texts) : body[y] = TextLeaf(t)
    <3>1. "text" = "props"
      BY <1>4, <2>4, LeafParts, NodeParts
    <3>. QED
      BY <3>1
  <2>. QED
    BY <2>1, <2>2, <2>3, <2>4 DEF HeapHolds
<1>5. body[x].node = node
  BY <1>3, LeafParts
<1>6. Place(node) = StartAt(Heap, x)
  <2> HIDE DEF node
  <2>. QED
    BY <1>0, <1>3, <1>4, <1>5, PlaceOfOne
<1>. QED
  BY <1>1, <1>2, <1>3, <1>6

(* The two leaves of the dictionary of an object that others point to.     *)
IsEntry(o, kind, k) ==
  \/ kind = "propDict" /\ k = 1
  \/ kind = "methDict" /\ k = SelectorsOf(o) + 2

(* Leaf k of the dictionary, and its place in the hunk.                    *)
StandsIn(begin, j, o, kind, k) ==
  /\ begin[j] \in Nat /\ k \in 1..Len(Dictionary(o))
  /\ 3 + begin[j] + k \in 1..Len(Body(Hunk))
  /\ Body(Hunk)[3 + begin[j] + k] = Dictionary(o)[k]
  /\ InBody(Hunk, Node(kind, o.id))
  /\ Place(Node(kind, o.id)) = StartAt(Hunk, 3 + begin[j] + k)
  /\ Place(Node(kind, o.id)) \in Nat

(* The leaves of the dictionary of object j are where they are.            *)
LEMMA DictionaryPlaces ==
  ASSUME Done, NEW begin, HunkHolds(Body(Hunk), begin), NEW j \in 1..Len(objects),
         NEW o, o = objects[j], NEW kind, NEW k, IsEntry(o, kind, k)
  PROVE  StandsIn(begin, j, o, kind, k)
<1> USE DEF IsEntry
<1> DEFINE body == Body(Hunk)
           node == Node(kind, o.id)
<1>0. Ready /\ Hunk \in {Heap, Hunk}
  BY DEF Done
<1>1. begin[j] \in Nat
  <2>1. Len(objects) \in Nat
    BY <1>0, ListsAre
  <2>2. j \in 1..(Len(objects) + 1)
    BY <2>1
  <2>. QED
    BY <2>2 DEF HunkHolds
<1>2. /\ SelectorsOf(o) \in Nat /\ Len(o.methods) \in Nat
      /\ Len(Dictionary(o)) = SelectorsOf(o) + 2 * Len(o.methods) + 2
      /\ Dictionary(o)[1] = Mark("propDict", o.id)
      /\ Dictionary(o)[SelectorsOf(o) + 2] = Plain("methDict", o.id, Len(o.methods))
  BY <1>0, DictionaryIs
<1>3. k \in 1..Len(Dictionary(o))
  <2> DEFINE s == SelectorsOf(o)
             m == Len(o.methods)
             l == Len(Dictionary(o))
  <2>1. s \in Nat /\ m \in Nat /\ l = s + 2 * m + 2 /\ (k = 1 \/ k = s + 2)
    BY <1>2
  <2> HIDE DEF s, m, l
  <2>2. k \in 1..l
    BY <2>1
  <2>. QED
    BY <2>2 DEF l
<1>4. PICK x : x = 3 + begin[j] + k
  OBVIOUS
<1>5. x \in 1..Len(body) /\ body[x] = Dictionary(o)[k]
  BY <1>3, <1>4 DEF HunkHolds
<1>6. Dictionary(o)[k].node = node
  BY <1>2, LeafParts
<1>7. ASSUME NEW y \in 1..Len(body), body[y].node = node PROVE y = x
  <2>1. CASE y \in 1..3
    <3>1. body[y] = Plain("heapAddress", Hunk, 0) \/ body[y] = Plain("farText", Hunk, 0) \/ body[y] = DispatchTable
      BY <2>1 DEF HunkHolds
    <3>2. body[y].node[1] \in {"heapAddress", "farText", "dispatchTable"}
      BY <1>0, <3>1, LeafParts, DispatchTableIs
    <3>3. body[y].node[1] = kind
      BY <1>7, LeafParts
    <3>. QED
      BY <3>2, <3>3
  <2>2. CASE \E i \in 1..Len(objects) : \E n \in 1..Len(Dictionary(objects[i])) : y = 3 + begin[i] + n
    <3>0. PICK i \in 1..Len(objects) : \E n \in 1..Len(Dictionary(objects[i])) : y = 3 + begin[i] + n
      BY <2>2
    <3>1. PICK n \in 1..Len(Dictionary(objects[i])) : y = 3 + begin[i] + n
      BY <3>0
    <3>2. PICK p : p = objects[i]
      OBVIOUS
    <3>3. body[y] = Dictionary(p)[n]
      BY <3>1, <3>2 DEF HunkHolds
    <3>4. Dictionary(p)[n].node = Node(kind, o.id)
      BY <1>7, <3>3
    <3>5. ASSUME NEW a, NEW b, Dictionary(p)[n].node = Node(a, b) PROVE a = kind /\ b = o.id
      <4>1. Node(a, b) = Node(kind, o.id)
        BY <3>4, <3>5
      <4>. QED
        BY <4>1, NodeParts
    <3>6. DictionaryLeaf(p, n)
      BY <1>0, <3>2, DictionaryCases
    <3>7. \/ n = 1 /\ kind = "propDict" /\ p.id = o.id
          \/ kind = "selector"
          \/ n = SelectorsOf(p) + 2 /\ kind = "methDict" /\ p.id = o.id
          \/ kind = "method"
      <4>1. /\ \A a, b : Mark(a, b).node = Node(a, b)
            /\ \A a, b, v : Plain(a, b, v).node = Node(a, b)
            /\ \A a, b, v : Pointer(a, b, v).node = Node(a, b)
        BY LeafParts
      <4>2. CASE n = 1 /\ Dictionary(p)[n] = Mark("propDict", p.id)
        <5>1. Dictionary(p)[n].node = Node("propDict", p.id)
          BY <4>1, <4>2
        <5>. QED
          BY <3>5, <4>2, <5>1
      <4>3. CASE n = SelectorsOf(p) + 2 /\ Dictionary(p)[n] = Plain("methDict", p.id, Len(p.methods))
        <5>1. Dictionary(p)[n].node = Node("methDict", p.id)
          BY <4>1, <4>3
        <5>. QED
          BY <3>5, <4>3, <5>1
      <4>4. ASSUME NEW a, NEW b, Dictionary(p)[n] = Plain("selector", a, b) PROVE kind = "selector"
        <5>1. Dictionary(p)[n].node = Node("selector", a)
          BY <4>1, <4>4
        <5>. QED
          BY <3>5, <5>1
      <4>5. ASSUME NEW a, NEW b, Dictionary(p)[n] = Pointer("method", a, b) PROVE kind = "method"
        <5>1. Dictionary(p)[n].node = Node("method", a)
          BY <4>1, <4>5
        <5>. QED
          BY <3>5, <5>1
      <4>. QED
        BY <3>6, <4>2, <4>3, <4>4, <4>5 DEF DictionaryLeaf
    <3>8. p.id = o.id /\ n = IF kind = "propDict" THEN 1 ELSE SelectorsOf(p) + 2
      BY <3>7
    <3>9. i = j
      BY <1>0, <3>2, <3>8, ObjectsDiffer
    <3>. QED
      BY <1>4, <3>1, <3>2, <3>8, <3>9
  <2>3. CASE \E c \in 1..Len(code) : y = 3 + begin[Len(objects) + 1] + c
    <3>1. PICK c \in 1..Len(code) : body[y] = CodeLeaf(code[c])
      BY <2>3 DEF HunkHolds
    <3>2. code[c] \in 1..Len(script) /\ script[code[c]].op \in CodeKinds
      BY <1>0, ListsAre
    <3>3. body[y].node = Node("code", code[c])
      BY <1>0, <3>1, <3>2, CodeLeafIs
    <3>4. "code" = kind
      BY <1>7, <3>3, NodeParts
    <3>. QED
      BY <3>4
  <2>. QED
    BY <2>1, <2>2, <2>3 DEF HunkHolds
<1>8. body[x].node = node
  BY <1>5, <1>6
<1>9. InBody(Hunk, node) /\ Place(node) = StartAt(Hunk, x) /\ Place(node) \in Nat
  <2> HIDE DEF node
  <2>. QED
    BY <1>0, <1>5, <1>7, <1>8, PlaceOfOne
<1>. QED
  BY <1>1, <1>3, <1>4, <1>5, <1>9 DEF StandsIn

(* The properties of an object lead to its dictionaries.                   *)
LEMMA PropertyFound ==
  ASSUME Done, NEW j \in 1..Len(objects), NEW o, o = objects[j],
         NEW kind \in {"AppendPropTableProperty", "AppendMethodTableProperty"}
  PROVE  ValueOfProp(o.id, kind) =
           Place(Node(IF kind = "AppendPropTableProperty" THEN "propDict" ELSE "methDict", o.id))
<1>0. /\ Ready /\ Heap \in {Heap, Hunk} /\ Hunk \in {Heap, Hunk} /\ IsScript(script) /\ Len(script) \in Nat
  BY ReadyFacts DEF Done
<1>1. PICK begin : HeapHolds(Body(Heap), begin)
  BY <1>0, HeapBody
<1> DEFINE body == Body(Heap)
           n == Len(o.props)
           x == 1 + begin[j] + 1
           dict == Node(IF kind = "AppendPropTableProperty" THEN "propDict" ELSE "methDict", o.id)
<1>2. /\ o \in ObjectType /\ o.id \in 1..Len(script) /\ script[o.id].op \in ObjectKinds
      /\ o.props = PropCallsOf(o.id)
      /\ IsSelection(o.props, Len(script),
           {i \in Nat : Belongs(script, o.id, i) /\ script[i].op \in PropKinds})
  BY <1>0, ObjectIs
<1>3. /\ n \in Nat /\ Len(Props(o)) = n + 1 /\ Props(o)[1] = Mark("props", o.id)
      /\ \A i \in 1..n : /\ o.props[i] \in 1..Len(script) /\ script[o.props[i]].op \in PropKinds
                         /\ Props(o)[i + 1] = PropLeaf(o, o.props[i])
  BY <1>0, PropsIs
<1>4. /\ begin[j] \in Nat /\ x \in 1..Len(body) /\ body[x] = Mark("props", o.id)
      /\ Place(Node("props", o.id)) = StartAt(Heap, x)
  BY <1>1, PropsPlace
<1>5. \A k \in 1..Len(Props(o)) : 1 + begin[j] + k \in 1..Len(body) /\ body[1 + begin[j] + k] = Props(o)[k]
  BY <1>1 DEF HeapHolds
<1> DEFINE t == CHOOSE i \in 1..n : script[o.props[i]].op = kind
<1>6. t \in 1..n /\ script[o.props[t]].op = kind
  <2>1. PICK i \in 1..Len(script) : Belongs(script, o.id, i) /\ script[i].op = kind
    BY <1>0, <1>2 DEF IsScript, ObjectsAreWhole
  <2>2. i \in {c \in Nat : Belongs(script, o.id, c) /\ script[c].op \in PropKinds}
    BY <1>0, <2>1 DEF PropKinds
  <2>3. \E c \in 1..n : o.props[c] = i
    BY <1>2, <2>2 DEF IsSelection
  <2>. QED
    BY <2>1, <2>3
<1> HIDE DEF t, body
<1>7. ASSUME NEW i \in 1..n
      PROVE  /\ x + i \in 1..Len(body) /\ body[x + i] = PropLeaf(o, o.props[i])
             /\ body[x + i].size = 2 /\ body[x + i].node[1] # "padding"
  <2>1. i + 1 \in 1..Len(Props(o)) /\ 1 + begin[j] + (i + 1) = x + i
    <3>1. PICK b \in Nat : b = begin[j]
      BY <1>4
    <3>2. PICK l \in Nat : l = n /\ Len(Props(o)) = l + 1
      BY <1>3
    <3>3. i \in 1..l
      BY <3>2
    <3>4. i + 1 \in 1..(l + 1) /\ 1 + b + (i + 1) = 1 + b + 1 + i
      BY <3>3
    <3>. QED
      BY <3>1, <3>2, <3>4
  <2>2. body[x + i] = PropLeaf(o, o.props[i]) /\ x + i \in 1..Len(body)
    BY <1>3, <1>5, <2>1
  <2>3. PropLeaf(o, o.props[i]).node = Node("prop", o.props[i]) /\ PropLeaf(o, o.props[i]).size = 2
    BY <1>0, <1>2, <1>3, PropLeafIs
  <2>. QED
    BY <2>2, <2>3, LeafParts
<1>8. StartAt(Heap, x + t) = StartAt(Heap, x) + 0 + 2 * (t - 1)
  <2>1. n \in Nat /\ t \in 1..n /\ x + n \in 1..Len(body)
    <3>1. n \in 1..n
      BY <1>3, <1>6
    <3>. QED
      BY <1>3, <1>6, <1>7, <3>1
  <2>2. body[x].size = 0 /\ body[x].node[1] # "padding"
    BY <1>4, LeafParts
  <2>3. \A i \in 1..n : body[x + i].size = 2 /\ body[x + i].node[1] # "padding"
    BY <1>7
  <2>4. 0 \in {0, 2} /\ x \in 1..Len(body)
    BY <1>4
  <2> HIDE DEF x, n
  <2>5. \A i \in 1..n : StartAt(Heap, x + i) = StartAt(Heap, x) + 0 + 2 * (i - 1)
    <3>1. \A i \in 1..n : StartAt(Heap, x + i) = StartAt(Heap, x) + body[x].size + 2 * (i - 1)
      BY <1>0, <2>1, <2>2, <2>3, <2>4, EvenStarts DEF body
    <3>. QED
      BY <2>2, <3>1
  <2>. QED
    BY <2>1, <2>5
<1>9. /\ x + t \in 1..Len(body) /\ body[x + t].words = <<Word(0, dict, 0)>>
  <2>1. o.props[t] \in 1..Len(script)
    BY <1>3, <1>6
  <2>2. PropLeaf(o, o.props[t]).words = <<Word(0, dict, 0)>>
    <3>1. CASE kind = "AppendPropTableProperty"
      BY <1>0, <1>2, <1>6, <2>1, <3>1, PropLeafIs DEF PropKinds
    <3>2. CASE kind = "AppendMethodTableProperty"
      BY <1>0, <1>2, <1>6, <2>1, <3>2, PropLeafIs DEF PropKinds
    <3>. QED
      BY <3>1, <3>2
  <2>. QED
    BY <1>6, <1>7, <2>2
<1>10. InBody(Hunk, dict) /\ Place(dict) \in Nat
  <2>1. PICK places : HunkHolds(Body(Hunk), places)
    BY <1>0, HunkBody
  <2>2. PICK type \in {"propDict", "methDict"} : dict = Node(type, o.id)
    OBVIOUS
  <2>3. PICK k : IsEntry(o, type, k)
    BY DEF IsEntry
  <2> HIDE DEF dict
  <2>4. StandsIn(places, j, o, type, k)
    BY <2>1, <2>3, DictionaryPlaces
  <2>. QED
    BY <2>2, <2>4 DEF StandsIn
<1>11. WordAt(Heap, StartAt(Heap, x + t)) = Place(dict)
  <2> DEFINE w == Word(0, dict, 0)
  <2>1. w.rel = 0 /\ w.to = dict /\ w.add = 0
    BY WordParts
  <2> HIDE DEF w, dict, x
  <2>2. w = body[x + t].words[1] /\ 1 \in 1..Len(body[x + t].words) /\ w.add \in Int
    BY <1>9, <2>1 DEF w
  <2>3. InBody(Hunk, w.to)
    BY <1>10, <2>1
  <2>4. WordAt(Heap, StartAt(Heap, x + t) + w.rel) = w.add + Place(w.to)
    BY <1>0, <1>9, <2>2, <2>3, BodyWord DEF body
  <2>5. StartAt(Heap, x + t) \in Nat
    BY <1>0, <1>9, BodyStarts DEF body
  <2>. QED
    BY <1>10, <2>1, <2>4, <2>5
<1>12. ValueOfProp(o.id, kind) = WordAt(Heap, Place(Node("props", o.id)) + 2 * (t - 1))
  BY <1>2 DEF ValueOfProp, t
<1>13. StartAt(Heap, x) + 0 + 2 * (t - 1) = StartAt(Heap, x) + 2 * (t - 1)
  <2>1. StartAt(Heap, x) \in Nat
    BY <1>0, <1>4, BodyStarts DEF body
  <2>. QED
    BY <2>1
<1>. QED
  BY <1>4, <1>8, <1>11, <1>12, <1>13

-----------------------------------------------------------------------------
(* In the dictionary every leaf but the first is a word.                   *)
LEMMA DictionaryWords ==
  ASSUME Ready, NEW j \in 1..Len(objects), NEW o, o = objects[j],
         NEW k \in 1..Len(Dictionary(o)), k # 1
  PROVE  Dictionary(o)[k].size = 2 /\ Dictionary(o)[k].node[1] # "padding"
<1>1. DictionaryLeaf(o, k)
  BY DictionaryCases
<1>2. ASSUME NEW a, NEW b, NEW kind, kind # "padding",
             Dictionary(o)[k] = Plain(kind, a, b) \/ Dictionary(o)[k] = Pointer(kind, a, b)
      PROVE  Dictionary(o)[k].size = 2 /\ Dictionary(o)[k].node[1] # "padding"
  BY <1>2, LeafParts
<1>. QED
  BY <1>1, <1>2 DEF DictionaryLeaf

(* Words in a row, behind leaf k of a part of the hunk.                    *)
IsRow(n, part, k, m) ==
  \A i \in 1..m :
    /\ n + (k + i) \in 1..Len(Body(Hunk)) /\ Body(Hunk)[n + (k + i)] = part[k + i]
    /\ StartAt(Hunk, n + (k + i)) = StartAt(Hunk, n + k) + part[k].size + 2 * (i - 1)

LEMMA DictionaryRow ==
  ASSUME Done, NEW begin, HunkHolds(Body(Hunk), begin), NEW j \in 1..Len(objects),
         NEW o, o = objects[j], NEW k \in 1..Len(Dictionary(o)),
         Dictionary(o)[k].size \in {0, 2}, Dictionary(o)[k].node[1] # "padding",
         NEW m \in Nat, k + m <= Len(Dictionary(o)), begin[j] \in Nat
  PROVE  IsRow(3 + begin[j], Dictionary(o), k, m)
<1> DEFINE body == Body(Hunk)
           d == Dictionary(o)
           b == begin[j]
           x == 3 + b + k
           size == Dictionary(o)[k].size
<1>0. Ready /\ Hunk \in {Heap, Hunk}
  BY DEF Done
<1>1. Len(d) \in Nat /\ b \in Nat /\ k \in 1..Len(d) /\ k + m <= Len(d)
  BY <1>0, DictionaryIs, LenProperties
<1>2. \A i \in 1..Len(d) : 3 + b + i \in 1..Len(body) /\ body[3 + b + i] = d[i]
  BY DEF HunkHolds
<1>3. ASSUME NEW i \in 1..m
      PROVE  /\ k + i \in 1..Len(d) /\ k + i # 1 /\ x + i = 3 + b + (k + i)
             /\ x + i \in 1..Len(body) /\ body[x + i] = d[k + i]
             /\ body[x + i].size = 2 /\ body[x + i].node[1] # "padding"
  <2> HIDE DEF b, d, body
  <2>1. k + i \in 1..Len(d) /\ k + i # 1 /\ x + i = 3 + b + (k + i)
    BY <1>1
  <2>2. x + i \in 1..Len(body) /\ body[x + i] = d[k + i]
    BY <1>2, <2>1
  <2>3. d[k + i].size = 2 /\ d[k + i].node[1] # "padding"
    BY <1>0, <2>1, DictionaryWords DEF d
  <2>. QED
    BY <2>1, <2>2, <2>3
<1>4. /\ x \in 1..Len(body) /\ body[x].size = size /\ size \in {0, 2} /\ body[x].node[1] # "padding"
  BY <1>1, <1>2
<1>5. x + m \in 1..Len(body)
  <2>1. CASE m = 0
    <3>1. x \in Int
      BY <1>1
    <3> HIDE DEF x, body
    <3>2. x + m = x
      BY <2>1, <3>1
    <3>. QED
      BY <1>4, <3>2
  <2>2. CASE m # 0
    <3>1. m \in 1..m
      BY <2>2
    <3>. QED
      BY <1>3, <3>1
  <2>. QED
    BY <2>1, <2>2
<1> HIDE DEF x, body, d, b, size
<1>6. \A i \in 1..m : StartAt(Hunk, x + i) = StartAt(Hunk, x) + size + 2 * (i - 1)
  <2>1. \A i \in 1..m : body[x + i].size = 2 /\ body[x + i].node[1] # "padding"
    BY <1>3
  <2>2. body[x].size \in {0, 2}
    BY <1>4
  <2>3. \A i \in 1..m : StartAt(Hunk, x + i) = StartAt(Hunk, x) + body[x].size + 2 * (i - 1)
    BY <1>0, <1>4, <1>5, <2>1, <2>2, EvenStarts DEF body
  <2>. QED
    BY <1>4, <2>3
<1>7. x = 3 + b + k
  BY DEF x
<1>8. ASSUME NEW i \in 1..m
      PROVE  /\ 3 + b + (k + i) \in 1..Len(body)
             /\ body[3 + b + (k + i)] = d[k + i]
             /\ StartAt(Hunk, 3 + b + (k + i)) = StartAt(Hunk, 3 + b + k) + size + 2 * (i - 1)
  BY <1>3, <1>6, <1>7
<1>. QED
  BY <1>8 DEF IsRow, b, d, body, size

(* The number in a plain word of the hunk, and the place a pointer leads to. *)
LEMMA PlainWord ==
  ASSUME Done, NEW x \in 1..Len(Body(Hunk)), NEW kind, NEW id, NEW n \in Int,
         Body(Hunk)[x] = Plain(kind, id, n)
  PROVE  WordAt(Hunk, StartAt(Hunk, x)) = n
<1> DEFINE w == Word(0, NoNode, n)
<1>1. w.rel = 0 /\ w.to = NoNode /\ w.add = n
  BY WordParts
<1>2. w = Body(Hunk)[x].words[1] /\ 1 \in 1..Len(Body(Hunk)[x].words)
  <2>1. Body(Hunk)[x].words = <<w>>
    BY LeafParts
  <2>. QED
    BY <2>1
<1> HIDE DEF w
<1>3. WordAt(Hunk, StartAt(Hunk, x) + w.rel) = w.add
  BY <1>1, <1>2, BodyWord
<1>4. StartAt(Hunk, x) \in Nat
  BY BodyStarts
<1>. QED
  BY <1>1, <1>3, <1>4

LEMMA PointerWord ==
  ASSUME Done, NEW x \in 1..Len(Body(Hunk)), NEW kind, NEW id, NEW to, InBody(Hunk, to),
         Body(Hunk)[x] = Pointer(kind, id, to)
  PROVE  WordAt(Hunk, StartAt(Hunk, x)) = Place(to)
<1> DEFINE w == Word(0, to, 0)
<1>1. w.rel = 0 /\ w.to = to /\ w.add = 0
  BY WordParts
<1>2. w = Body(Hunk)[x].words[1] /\ 1 \in 1..Len(Body(Hunk)[x].words)
  <2>1. Body(Hunk)[x].words = <<w>>
    BY LeafParts
  <2>. QED
    BY <2>1
<1> HIDE DEF w
<1>3. WordAt(Hunk, StartAt(Hunk, x) + w.rel) = w.add + Place(w.to)
  <2>1. InBody(Hunk, w.to) /\ w.add \in Int
    BY <1>1
  <2>. QED
    BY <1>2, <2>1, BodyWord
<1>4. StartAt(Hunk, x) \in Nat /\ Place(to) \in Nat
  BY BodyStarts, PlaceIs
<1>. QED
  BY <1>1, <1>3, <1>4

LEMMA MethodsFound ==
  ASSUME Done, NEW j \in 1..Len(objects), NEW o, o = objects[j],
         NEW dict, dict = Place(Node("methDict", o.id))
  PROVE  /\ WordAt(Hunk, dict) = Len(o.methods)
         /\ \A i \in 1..Len(o.methods) :
              /\ WordAt(Hunk, dict + 4 * i - 2) = script[o.methods[i]].num
              /\ WordAt(Hunk, dict + 4 * i) = Place(Node("code", Meant[o.methods[i]]))
<1> DEFINE body == Body(Hunk)
           d == Dictionary(o)
           m == Len(o.methods)
           s == SelectorsOf(o)
<1>0. /\ Ready /\ Hunk \in {Heap, Hunk} /\ IsScript(script) /\ Len(script) \in Nat
  BY ReadyFacts DEF Done
<1>1. PICK begin : HunkHolds(body, begin)
  BY <1>0, HunkBody
<1> DEFINE b == begin[j]
           k == s + 2
<1>2. /\ s \in Nat /\ m \in Nat /\ Len(d) = s + 2 * m + 2 /\ d[k] = Plain("methDict", o.id, m)
      /\ \A i \in 1..m :
           /\ o.methods[i] \in 1..Len(script) /\ script[o.methods[i]].op = "AppendMethod"
           /\ d[s + 2 * i + 1] = Plain("selector", o.methods[i], script[o.methods[i]].num)
           /\ d[s + 2 * i + 2] = Pointer("method", o.methods[i], TargetNode(o.methods[i]))
  BY <1>0, DictionaryIs
<1>3. /\ b \in Nat /\ k \in 1..Len(d) /\ 3 + b + k \in 1..Len(body) /\ body[3 + b + k] = d[k]
      /\ dict = StartAt(Hunk, 3 + b + k) /\ dict \in Nat
  <2>1. IsEntry(o, "methDict", k)
    BY DEF IsEntry
  <2> HIDE DEF k
  <2>2. StandsIn(begin, j, o, "methDict", k)
    BY <1>1, <2>1, DictionaryPlaces
  <2>. QED
    BY <2>2 DEF StandsIn
<1>4. WordAt(Hunk, dict) = m
  <2> DEFINE x == 3 + b + k
  <2>1. x \in 1..Len(Body(Hunk)) /\ dict = StartAt(Hunk, x) /\ m \in Int
    BY <1>2, <1>3
  <2>2. Body(Hunk)[x] = Plain("methDict", o.id, m)
    BY <1>2, <1>3
  <2> HIDE DEF x, m
  <2>3. WordAt(Hunk, StartAt(Hunk, x)) = m
    BY <2>1, <2>2, PlainWord
  <2>. QED
    BY <2>1, <2>3
<1>5. \A i \in 1..(2 * m) :
        /\ 3 + b + (k + i) \in 1..Len(body) /\ body[3 + b + (k + i)] = d[k + i]
        /\ StartAt(Hunk, 3 + b + (k + i)) = dict + 2 + 2 * (i - 1)
  <2>1. d[k].size = 2 /\ d[k].node[1] # "padding"
    BY <1>2, LeafParts
  <2>2. 2 * m \in Nat /\ k + 2 * m <= Len(d)
    <3> HIDE DEF m, s, d
    <3>. QED
      BY <1>2
  <2>3. PICK n \in Nat : n = 2 * m
    BY <2>2
  <2> HIDE DEF k, m
  <2>4. \A i \in 1..n :
          /\ 3 + b + (k + i) \in 1..Len(body) /\ body[3 + b + (k + i)] = d[k + i]
          /\ StartAt(Hunk, 3 + b + (k + i)) = StartAt(Hunk, 3 + b + k) + 2 + 2 * (i - 1)
    <3>1. k + n <= Len(d)
      BY <2>2, <2>3
    <3>2. IsRow(3 + b, d, k, n)
      BY <1>1, <1>3, <2>1, <3>1, DictionaryRow
    <3> HIDE DEF d, b
    <3>. QED
      BY <2>1, <3>2 DEF IsRow
  <2>. QED
    BY <1>3, <2>3, <2>4
<1> HIDE DEF body, b
<1>6. ASSUME NEW i \in 1..m
      PROVE  /\ WordAt(Hunk, dict + 4 * i - 2) = script[o.methods[i]].num
             /\ WordAt(Hunk, dict + 4 * i) = Place(Node("code", Meant[o.methods[i]]))
  <2> DEFINE id == o.methods[i]
  <2>1. id \in 1..Len(script) /\ script[id].op = "AppendMethod"
    BY <1>2
  <2>2. PICK p \in Nat : p = 2 * i - 1 /\ p \in 1..(2 * m) /\ k + p = s + 2 * i + 1
    <3> HIDE DEF m, s
    <3>. QED
      BY <1>2
  <2>3. PICK q \in Nat : q = 2 * i /\ q \in 1..(2 * m) /\ k + q = s + 2 * i + 2
    <3> HIDE DEF m, s
    <3>. QED
      BY <1>2
  <2>4. dict + 2 + 2 * (p - 1) = dict + 4 * i - 2 /\ dict + 2 + 2 * (q - 1) = dict + 4 * i
    <3>1. PICK r \in Nat : r = dict
      BY <1>3
    <3>2. i \in Nat
      BY <1>2
    <3>3. r + 2 + 2 * (p - 1) = r + 4 * i - 2 /\ r + 2 + 2 * (q - 1) = r + 4 * i
      BY <2>2, <2>3, <3>2
    <3>. QED
      BY <3>1, <3>3
  <2>5. d[k + p] = Plain("selector", id, script[id].num) /\ d[k + q] = Pointer("method", id, TargetNode(id))
    <3> HIDE DEF d, k, s, m
    <3>. QED
      BY <1>2, <2>2, <2>3
  <2> HIDE DEF k, d, m, s
  <2>6. WordAt(Hunk, dict + 4 * i - 2) = script[id].num
    <3> DEFINE x == 3 + b + (k + p)
    <3>1. x \in 1..Len(body) /\ body[x] = d[k + p] /\ StartAt(Hunk, x) = dict + 2 + 2 * (p - 1)
      BY <1>5, <2>2
    <3>2. script[id].num \in Int
      BY <1>0, <2>1 DEF IsScript
    <3> HIDE DEF x
    <3>3. WordAt(Hunk, StartAt(Hunk, x)) = script[id].num
      BY <2>5, <3>1, <3>2, PlainWord DEF body
    <3>. QED
      BY <2>4, <3>1, <3>3
  <2>7. Refers(script[id])
    BY <2>1 DEF Refers
  <2>8. Meant[id] \in 1..Len(script) /\ script[Meant[id]].op = "CreateFunction"
    <3>1. Meant[id] \in 1..Len(script) /\ Creates(script[Meant[id]])
      BY <1>0, <2>1, <2>7, TargetNodeIs
    <3>2. script[Meant[id]].name = script[id].name
      BY <1>0, <2>1, <2>7, TargetNodeIs
    <3>. QED
      BY <1>0, <2>1, <2>7, <3>1, <3>2 DEF IsScript, NamesAreOfTheirKind
  <2>9. TargetNode(id) = Node("code", Meant[id]) /\ InBody(Hunk, TargetNode(id))
    <3>1. TargetNode(id) = Node("code", Meant[id])
      BY <1>0, <2>1, <2>7, <2>8, TargetNodeIs
    <3>. QED
      BY <1>0, <2>8, <3>1, CodeInHunk DEF CodeKinds
  <2>10. WordAt(Hunk, dict + 4 * i) = Place(Node("code", Meant[id]))
    <3> DEFINE x == 3 + b + (k + q)
    <3>1. x \in 1..Len(body) /\ body[x] = d[k + q] /\ StartAt(Hunk, x) = dict + 2 + 2 * (q - 1)
      BY <1>5, <2>3
    <3> HIDE DEF x
    <3>2. WordAt(Hunk, StartAt(Hunk, x)) = Place(TargetNode(id))
      BY <2>5, <2>9, <3>1, PointerWord DEF body
    <3>. QED
      BY <2>4, <2>9, <3>1, <3>2
  <2>. QED
    BY <2>6, <2>10
<1>. QED
  BY <1>4, <1>6

(* A class lists the selectors of its properties.                          *)
LEMMA SelectorsFound ==
  ASSUME Done, NEW j \in 1..Len(objects), NEW o, o = objects[j],
         script[o.id].op = "CreateClass",
         NEW dict, dict = Place(Node("propDict", o.id))
  PROVE  \A i \in 1..Len(o.props) : WordAt(Hunk, dict + 2 * i - 2) = script[o.props[i]].num
<1> DEFINE body == Body(Hunk)
           d == Dictionary(o)
           s == SelectorsOf(o)
<1>0. /\ Ready /\ Hunk \in {Heap, Hunk} /\ IsScript(script) /\ Len(script) \in Nat
  BY ReadyFacts DEF Done
<1>1. PICK begin : HunkHolds(body, begin)
  BY <1>0, HunkBody
<1> DEFINE b == begin[j]
<1>2. /\ s \in Nat /\ Len(o.methods) \in Nat /\ Len(d) = s + 2 * Len(o.methods) + 2
      /\ d[1] = Mark("propDict", o.id) /\ s = Len(o.props)
      /\ \A i \in 1..s : d[1 + i] = Plain("selector", o.props[i], script[o.props[i]].num)
  BY <1>0, DictionaryIs DEF SelectorsOf
<1>3. /\ b \in Nat /\ 1 \in 1..Len(d) /\ dict = StartAt(Hunk, 3 + b + 1) /\ dict \in Nat
  <2>1. IsEntry(o, "propDict", 1)
    BY DEF IsEntry
  <2>2. StandsIn(begin, j, o, "propDict", 1)
    BY <1>1, <2>1, DictionaryPlaces
  <2>. QED
    BY <2>2 DEF StandsIn
<1>4. \A i \in 1..s :
        /\ 3 + b + (1 + i) \in 1..Len(body) /\ body[3 + b + (1 + i)] = d[1 + i]
        /\ StartAt(Hunk, 3 + b + (1 + i)) = dict + 0 + 2 * (i - 1)
  <2>1. d[1].size = 0 /\ d[1].node[1] # "padding"
    BY <1>2, LeafParts
  <2>2. 1 + s <= Len(d)
    <3>1. PICK l \in Nat : l = Len(o.methods)
      BY <1>2
    <3>2. Len(d) = s + 2 * l + 2 /\ s \in Nat
      BY <1>2, <3>1
    <3> HIDE DEF s, d
    <3>. QED
      BY <3>2
  <2> HIDE DEF s
  <2>3. IsRow(3 + b, d, 1, s)
    BY <1>1, <1>2, <1>3, <2>1, <2>2, DictionaryRow
  <2> HIDE DEF d, b
  <2>. QED
    BY <1>3, <2>1, <2>3 DEF IsRow
<1> HIDE DEF body, b, s, d
<1>5. ASSUME NEW i \in 1..s PROVE WordAt(Hunk, dict + 2 * i - 2) = script[o.props[i]].num
  <2> DEFINE x == 3 + b + (1 + i)
  <2>1. /\ x \in 1..Len(body) /\ body[x] = Plain("selector", o.props[i], script[o.props[i]].num)
        /\ StartAt(Hunk, x) = dict + 0 + 2 * (i - 1)
    BY <1>2, <1>4
  <2>2. dict + 0 + 2 * (i - 1) = dict + 2 * i - 2
    <3>1. i \in Nat
      BY <1>2
    <3>. QED
      BY <1>3, <3>1
  <2>3. script[o.props[i]].num \in Int
    <3>1. o.props[i] \in 1..Len(script)
      BY <1>0, <1>2, PropsIs
    <3>. QED
      BY <1>0, <3>1 DEF IsScript
  <2> HIDE DEF x
  <2>4. WordAt(Hunk, StartAt(Hunk, x)) = script[o.props[i]].num
    BY <2>1, <2>3, PlainWord DEF body
  <2>. QED
    BY <2>1, <2>2, <2>4
<1>. QED
  BY <1>2, <1>5

LEMMA MessagesFound ==
  ASSUME Done
  PROVE  MessagesAreFound
<1>0. Ready /\ next - 1 = Len(script)
  BY ReadyFacts DEF Done
<1> SUFFICES ASSUME NEW id \in {i \in 1..Len(script) : script[i].op \in ObjectKinds}
             PROVE  LET methods == MethodCallsOf(id)
                        props == PropCallsOf(id)
                        dict == ValueOfProp(id, "AppendMethodTableProperty")
                        selectors == ValueOfProp(id, "AppendPropTableProperty")
                    IN  /\ WordAt(Hunk, dict) = Len(methods)
                        /\ \A i \in 1..Len(methods) :
                             /\ WordAt(Hunk, dict + 4 * i - 2) = script[methods[i]].num
                             /\ WordAt(Hunk, dict + 4 * i) = Place(Node("code", Meant[methods[i]]))
                        /\ script[id].op = "CreateClass" =>
                             \A i \in 1..Len(props) :
                               WordAt(Hunk, selectors + 2 * i - 2) = script[props[i]].num
  BY DEF MessagesAreFound
<1>1. PICK j \in 1..Len(objects) : objects[j].id = id
  BY <1>0 DEF Ready, ContentsInv, ObjectsOf
<1>2. PICK o : o = objects[j]
  OBVIOUS
<1>3. o.props = PropCallsOf(id) /\ o.methods = MethodCallsOf(id) /\ o.id = id
  BY <1>0, <1>1, <1>2, ObjectIs
<1> DEFINE dict == ValueOfProp(id, "AppendMethodTableProperty")
           selectors == ValueOfProp(id, "AppendPropTableProperty")
<1>4. dict = Place(Node("methDict", o.id)) /\ selectors = Place(Node("propDict", o.id))
  <2>1. \A kind \in {"AppendPropTableProperty", "AppendMethodTableProperty"} :
          ValueOfProp(o.id, kind) =
            Place(Node(IF kind = "AppendPropTableProperty" THEN "propDict" ELSE "methDict", o.id))
    BY <1>2, PropertyFound
  <2>. QED
    BY <1>3, <2>1
<1> HIDE DEF dict, selectors
<1>5. /\ WordAt(Hunk, dict) = Len(o.methods)
      /\ \A i \in 1..Len(o.methods) :
           /\ WordAt(Hunk, dict + 4 * i - 2) = script[o.methods[i]].num
           /\ WordAt(Hunk, dict + 4 * i) = Place(Node("code", Meant[o.methods[i]]))
  BY <1>2, <1>4, MethodsFound
<1>6. script[id].op = "CreateClass" =>
        \A i \in 1..Len(o.props) : WordAt(Hunk, selectors + 2 * i - 2) = script[o.props[i]].num
  BY <1>2, <1>3, <1>4, SelectorsFound
<1>. QED
  BY <1>3, <1>5, <1>6 DEF dict, selectors

-----------------------------------------------------------------------------
(* What the script says, the lists of the code generator hold, and what    *)
(* these hold, the files do.                                               *)
LEMMA FilesInvariance == Spec => [](IInv /\ ContentsInv /\ FilesInv)
<1>1. Init => IInv /\ ContentsInv /\ FilesInv
  BY InitInv, InitContents, InitFiles
<1>2. IInv /\ ContentsInv /\ FilesInv /\ [Next]_vars => (IInv /\ ContentsInv /\ FilesInv)'
  BY NextInv, NextContents, NextFiles
<1>. QED
  BY <1>1, <1>2, PTL DEF Spec

LEMMA AtTheEnd ==
  ASSUME IInv, ContentsInv, FilesInv, phase = "done"
  PROVE  Done
BY DEF Done, Ready

(* A local variable starts with the value of the first definition that     *)
(* covers it, or with 0, whatever the order and overlap of definitions     *)
(* (SetVar and the variables in Assemble), for every set of scripts.       *)
THEOREM VariablesInitialized == Spec => []VariablesStartAsDeclared
<1>1. IInv /\ ContentsInv /\ FilesInv => VariablesStartAsDeclared
  <2>1. CASE phase = "done"
    BY <2>1, AtTheEnd, VariablesDeclared
  <2>2. CASE phase # "done"
    BY <2>2 DEF VariablesStartAsDeclared
  <2>. QED
    BY <2>1, <2>2
<1>. QED
  BY <1>1, FilesInvariance, PTL

(* What an interpreter looks up in the files, by number or by selector, is *)
(* where it looks for it: methods and properties from the object they are  *)
(* of (ObjectCodegen, Emit), procedures from the dispatch table.           *)
THEOREM LookupsLeadThere == Spec => []LookupsSucceed
<1>1. IInv /\ ContentsInv /\ FilesInv => LookupsSucceed
  <2>1. CASE phase = "done"
    BY <2>1, AtTheEnd, MessagesFound, PublicsFound DEF LookupsSucceed
  <2>2. CASE phase # "done"
    BY <2>2 DEF LookupsSucceed, MessagesAreFound, PublicsAreFound
  <2>. QED
    BY <2>1, <2>2
<1>. QED
  BY <1>1, FilesInvariance, PTL

-----------------------------------------------------------------------------
(* A file as it is written: its leaves, where each begins, and its words.  *)
File(f) == Leaves(f, fixups[f])
At(f, i) == Starts(File(f))[i]

LEMMA FileLeaves ==
  ASSUME Done, NEW f \in {Heap, Hunk}
  PROVE  /\ File(f) \in Seq(LeafType) /\ \A i \in 1..Len(File(f)) : IsLeaf(File(f)[i])
         /\ Len(Body(f)) \in Nat /\ Len(fixups[f]) \in Nat
         /\ Len(File(f)) = Len(Body(f)) + 3 + Len(fixups[f])
         /\ FileHolds(File(f), f, fixups[f])
         /\ \A i \in 1..Len(File(f)) : At(f, i) \in Nat
         /\ At(f, 1) = 0
         /\ \A i \in 1..(Len(File(f)) - 1) : At(f, i + 1) = EndOf(File(f)[i], At(f, i))
<1>1. Ready /\ fixups[f] \in Seq(FixupType)
  BY Tables DEF Done
<1>2. /\ File(f) \in Seq(LeafSet) /\ FileHolds(File(f), f, fixups[f])
      /\ Len(Body(f)) \in Nat /\ Len(fixups[f]) \in Nat
  BY <1>1, LeavesAre DEF File
<1>3. File(f) \in Seq(LeafType) /\ \A i \in 1..Len(File(f)) : IsLeaf(File(f)[i])
  BY <1>2, LeafSeqs
<1>4. Len(File(f)) = Len(Body(f)) + 3 + Len(fixups[f])
  BY <1>2 DEF FileHolds
<1>5. Len(File(f)) > 0
  <2>1. PICK n \in Nat, m \in Nat : Len(File(f)) = n + 3 + m
    BY <1>2, <1>4
  <2>. QED
    BY <2>1
<1>6. /\ Starts(File(f)) \in [1..Len(File(f)) -> Nat] /\ Starts(File(f))[1] = 0
      /\ \A i \in 1..(Len(File(f)) - 1) :
           Starts(File(f))[i + 1] = EndOf(File(f)[i], Starts(File(f))[i])
  BY <1>3, <1>5, StartsFollow
<1>7. \A i \in 1..Len(File(f)) : Starts(File(f))[i] \in Nat
  BY <1>6
<1>. QED
  BY <1>2, <1>3, <1>4, <1>6, <1>7 DEF At

LEMMA FileWords ==
  ASSUME Done, NEW f \in {Heap, Hunk}
  PROVE  \E unset : /\ out[f] = Written(f, fixups[f], OffsetsOf(f), unset)
                    /\ HasWords(out[f].words, File(f), Starts(File(f)), OffsetsOf(f), unset)
<1>1. PICK unset : out[f] = Written(f, fixups[f], OffsetsOf(f), unset)
  <2>1. CASE f = Heap
    BY <2>1 DEF Done, FilesInv, OffsetsOf
  <2>2. CASE f = Hunk
    <3>1. Heap # Hunk
      BY DEF Heap, Hunk
    <3>. QED
      BY <2>2, <3>1 DEF Done, FilesInv, OffsetsOf
  <2>. QED
    BY <2>1, <2>2
<1>2. /\ File(f) \in Seq(LeafType) /\ \A i \in 1..Len(File(f)) : IsLeaf(File(f)[i])
      /\ Len(File(f)) > 0
  <2>1. /\ File(f) \in Seq(LeafType) /\ \A i \in 1..Len(File(f)) : IsLeaf(File(f)[i])
        /\ Len(Body(f)) \in Nat /\ Len(fixups[f]) \in Nat
        /\ Len(File(f)) = Len(Body(f)) + 3 + Len(fixups[f])
    BY FileLeaves
  <2>2. PICK n \in Nat, m \in Nat : Len(File(f)) = n + 3 + m
    BY <2>1
  <2>3. Len(File(f)) > 0
    BY <2>2
  <2>. QED
    BY <2>1, <2>3
<1> DEFINE words == out[f].words
           leaves == File(f)
           offsets == OffsetsOf(f)
           table == fixups[f]
<1>3. leaves = Leaves(f, table) /\ words = Written(f, table, offsets, unset).words
  BY <1>1 DEF File
<1>4. leaves \in Seq(LeafType) /\ Len(leaves) > 0 /\ \A i \in 1..Len(leaves) : IsLeaf(leaves[i])
  BY <1>2
<1> HIDE DEF words, leaves, offsets, table
<1>5. HasWords(words, leaves, Starts(leaves), offsets, unset)
  BY <1>3, <1>4, WordsWritten
<1>. QED
  BY <1>1, <1>5 DEF words, leaves, offsets

(* What is at a word of a leaf.                                            *)
LEMMA FileWord ==
  ASSUME Done, NEW f \in {Heap, Hunk}, NEW i \in 1..Len(File(f)),
         NEW k \in 1..Len(File(f)[i].words), NEW w, w = File(f)[i].words[k]
  PROVE  /\ w.to = NoNode => WordAt(f, At(f, i) + w.rel) = w.add + 0
         /\ w.to # NoNode /\ w.to \in DOMAIN OffsetsOf(f) =>
              WordAt(f, At(f, i) + w.rel) = w.add + OffsetsOf(f)[w.to]
<1> DEFINE leaves == File(f)
           start == Starts(leaves)
           words == out[f].words
           offsets == OffsetsOf(f)
           at == At(f, i) + w.rel
<1>1. PICK unset : HasWords(words, leaves, start, offsets, unset)
  BY FileWords
<1> DEFINE W(m, l) == Wrote(leaves[m], start[m], leaves[m].words[l], offsets, unset)
<1>2. \A m, l : W(m, l).at = start[m] + leaves[m].words[l].rel
  BY DEF Wrote
<1>3. i \in 1..Len(leaves) /\ k \in 1..Len(leaves[i].words) /\ w = leaves[i].words[k]
  OBVIOUS
<1>4. at = start[i] + leaves[i].words[k].rel
  BY DEF At
<1>5. W(i, k).value = w.add + (IF w.to = NoNode THEN 0
                               ELSE IF w.to \in DOMAIN offsets THEN offsets[w.to]
                               ELSE unset)
  BY <1>3 DEF Wrote
<1>6. WordAt(f, at) = words[CHOOSE y \in 1..Len(words) : words[y].at = at].value
  BY DEF WordAt
<1> HIDE DEF words, leaves, offsets, start, at
<1>7. \E y \in 1..Len(words) : words[y].at = at
  <2>1. PICK y \in 1..Len(words) : words[y] = W(i, k)
    BY <1>1, <1>3 DEF HasWords
  <2>. QED
    BY <1>2, <1>4, <2>1
<1>8. ASSUME NEW y \in 1..Len(words), words[y].at = at PROVE words[y] = W(i, k)
  <2>1. PICK m \in 1..Len(leaves) : \E l \in 1..Len(leaves[m].words) : words[y] = W(m, l)
    BY <1>1 DEF HasWords
  <2>2. PICK l \in 1..Len(leaves[m].words) : words[y] = W(m, l)
    BY <2>1
  <2>3. start[m] + leaves[m].words[l].rel = start[i] + leaves[i].words[k].rel
    <3> HIDE DEF W
    <3>. QED
      BY <1>2, <1>4, <1>8, <2>2
  <2>4. m = i /\ l = k
    BY <1>1, <1>3, <2>3 DEF HasWords
  <2>. QED
    BY <2>2, <2>4
<1>9. WordAt(f, at) = W(i, k).value
  <2> HIDE DEF W
  <2>. QED
    BY <1>6, <1>7, <1>8
<1> HIDE DEF W
<1>. QED
  BY <1>5, <1>9 DEF at, offsets

-----------------------------------------------------------------------------
(* The fixup table, and how it is found.                                   *)
TableLeafAt(f) == Len(Body(f)) + 3

(* Every leaf is the first, of the body, the padding, or of the table.     *)
LEMMA FrameLeaves ==
  ASSUME Done, NEW f \in {Heap, Hunk}, NEW i \in 1..Len(File(f))
  PROVE  \/ i = 1 /\ File(f)[i].node = Node("fixupOffset", f)
         \/ /\ i - 1 \in 1..Len(Body(f)) /\ File(f)[i] = Body(f)[i - 1]
            /\ File(f)[i].node[1] \in KindsOf(f)
         \/ i = TableLeafAt(f) - 1 /\ File(f)[i] = Mark("padding", f)
         \/ i = TableLeafAt(f) /\ File(f)[i].node = Node("fixupTable", f)
         \/ \E e \in 1..Len(fixups[f]) :
              i = TableLeafAt(f) + e /\ File(f)[i] = FixupLeaf(f, fixups[f][e])
<1>1. /\ Len(Body(f)) \in Nat /\ Len(fixups[f]) \in Nat
      /\ Len(File(f)) = Len(Body(f)) + 3 + Len(fixups[f])
      /\ FileHolds(File(f), f, fixups[f])
  BY FileLeaves
<1>2. PICK n, m : n = Len(Body(f)) /\ m = Len(fixups[f])
  OBVIOUS
<1>3. n \in Nat /\ m \in Nat /\ i \in 1..(n + 3 + m) /\ TableLeafAt(f) = n + 3
  BY <1>1, <1>2 DEF TableLeafAt
<1>4. \/ i = 1
      \/ i - 1 \in 1..n
      \/ i = n + 2
      \/ i = n + 3
      \/ i - (n + 3) \in 1..m /\ i = (n + 3) + (i - (n + 3))
  BY <1>3
<1>5. CASE i = 1
  BY <1>1, <1>5, LeafParts DEF FileHolds
<1>6. CASE i - 1 \in 1..n
  <2>1. PICK x : x = i - 1
    OBVIOUS
  <2>2. x \in 1..Len(Body(f)) /\ x + 1 = i
    BY <1>2, <1>3, <1>6, <2>1
  <2>3. File(f)[x + 1] = Body(f)[x]
    BY <1>1, <2>2 DEF FileHolds
  <2>4. Body(f)[x].node[1] \in KindsOf(f)
    BY <2>2, BodyKinds DEF Done
  <2>. QED
    BY <2>1, <2>2, <2>3, <2>4
<1>7. CASE i = n + 2
  <2>1. File(f)[n + 2] = Mark("padding", f)
    BY <1>1, <1>2 DEF FileHolds
  <2>2. n + 2 = TableLeafAt(f) - 1
    BY <1>3
  <2>. QED
    BY <1>7, <2>1, <2>2
<1>8. CASE i = n + 3
  <2>1. File(f)[n + 3] = Plain("fixupTable", f, m)
    BY <1>1, <1>2 DEF FileHolds
  <2>. QED
    BY <1>3, <1>8, <2>1, LeafParts
<1>9. CASE i - (n + 3) \in 1..m /\ i = (n + 3) + (i - (n + 3))
  <2>1. PICK e \in 1..m : i = (n + 3) + e
    BY <1>9
  <2>2. e \in 1..Len(fixups[f]) /\ File(f)[(n + 3) + e] = FixupLeaf(f, fixups[f][e])
    BY <1>1, <1>2, <2>1 DEF FileHolds
  <2>. QED
    BY <1>3, <2>1, <2>2
<1>. QED
  BY <1>4, <1>5, <1>6, <1>7, <1>8, <1>9

(* The offset of the table is that of the only leaf with its node.         *)
LEMMA TableOffset ==
  ASSUME Done, NEW f \in {Heap, Hunk}, NEW node, node = Node("fixupTable", f)
  PROVE  node \in DOMAIN OffsetsOf(f) /\ OffsetsOf(f)[node] = At(f, TableLeafAt(f))
<1> DEFINE leaves == File(f)
           t == TableLeafAt(f)
<1>1. /\ Len(Body(f)) \in Nat /\ Len(fixups[f]) \in Nat
      /\ Len(leaves) = Len(Body(f)) + 3 + Len(fixups[f])
      /\ FileHolds(leaves, f, fixups[f])
  BY FileLeaves
<1>2. t \in 1..Len(leaves) /\ leaves[t].node = node
  <2>1. PICK n, m : n = Len(Body(f)) /\ m = Len(fixups[f])
    OBVIOUS
  <2>2. n \in Nat /\ m \in Nat /\ Len(leaves) = n + 3 + m /\ t = n + 3
    BY <1>1, <2>1 DEF TableLeafAt
  <2>3. leaves[n + 3] = Plain("fixupTable", f, m)
    BY <1>1, <2>1 DEF FileHolds
  <2> HIDE DEF leaves, t
  <2>4. t \in 1..Len(leaves)
    BY <2>2
  <2>. QED
    BY <2>2, <2>3, <2>4, LeafParts
<1>3. ASSUME NEW i \in 1..Len(leaves), leaves[i].node = node PROVE i = t
  <2>1. leaves[i].node[1] = "fixupTable"
    BY <1>3, LeafParts
  <2>2. "fixupTable" \notin KindsOf(f)
    BY DEF KindsOf, HeapKinds, HunkKinds
  <2>3. \A e : FixupLeaf(f, fixups[f][e]).node[1] = "fixup"
    BY DEF FixupLeaf, Leaf, Node
  <2>4. Mark("padding", f).node[1] = "padding" /\ Node("fixupOffset", f)[1] = "fixupOffset"
    BY LeafParts
  <2>. QED
    BY <2>1, <2>2, <2>3, <2>4, FrameLeaves
<1>4. (CHOOSE i \in 1..Len(leaves) : leaves[i].node = node) = t
  <2> HIDE DEF leaves, t
  <2>. QED
    BY <1>2, <1>3
<1>5. /\ node \in DOMAIN SetOffset(f, fixups[f])
      /\ SetOffset(f, fixups[f])[node] =
           Starts(leaves)[CHOOSE i \in 1..Len(leaves) : leaves[i].node = node]
  <2>1. node \in {leaves[i].node : i \in 1..Len(leaves)}
    <3> HIDE DEF leaves, t
    <3>. QED
      BY <1>2
  <2>. QED
    BY <2>1 DEF SetOffset, File
<1>6. \E more : OffsetsOf(f) = Over(SetOffset(f, fixups[f]), more)
  <2>1. CASE f = Heap
    BY <2>1 DEF OffsetsOf, HeapOffsets
  <2>2. CASE f = Hunk
    <3>1. Heap # Hunk
      BY DEF Heap, Hunk
    <3>. QED
      BY <2>2, <3>1 DEF OffsetsOf, HunkOffsets
  <2>. QED
    BY <2>1, <2>2
<1>7. PICK more : OffsetsOf(f) = Over(SetOffset(f, fixups[f]), more)
  BY <1>6
<1>8. node \in DOMAIN OffsetsOf(f) /\ OffsetsOf(f)[node] = SetOffset(f, fixups[f])[node]
  BY <1>5, <1>7, MergeIs
<1>9. At(f, t) = Starts(leaves)[t]
  BY DEF At
<1> HIDE DEF leaves, t
<1>10. OffsetsOf(f)[node] = At(f, t)
  BY <1>4, <1>5, <1>8, <1>9
<1>. QED
  BY <1>8, <1>10 DEF t

(* The padding leaves the table at an even byte.                           *)
LEMMA Padded ==
  ASSUME NEW o \in Nat
  PROVE  (o + (o % 2)) % 2 = 0
<1>1. o % 2 \in {0, 1} /\ o = 2 * (o \div 2) + (o % 2) /\ o \div 2 \in Int
  OBVIOUS
<1>2. CASE o % 2 = 0
  BY <1>2
<1>3. CASE o % 2 = 1
  BY <1>1, <1>3
<1>. QED
  BY <1>1, <1>2, <1>3

(* Where the table is among the leaves.                                    *)
LEMMA TableNumbers ==
  ASSUME NEW n \in Nat, NEW m \in Nat, NEW l, NEW p, l = n + 3 + m, p = n + 3
  PROVE  /\ 1 \in 1..l /\ p \in 1..l /\ n + 2 \in 1..(l - 1) /\ (n + 2) + 1 = p /\ n + 2 \in 1..l
         /\ \A e \in 0..m : e < m =>
              p + e \in 1..(l - 1) /\ (p + e) + 1 = p + (e + 1) /\ e + 1 \in 0..m
OBVIOUS

(* The table follows the body, word after word, to the end of the file.    *)
LEMMA TableIs ==
  ASSUME Done, NEW f \in {Heap, Hunk}, NEW m, m = Len(fixups[f]), NEW t, t = Table(f)
  PROVE  /\ t = At(f, TableLeafAt(f)) /\ t \in Nat /\ t % 2 = 0 /\ m \in Nat
         /\ WordAt(f, t) = m
         /\ \A e \in 1..m : TableLeafAt(f) + e \in 1..Len(File(f)) /\ At(f, TableLeafAt(f) + e) = t + 2 * e
         /\ out[f].length = t + 2 * (m + 1)
<1> DEFINE leaves == File(f)
           n == Len(Body(f))
           p == TableLeafAt(f)
           l == Len(leaves)
<1>a. PICK k : k = Len(fixups[f])
  OBVIOUS
<1>1. /\ n \in Nat /\ k \in Nat /\ l = n + 3 + k /\ p = n + 3
      /\ FileHolds(leaves, f, fixups[f])
      /\ \A i \in 1..l : At(f, i) \in Nat
      /\ At(f, 1) = 0
      /\ \A i \in 1..(l - 1) : At(f, i + 1) = EndOf(leaves[i], At(f, i))
  BY <1>a, FileLeaves DEF TableLeafAt
<1>0. n \in Nat /\ k \in Nat /\ l = n + 3 + k /\ p = n + 3
  BY <1>1
<1>2. /\ leaves[1] = Pointer("fixupOffset", f, Node("fixupTable", f))
      /\ leaves[n + 2] = Mark("padding", f)
      /\ leaves[n + 3] = Plain("fixupTable", f, k)
      /\ \A e \in 1..k : leaves[(n + 3) + e] = FixupLeaf(f, fixups[f][e])
  BY <1>a, <1>1 DEF FileHolds
<1>3. t = At(f, p)
  <2> DEFINE w == Word(0, Node("fixupTable", f), 0)
  <2>1. w.rel = 0 /\ w.to = Node("fixupTable", f) /\ w.add = 0
    BY WordParts
  <2>2. leaves[1].words = <<w>>
    BY <1>2, LeafParts
  <2>3. Node("fixupTable", f) # NoNode
    BY NodeParts DEF NoNode
  <2>4. 1 \in 1..l
    <3> HIDE DEF l, n, p
    <3>. QED
      BY <1>0, TableNumbers
  <2> HIDE DEF w
  <2>5. w = leaves[1].words[1] /\ 1 \in 1..Len(leaves[1].words)
    BY <2>2
  <2>6. WordAt(f, At(f, 1) + w.rel) = w.add + OffsetsOf(f)[w.to]
    <3>1. w.to \in DOMAIN OffsetsOf(f) /\ w.to # NoNode
      BY <2>1, <2>3, TableOffset
    <3>. QED
      BY <2>4, <2>5, <3>1, FileWord
  <2>7. OffsetsOf(f)[w.to] = At(f, p)
    BY <2>1, TableOffset
  <2>8. p \in 1..l
    <3> HIDE DEF l, n, p
    <3>. QED
      BY <1>0, TableNumbers
  <2>9. At(f, p) \in Nat
    BY <1>1, <2>8
  <2>. QED
    BY <1>1, <2>1, <2>6, <2>7, <2>9 DEF Table
<1> HIDE DEF leaves, n, p, l
<1>4. p \in 1..l /\ n + 2 \in 1..(l - 1) /\ (n + 2) + 1 = p /\ n + 2 \in 1..l
  BY <1>0, TableNumbers
<1>5. t \in Nat /\ t % 2 = 0
  <2>1. PICK o \in Nat : o = At(f, n + 2)
    BY <1>1, <1>4
  <2>2. t = EndOf(leaves[n + 2], o)
    BY <1>1, <1>3, <1>4, <2>1
  <2>3. t = o + (o % 2)
    BY <1>2, <2>2, LeafParts DEF EndOf
  <2>4. o % 2 \in Nat
    BY <2>1
  <2>. QED
    BY <2>3, <2>4, Padded
<1>6. WordAt(f, t) = k
  <2> DEFINE w == Word(0, NoNode, k)
  <2>1. w.rel = 0 /\ w.to = NoNode /\ w.add = k
    BY WordParts
  <2>2. leaves[p].words = <<w>>
    BY <1>1, <1>2, LeafParts
  <2> HIDE DEF w
  <2>3. w = leaves[p].words[1] /\ 1 \in 1..Len(leaves[p].words)
    BY <2>2
  <2>4. WordAt(f, At(f, p) + w.rel) = w.add + 0
    <3>1. p \in 1..Len(File(f)) /\ 1 \in 1..Len(File(f)[p].words) /\ w = File(f)[p].words[1]
      BY <1>4, <2>3 DEF l, leaves
    <3>. QED
      BY <2>1, <3>1, FileWord
  <2>. QED
    BY <1>1, <1>3, <1>5, <2>1, <2>4
<1>7. \A e \in 0..k : At(f, p + e) = t + 2 * e
  <2> DEFINE good == {e \in 0..k : At(f, p + e) = t + 2 * e}
  <2>1. 0 \in good
    <3>1. p + 0 = p /\ t + 2 * 0 = t
      BY <1>4, <1>5
    <3>. QED
      BY <1>1, <1>3, <3>1
  <2>2. ASSUME NEW e \in 0..k, e < k, e \in good PROVE e + 1 \in good
    <3>1. p + e \in 1..(l - 1) /\ (p + e) + 1 = p + (e + 1) /\ e + 1 \in 0..k
      <4>1. e \in 0..k /\ e < k
        BY <2>2
      <4>. QED
        BY <1>0, <4>1, TableNumbers
    <3>2. At(f, p + (e + 1)) = EndOf(leaves[p + e], At(f, p + e))
      BY <1>1, <3>1
    <3>3. leaves[p + e].size = 2 /\ leaves[p + e].node[1] # "padding"
      <4>1. CASE e = 0
        <5>1. p + e = n + 3
          BY <1>0, <4>1
        <5>. QED
          BY <1>2, <5>1, LeafParts
      <4>2. CASE e # 0
        <5>1. p + e = (n + 3) + e /\ e \in 1..k
          BY <1>0, <4>2
        <5>2. leaves[p + e] = FixupLeaf(f, fixups[f][e])
          BY <1>2, <5>1
        <5>. QED
          BY <5>2 DEF FixupLeaf, Leaf, Node
      <4>. QED
        BY <4>1, <4>2
    <3>4. At(f, p + (e + 1)) = (t + 2 * e) + 2
      BY <2>2, <3>2, <3>3 DEF EndOf
    <3>5. (t + 2 * e) + 2 = t + 2 * (e + 1)
      BY <1>5
    <3>. QED
      BY <3>1, <3>4, <3>5
  <2>3. 0..k \subseteq good
    <3> HIDE DEF good
    <3>1. \A e \in 0..k : e < k /\ e \in good => e + 1 \in good
      BY <2>2
    <3>2. k \in Int /\ 0 \in Int
      BY <1>1
    <3>. QED
      BY <2>1, <3>1, <3>2, IntervalInduction
  <2>. QED
    BY <2>3
<1>8. \A e \in 1..k : p + e \in 1..l /\ At(f, p + e) = t + 2 * e
  BY <1>1, <1>7
<1>9. out[f].length = t + 2 * (k + 1)
  <2>1. PICK unset : out[f] = Written(f, fixups[f], OffsetsOf(f), unset)
    BY FileWords
  <2>2. out[f].length = EndOf(leaves[l], At(f, l))
    BY <2>1 DEF Written, At, File, leaves, l
  <2>3. l = p + k /\ k \in 0..k
    BY <1>0
  <2>4. At(f, l) = t + 2 * k
    BY <1>7, <2>3
  <2>5. leaves[l].size = 2 /\ leaves[l].node[1] # "padding"
    <3>1. CASE k = 0
      <4>1. l = n + 3
        BY <1>0, <3>1
      <4>. QED
        BY <1>2, <4>1, LeafParts
    <3>2. CASE k # 0
      <4>1. l = (n + 3) + k /\ k \in 1..k
        BY <1>0, <3>2
      <4>2. leaves[l] = FixupLeaf(f, fixups[f][k])
        BY <1>2, <4>1
      <4>. QED
        BY <4>2 DEF FixupLeaf, Leaf, Node
    <3>. QED
      BY <3>1, <3>2
  <2>6. out[f].length = (t + 2 * k) + 2
    BY <2>2, <2>4, <2>5 DEF EndOf
  <2>7. (t + 2 * k) + 2 = t + 2 * (k + 1)
    BY <1>1, <1>5
  <2>. QED
    BY <2>6, <2>7
<1>. QED
  BY <1>a, <1>1, <1>3, <1>5, <1>6, <1>8, <1>9 DEF p, l, leaves

-----------------------------------------------------------------------------
(* What the words of the bodies point to.                                  *)
IsAThing(node) == InBody(Heap, node) \/ InBody(Hunk, node)

(* A word holds a place or a number, and has to be fixed up exactly if it  *)
(* holds a place in the heap.                                              *)
IsMarked(leaf, w) ==
  /\ w.to # NoNode => w.add = 0 /\ IsAThing(w.to)
  /\ NeedsFixup(leaf, w) <=> w.to # NoNode /\ IsInHeap(w.to)
AreMarked(leaf) == \A k \in 1..Len(leaf.words) : IsMarked(leaf, leaf.words[k])

LEMMA InOneFile ==
  ASSUME Ready
  PROVE  /\ \A node : InBody(Heap, node) => IsInHeap(node) /\ node # NoNode
         /\ \A node : InBody(Hunk, node) => ~IsInHeap(node) /\ node # NoNode
         /\ ~IsInHeap(NoNode)
<1>1. Heap # Hunk /\ Heap \in {Heap, Hunk} /\ Hunk \in {Heap, Hunk}
  BY DEF Heap, Hunk
<1>2. \A node : InBody(Heap, node) => IsInHeap(node) /\ node # NoNode
  BY <1>1, BodyNodes
<1>3. \A node : InBody(Hunk, node) => ~IsInHeap(node) /\ node # NoNode
  BY <1>1, BodyNodes
<1>4. IsInHeap(NoNode) => InBody(Heap, NoNode)
  BY DEF IsInHeap, HeapNodes, InBody
<1>. QED
  BY <1>2, <1>3, <1>4

LEMMA PropsInHeap ==
  ASSUME Ready, NEW id \in 1..Len(script), script[id].op \in ObjectKinds
  PROVE  InBody(Heap, Node("props", id))
<1>1. ObjectsOf(script, Len(script), objects)
  BY ReadyFacts DEF Ready, ContentsInv
<1>2. PICK j \in 1..Len(objects) : objects[j].id = id
  BY <1>1 DEF ObjectsOf
<1>3. PICK begin : HeapHolds(Body(Heap), begin)
  BY HeapBody
<1>4. Props(objects[j])[1] = Mark("props", id) /\ 1 \in 1..Len(Props(objects[j]))
  BY <1>2, PropsIs
<1>5. 1 + begin[j] + 1 \in 1..Len(Body(Heap)) /\ Body(Heap)[1 + begin[j] + 1] = Mark("props", id)
  BY <1>3, <1>4 DEF HeapHolds
<1>. QED
  BY <1>5, LeafParts DEF InBody

LEMMA DictionariesInHunk ==
  ASSUME Ready, NEW j \in 1..Len(objects), NEW o, o = objects[j]
  PROVE  InBody(Hunk, Node("propDict", o.id)) /\ InBody(Hunk, Node("methDict", o.id))
<1>1. PICK begin : HunkHolds(Body(Hunk), begin)
  BY HunkBody
<1>2. /\ SelectorsOf(o) \in Nat /\ Len(o.methods) \in Nat
      /\ Len(Dictionary(o)) = SelectorsOf(o) + 2 * Len(o.methods) + 2
      /\ Dictionary(o)[1] = Mark("propDict", o.id)
      /\ Dictionary(o)[SelectorsOf(o) + 2] = Plain("methDict", o.id, Len(o.methods))
  BY DictionaryIs
<1>3. 1 \in 1..Len(Dictionary(o)) /\ SelectorsOf(o) + 2 \in 1..Len(Dictionary(o))
  <2>1. PICK n \in Nat, m \in Nat : n = SelectorsOf(o) /\ m = Len(o.methods)
    BY <1>2
  <2>2. Len(Dictionary(o)) = n + 2 * m + 2
    BY <1>2, <2>1
  <2>3. 1 \in 1..(n + 2 * m + 2) /\ n + 2 \in 1..(n + 2 * m + 2)
    OBVIOUS
  <2>. QED
    BY <2>1, <2>2, <2>3
<1>4. \A k \in 1..Len(Dictionary(o)) :
        3 + begin[j] + k \in 1..Len(Body(Hunk)) /\ Body(Hunk)[3 + begin[j] + k] = Dictionary(o)[k]
  BY <1>1 DEF HunkHolds
<1>5. \A k \in 1..Len(Dictionary(o)) : InBody(Hunk, Dictionary(o)[k].node)
  BY <1>4 DEF InBody
<1>6. InBody(Hunk, Dictionary(o)[1].node) /\ InBody(Hunk, Dictionary(o)[SelectorsOf(o) + 2].node)
  BY <1>3, <1>5
<1>. QED
  BY <1>2, <1>6, LeafParts

(* A reference points to code in the hunk, or to properties in the heap.   *)
LEMMA TargetIsAThing ==
  ASSUME Ready, NEW s \in 1..Len(script), Refers(script[s])
  PROVE  /\ TargetNode(s) # NoNode /\ IsAThing(TargetNode(s))
         /\ Meant[s] \in 1..Len(script) /\ Creates(script[Meant[s]])
         /\ script[Meant[s]].name = script[s].name
         /\ IsInHeap(TargetNode(s)) <=> script[Meant[s]].op \in ObjectKinds
<1>1. /\ Meant[s] \in 1..Len(script) /\ Creates(script[Meant[s]])
      /\ script[Meant[s]].name = script[s].name
      /\ TargetNode(s) = IF script[Meant[s]].op = "CreateFunction"
                         THEN Node("code", Meant[s]) ELSE Node("props", Meant[s])
  BY TargetNodeIs
<1>2. CASE script[Meant[s]].op = "CreateFunction"
  <2>1. InBody(Hunk, TargetNode(s))
    BY <1>1, <1>2, CodeInHunk DEF CodeKinds
  <2>2. script[Meant[s]].op \notin ObjectKinds
    BY <1>2 DEF ObjectKinds
  <2>. QED
    BY <1>1, <2>1, <2>2, InOneFile DEF IsAThing
<1>3. CASE script[Meant[s]].op # "CreateFunction"
  <2>1. script[Meant[s]].op \in ObjectKinds
    BY <1>1, <1>3 DEF Creates, ObjectKinds
  <2>2. InBody(Heap, TargetNode(s))
    BY <1>1, <1>3, <2>1, PropsInHeap
  <2>. QED
    BY <1>1, <2>1, <2>2, InOneFile DEF IsAThing
<1>. QED
  BY <1>2, <1>3

-----------------------------------------------------------------------------
(* The leaves of the bodies, kind by kind.                                 *)
LEMMA FewWords ==
  ASSUME NEW leaf
  PROVE  /\ leaf.words = <<>> => AreMarked(leaf)
         /\ \A w : leaf.words = <<w>> /\ IsMarked(leaf, w) => AreMarked(leaf)
<1>1. leaf.words = <<>> => AreMarked(leaf)
  BY DEF AreMarked
<1>2. ASSUME NEW w, leaf.words = <<w>>, IsMarked(leaf, w) PROVE AreMarked(leaf)
  <2>1. \A k \in 1..Len(leaf.words) : leaf.words[k] = w
    BY <1>2
  <2>. QED
    BY <1>2, <2>1 DEF AreMarked
<1>. QED
  BY <1>1, <1>2

LEMMA NumberMarked ==
  ASSUME Ready, NEW leaf, leaf.node[1] # "code", NEW w, w.to = NoNode
  PROVE  IsMarked(leaf, w)
BY InOneFile DEF IsMarked, NeedsFixup

LEMMA PlainMarked ==
  ASSUME Ready, NEW kind, kind # "code", NEW id, NEW n
  PROVE  AreMarked(Plain(kind, id, n))
<1>1. /\ Plain(kind, id, n).node[1] # "code"
      /\ Plain(kind, id, n).words = <<Word(0, NoNode, n)>>
  BY LeafParts
<1>2. Word(0, NoNode, n).to = NoNode
  BY WordParts
<1>. QED
  BY <1>1, <1>2, NumberMarked, FewWords

LEMMA LiteralMarked ==
  ASSUME Ready, NEW v, NEW rel, NEW leaf, leaf.node[1] \in {"vars", "prop"},
         IsText(v) => \E i \in 1..Len(script) : script[i].op = "AddTextNode" /\ script[i].val = v
  PROVE  IsMarked(leaf, LiteralWord(rel, v))
<1> DEFINE w == LiteralWord(rel, v)
<1>1. CASE IsText(v)
  <2>1. w.to = TextNode(v) /\ w.add = 0
    BY <1>1, WordParts DEF LiteralWord
  <2>2. InBody(Heap, TextNode(v))
    BY <1>1, TextInHeap
  <2>. QED
    BY <2>1, <2>2, InOneFile DEF IsMarked, NeedsFixup, IsAThing
<1>2. CASE ~IsText(v)
  <2>1. w.to = NoNode
    BY <1>2, WordParts DEF LiteralWord
  <2>2. leaf.node[1] # "code"
    OBVIOUS
  <2>. QED
    BY <2>1, <2>2, NumberMarked
<1>. QED
  BY <1>1, <1>2

LEMMA VarsMarked ==
  ASSUME Ready, Holes = {}
  PROVE  AreMarked(VarsLeaf)
<1>1. /\ VarsLeaf.node = Node("vars", 0) /\ Len(localVars) \in Nat
      /\ Len(VarsLeaf.words) = Len(localVars) + 1
      /\ VarsLeaf.words[1] = Word(0, NoNode, Len(localVars))
      /\ \A v \in 1..Len(localVars) : VarsLeaf.words[v + 1] = LiteralWord(2 * v, localVars[v])
  BY VarsLeafIs
<1>2. VarsLeaf.node[1] = "vars"
  BY <1>1, LeafParts
<1>3. IsScript(script) /\ VarsInv /\ next - 1 = Len(script)
  BY ReadyFacts DEF Ready, ContentsInv
<1>4. IsMarked(VarsLeaf, VarsLeaf.words[1])
  BY <1>1, <1>2, WordParts, NumberMarked
<1>5. ASSUME NEW v \in 1..Len(localVars) PROVE IsMarked(VarsLeaf, VarsLeaf.words[v + 1])
  <2>1. localVars[v] # Hole
    BY DEF Holes
  <2>2. PICK i \in 1..Len(script) : script[i].op = "SetVar" /\ localVars[v] = script[i].val
    BY <1>3, <2>1 DEF VarsInv
  <2>3. IsText(localVars[v]) => NeedsText(script[i])
    BY <2>2 DEF NeedsText
  <2>4. IsText(localVars[v]) =>
          \E k \in 1..Len(script) : script[k].op = "AddTextNode" /\ script[k].val = localVars[v]
    BY <1>3, <2>2, <2>3 DEF IsScript, TextsAreAdded
  <2>. QED
    BY <1>1, <1>2, <2>4, LiteralMarked
<1>6. ASSUME NEW k \in 1..Len(VarsLeaf.words) PROVE IsMarked(VarsLeaf, VarsLeaf.words[k])
  <2>1. k = 1 \/ (k - 1 \in 1..Len(localVars) /\ (k - 1) + 1 = k)
    BY <1>1
  <2>. QED
    BY <1>4, <1>5, <2>1
<1>. QED
  BY <1>6 DEF AreMarked

LEMMA PropMarked ==
  ASSUME Ready, NEW j \in 1..Len(objects), NEW o, o = objects[j],
         NEW id \in 1..Len(script), script[id].op \in PropKinds
  PROVE  AreMarked(PropLeaf(o, id))
<1> DEFINE leaf == PropLeaf(o, id)
<1>1. o \in ObjectType
  BY ObjectIs
<1>2. /\ leaf.node[1] = "prop"
      /\ script[id].op = "AppendPropTableProperty" =>
           leaf.words = <<Word(0, Node("propDict", o.id), 0)>>
      /\ script[id].op = "AppendMethodTableProperty" =>
           leaf.words = <<Word(0, Node("methDict", o.id), 0)>>
      /\ script[id].op = "AppendProperty" => leaf.words = <<LiteralWord(0, script[id].val)>>
  BY <1>1, PropLeafIs, LeafParts
<1>3. ASSUME NEW node, InBody(Hunk, node) PROVE IsMarked(leaf, Word(0, node, 0))
  <2>1. Word(0, node, 0).to = node /\ Word(0, node, 0).add = 0
    BY WordParts
  <2>. QED
    BY <1>2, <1>3, <2>1, InOneFile DEF IsMarked, NeedsFixup, IsAThing
<1>4. CASE script[id].op = "AppendProperty"
  <2>1. IsText(script[id].val) => NeedsText(script[id])
    BY <1>4 DEF NeedsText
  <2>2. IsText(script[id].val) =>
          \E k \in 1..Len(script) : script[k].op = "AddTextNode" /\ script[k].val = script[id].val
    BY <2>1, ReadyFacts DEF IsScript, TextsAreAdded
  <2>3. IsMarked(leaf, LiteralWord(0, script[id].val))
    BY <1>2, <2>2, LiteralMarked
  <2>. QED
    BY <1>2, <1>4, <2>3, FewWords
<1>5. CASE script[id].op # "AppendProperty"
  BY <1>2, <1>3, <1>5, DictionariesInHunk, FewWords DEF PropKinds
<1>. QED
  BY <1>4, <1>5

LEMMA DispatchTableMarked ==
  ASSUME Ready, ~NamesPublicObject
  PROVE  AreMarked(DispatchTable)
<1>1. /\ DispatchTable.node = Node("dispatchTable", 0)
      /\ Len(dispatches) \in Nat /\ Len(DispatchTable.words) = Len(dispatches) + 1
      /\ DispatchTable.words[1] = Word(0, NoNode, Len(dispatches))
      /\ \A i \in 1..Len(dispatches) :
           DispatchTable.words[i + 1] = Word(2 * i, TargetNode(dispatches[i]), 0)
  BY DispatchTableIs
<1>2. DispatchTable.node[1] = "dispatchTable"
  BY <1>1, LeafParts
<1>3. IsMarked(DispatchTable, DispatchTable.words[1])
  BY <1>1, <1>2, WordParts, NumberMarked
<1>4. ASSUME NEW i \in 1..Len(dispatches)
      PROVE  IsMarked(DispatchTable, DispatchTable.words[i + 1])
  <2> DEFINE w == Word(2 * i, TargetNode(dispatches[i]), 0)
  <2>1. w.to = TargetNode(dispatches[i]) /\ w.add = 0 /\ w = DispatchTable.words[i + 1]
    BY <1>1, WordParts
  <2> HIDE DEF w
  <2>2. PublicsOf(script, Len(script), dispatches) /\ Len(script) \in Nat
    BY ReadyFacts DEF Ready, ContentsInv
  <2>3. CASE dispatches[i] = 0
    <3>1. w.to = NoNode
      BY <2>1, <2>3 DEF TargetNode
    <3>. QED
      BY <1>2, <2>1, <3>1, NumberMarked
  <2>4. CASE dispatches[i] # 0
    <3>1. dispatches[i] \in 0..Len(script)
      BY <2>2, ElementOfSeq DEF PublicsOf
    <3>2. dispatches[i] \in 1..Len(script) /\ script[dispatches[i]].op = "AddPublic"
      BY <2>2, <2>4, <3>1 DEF PublicsOf
    <3>3. IsAThing(TargetNode(dispatches[i]))
      BY <3>2, TargetIsAThing DEF Refers
    <3>4. ~IsInHeap(TargetNode(dispatches[i]))
      BY DEF NamesPublicObject
    <3>5. ~NeedsFixup(DispatchTable, w)
      BY <1>2 DEF NeedsFixup
    <3>6. IsMarked(DispatchTable, w)
      BY <2>1, <3>3, <3>4, <3>5 DEF IsMarked
    <3>. QED
      BY <2>1, <3>6
  <2>. QED
    BY <2>3, <2>4
<1>5. ASSUME NEW k \in 1..Len(DispatchTable.words)
      PROVE  IsMarked(DispatchTable, DispatchTable.words[k])
  <2>1. k = 1 \/ (k - 1 \in 1..Len(dispatches) /\ (k - 1) + 1 = k)
    BY <1>1
  <2>. QED
    BY <1>3, <1>4, <2>1
<1>. QED
  BY <1>5 DEF AreMarked

(* A method is code, and an address that is loaded is that of an object.   *)
LEMMA TargetOfItsKind ==
  ASSUME Ready, NEW s \in 1..Len(script)
  PROVE  /\ script[s].op = "AppendMethod" => ~IsInHeap(TargetNode(s))
         /\ script[s].op = "AddLoadOffsetTo" => IsInHeap(TargetNode(s))
<1>1. NamesAreOfTheirKind(script)
  BY ReadyFacts DEF IsScript
<1>2. ASSUME Refers(script[s])
      PROVE  /\ IsInHeap(TargetNode(s)) <=> script[Meant[s]].op \in ObjectKinds
             /\ script[s].op = "AppendMethod" => script[Meant[s]].op = "CreateFunction"
             /\ script[s].op = "AddLoadOffsetTo" => script[Meant[s]].op \in ObjectKinds
  <2>1. /\ Meant[s] \in 1..Len(script) /\ Creates(script[Meant[s]])
        /\ script[Meant[s]].name = script[s].name
        /\ IsInHeap(TargetNode(s)) <=> script[Meant[s]].op \in ObjectKinds
    BY <1>2, TargetIsAThing
  <2>. QED
    BY <1>1, <1>2, <2>1 DEF NamesAreOfTheirKind
<1>3. script[s].op \in {"AppendMethod", "AddLoadOffsetTo"} => Refers(script[s])
  BY DEF Refers
<1>. QED
  BY <1>2, <1>3 DEF ObjectKinds

LEMMA DictionaryMarked ==
  ASSUME Ready, NEW j \in 1..Len(objects), NEW o, o = objects[j], NEW k \in 1..Len(Dictionary(o))
  PROVE  AreMarked(Dictionary(o)[k])
<1> DEFINE leaf == Dictionary(o)[k]
<1>1. DictionaryLeaf(o, k)
  BY DictionaryCases
<1>2. CASE leaf = Mark("propDict", o.id)
  BY <1>2, FewWords DEF Mark, Leaf
<1>3. CASE \E i : leaf = Plain("selector", o.props[i], script[o.props[i]].num)
  BY <1>3, PlainMarked
<1>4. CASE leaf = Plain("methDict", o.id, Len(o.methods))
  BY <1>4, PlainMarked
<1>5. CASE \E i : leaf = Plain("selector", o.methods[i], script[o.methods[i]].num)
  BY <1>5, PlainMarked
<1>6. CASE \E i \in 1..Len(o.methods) : leaf = Pointer("method", o.methods[i], TargetNode(o.methods[i]))
  <2>1. PICK i \in 1..Len(o.methods) : leaf = Pointer("method", o.methods[i], TargetNode(o.methods[i]))
    BY <1>6
  <2>2. PICK id \in 1..Len(script) : id = o.methods[i] /\ script[id].op = "AppendMethod"
    <3>1. o.methods[i] \in 1..Len(script) /\ script[o.methods[i]].op = "AppendMethod"
      BY DictionaryIs
    <3>. QED
      BY <3>1
  <2>3. leaf.node[1] = "method" /\ leaf.words = <<Word(0, TargetNode(id), 0)>>
    BY <2>1, <2>2, LeafParts
  <2>4. /\ Word(0, TargetNode(id), 0).to = TargetNode(id)
        /\ Word(0, TargetNode(id), 0).add = 0
    BY WordParts
  <2>5. IsAThing(TargetNode(id)) /\ ~IsInHeap(TargetNode(id))
    BY <2>2, TargetIsAThing, TargetOfItsKind DEF Refers
  <2>6. IsMarked(leaf, Word(0, TargetNode(id), 0))
    BY <2>3, <2>4, <2>5 DEF IsMarked, NeedsFixup
  <2>. QED
    BY <2>3, <2>6, FewWords
<1>. QED
  BY <1>1, <1>2, <1>3, <1>4, <1>5, <1>6 DEF DictionaryLeaf

LEMMA CodeMarked ==
  ASSUME Ready, NEW id \in 1..Len(script), script[id].op \in CodeKinds
  PROVE  AreMarked(CodeLeaf(id))
<1> DEFINE leaf == CodeLeaf(id)
<1>1. /\ leaf.node[1] = "code"
      /\ script[id].op = "AddLoadOffsetTo" => leaf.words = <<Word(1, TargetNode(id), 0)>>
      /\ script[id].op = "AddLoadImmediate" => leaf.words = <<Word(1, TextNode(script[id].val), 0)>>
      /\ script[id].op \notin {"AddLoadOffsetTo", "AddLoadImmediate"} => leaf.words = <<>>
  BY CodeLeafIs, LeafParts
<1>2. ASSUME NEW node, IsAThing(node), IsInHeap(node) PROVE IsMarked(leaf, Word(1, node, 0))
  <2>1. Word(1, node, 0).to = node /\ Word(1, node, 0).add = 0
    BY WordParts
  <2>2. node # NoNode
    BY <1>2, InOneFile
  <2>. QED
    BY <1>1, <1>2, <2>1, <2>2 DEF IsMarked, NeedsFixup
<1>3. CASE script[id].op = "AddLoadOffsetTo"
  <2>1. IsAThing(TargetNode(id)) /\ IsInHeap(TargetNode(id))
    BY <1>3, TargetIsAThing, TargetOfItsKind DEF Refers
  <2>. QED
    BY <1>1, <1>2, <1>3, <2>1, FewWords
<1>4. CASE script[id].op = "AddLoadImmediate"
  <2>1. \E k \in 1..Len(script) : script[k].op = "AddTextNode" /\ script[k].val = script[id].val
    BY <1>4, ReadyFacts DEF IsScript, TextsAreAdded, NeedsText
  <2>2. InBody(Heap, TextNode(script[id].val))
    BY <2>1, TextInHeap
  <2>3. IsAThing(TextNode(script[id].val)) /\ IsInHeap(TextNode(script[id].val))
    BY <2>2, InOneFile DEF IsAThing
  <2>. QED
    BY <1>1, <1>2, <1>4, <2>3, FewWords
<1>5. CASE script[id].op \notin {"AddLoadOffsetTo", "AddLoadImmediate"}
  BY <1>1, <1>5, FewWords
<1>. QED
  BY <1>3, <1>4, <1>5

(* The words of a body that hold a place in the heap are those that are    *)
(* fixed up.                                                               *)
LEMMA BodyMarked ==
  ASSUME Ready, ~NamesPublicObject, Holes = {}, NEW f \in {Heap, Hunk}, NEW x \in 1..Len(Body(f))
  PROVE  AreMarked(Body(f)[x])
<1>1. CASE f = Heap
  <2>1. PICK begin : HeapHolds(Body(Heap), begin)
    BY HeapBody
  <2>2. CASE x = 1
    BY <1>1, <2>1, <2>2, VarsMarked DEF HeapHolds
  <2>3. ASSUME NEW j \in 1..Len(objects), NEW k \in 1..Len(Props(objects[j])), x = 1 + begin[j] + k
        PROVE  AreMarked(Body(f)[x])
    <3>1. PICK o : o = objects[j]
      OBVIOUS
    <3>2. Body(f)[x] = Props(o)[k]
      BY <1>1, <2>1, <2>3, <3>1 DEF HeapHolds
    <3>3. /\ Len(o.props) \in Nat /\ Len(Props(o)) = Len(o.props) + 1
          /\ Props(o)[1] = Mark("props", o.id)
          /\ \A i \in 1..Len(o.props) :
               /\ o.props[i] \in 1..Len(script) /\ script[o.props[i]].op \in PropKinds
               /\ Props(o)[i + 1] = PropLeaf(o, o.props[i])
      BY <3>1, PropsIs
    <3>4. k \in 1..(Len(o.props) + 1)
      BY <3>1, <3>3
    <3>5. k = 1 \/ (k - 1 \in 1..Len(o.props) /\ (k - 1) + 1 = k)
      BY <3>3, <3>4
    <3>6. CASE k = 1
      BY <3>2, <3>3, <3>6, FewWords DEF Mark, Leaf
    <3>7. CASE k - 1 \in 1..Len(o.props) /\ (k - 1) + 1 = k
      BY <3>1, <3>2, <3>3, <3>7, PropMarked
    <3>. QED
      BY <3>5, <3>6, <3>7
  <2>4. CASE Body(Heap)[x] = Plain("terminator", Heap, 0)
    BY <1>1, <2>4, PlainMarked
  <2>5. CASE \E t \in 1..Len(texts) : Body(Heap)[x] = TextLeaf(t)
    BY <1>1, <2>5, FewWords DEF TextLeaf, Leaf
  <2>. QED
    BY <1>1, <2>1, <2>2, <2>3, <2>4, <2>5 DEF HeapHolds
<1>2. CASE f = Hunk
  <2>1. PICK begin : HunkHolds(Body(Hunk), begin)
    BY HunkBody
  <2>2. CASE x \in 1..3
    <3>1. \/ Body(f)[x] = Plain("heapAddress", Hunk, 0)
          \/ Body(f)[x] = Plain("farText", Hunk, 0)
          \/ Body(f)[x] = DispatchTable
      BY <1>2, <2>1, <2>2 DEF HunkHolds
    <3>. QED
      BY <3>1, PlainMarked, DispatchTableMarked
  <2>3. ASSUME NEW j \in 1..Len(objects), NEW k \in 1..Len(Dictionary(objects[j])), x = 3 + begin[j] + k
        PROVE  AreMarked(Body(f)[x])
    <3>1. Body(f)[x] = Dictionary(objects[j])[k]
      BY <1>2, <2>1, <2>3 DEF HunkHolds
    <3>. QED
      BY <3>1, DictionaryMarked
  <2>4. ASSUME NEW c \in 1..Len(code), x = 3 + begin[Len(objects) + 1] + c
        PROVE  AreMarked(Body(f)[x])
    <3>1. Body(f)[x] = CodeLeaf(code[c])
      BY <1>2, <2>1, <2>4 DEF HunkHolds
    <3>2. code[c] \in 1..Len(script) /\ script[code[c]].op \in CodeKinds
      BY ListsAre
    <3>. QED
      BY <3>1, <3>2, CodeMarked
  <2>. QED
    BY <1>2, <2>1, <2>2, <2>3, <2>4 DEF HunkHolds
<1>. QED
  BY <1>1, <1>2

-----------------------------------------------------------------------------
(* Two leaves with words to be fixed up have different nodes.              *)
LEMMA BelongsToOne ==
  ASSUME NEW s, NEW a \in Nat, NEW b \in Nat, NEW c \in Nat, Belongs(s, a, c), Belongs(s, b, c)
  PROVE  a = b
<1>1. ASSUME NEW i \in Nat, NEW k \in Nat, Belongs(s, i, c), Belongs(s, k, c) PROVE ~(i < k)
  <2> SUFFICES ASSUME i < k PROVE FALSE
    OBVIOUS
  <2>1. k < c /\ s[k].op \in ObjectKinds
    BY <1>1 DEF Belongs
  <2>2. k \in (i + 1)..c
    BY <2>1
  <2>. QED
    BY <1>1, <2>1, <2>2 DEF Belongs
<1>2. ~(a < b) /\ ~(b < a)
  BY <1>1
<1>. QED
  BY <1>2

(* Leaf x of the heap is property i of object j.                           *)
IsProp(begin, x, j, i) ==
  /\ x = 1 + begin[j] + (i + 1)
  /\ Body(Heap)[x].node = Node("prop", objects[j].props[i])

LEMMA HeapCases ==
  ASSUME Ready, NEW begin, HeapHolds(Body(Heap), begin), NEW x \in 1..Len(Body(Heap))
  PROVE  \/ x = 1
         \/ \E j \in 1..Len(objects) : \E i \in 1..Len(objects[j].props) : IsProp(begin, x, j, i)
         \/ Body(Heap)[x].node[1] \in {"props", "terminator", "text"}
<1>1. ASSUME NEW j \in 1..Len(objects), NEW k \in 1..Len(Props(objects[j])), x = 1 + begin[j] + k
      PROVE  \/ \E i \in 1..Len(objects[j].props) : IsProp(begin, x, j, i)
             \/ Body(Heap)[x].node[1] \in {"props", "terminator", "text"}
  <2>1. PICK o : o = objects[j]
    OBVIOUS
  <2>2. Body(Heap)[x] = Props(o)[k]
    BY <1>1, <2>1 DEF HeapHolds
  <2>3. /\ Len(o.props) \in Nat /\ Len(Props(o)) = Len(o.props) + 1
        /\ Props(o)[1] = Mark("props", o.id)
        /\ \A i \in 1..Len(o.props) :
             /\ o.props[i] \in 1..Len(script) /\ script[o.props[i]].op \in PropKinds
             /\ Props(o)[i + 1] = PropLeaf(o, o.props[i])
    BY <2>1, PropsIs
  <2>4. k \in 1..(Len(o.props) + 1)
    BY <2>1, <2>3
  <2>5. k = 1 \/ \E i \in 1..Len(o.props) : k = i + 1
    <3>1. k = 1 \/ (k - 1 \in 1..Len(o.props) /\ k = (k - 1) + 1)
      BY <2>3, <2>4
    <3>. QED
      BY <3>1
  <2>6. CASE k = 1
    BY <2>2, <2>3, <2>6, LeafParts
  <2>7. CASE \E i \in 1..Len(o.props) : k = i + 1
    <3>1. PICK i \in 1..Len(o.props) : k = i + 1
      BY <2>7
    <3>2. o \in ObjectType
      BY <2>1, ObjectIs
    <3>3. Body(Heap)[x] = PropLeaf(o, o.props[i])
      BY <2>2, <2>3, <3>1
    <3>4. Body(Heap)[x].node = Node("prop", o.props[i])
      <4>1. PICK id : id = o.props[i]
        OBVIOUS
      <4>2. id \in 1..Len(script) /\ script[id].op \in PropKinds
        BY <2>3, <4>1
      <4>3. PropLeaf(o, id).node = Node("prop", id)
        BY <3>2, <4>2, PropLeafIs
      <4>. QED
        BY <3>3, <4>1, <4>3
    <3>. QED
      BY <1>1, <2>1, <3>1, <3>4 DEF IsProp
  <2>. QED
    BY <2>5, <2>6, <2>7
<1>2. CASE Body(Heap)[x] = Plain("terminator", Heap, 0)
  BY <1>2, LeafParts
<1>3. CASE \E t \in 1..Len(texts) : Body(Heap)[x] = TextLeaf(t)
  BY <1>3, LeafParts
<1>. QED
  BY <1>1, <1>2, <1>3 DEF HeapHolds

LEMMA OnePropertyLeaf ==
  ASSUME Ready, NEW begin, NEW x, NEW y,
         NEW j \in 1..Len(objects), NEW i \in 1..Len(objects[j].props), IsProp(begin, x, j, i),
         NEW k \in 1..Len(objects), NEW l \in 1..Len(objects[k].props), IsProp(begin, y, k, l),
         Body(Heap)[x].node = Body(Heap)[y].node
  PROVE  x = y
<1>1. PICK c : c = objects[j].props[i] /\ c = objects[k].props[l]
  BY NodeParts DEF IsProp
<1>2. /\ Belongs(script, objects[j].id, c) /\ Belongs(script, objects[k].id, c)
      /\ c \in 1..Len(script)
  BY <1>1, PropsIs
<1>3. objects[j].id \in 1..Len(script) /\ objects[k].id \in 1..Len(script)
  BY ObjectIs
<1>4. j = k
  BY <1>2, <1>3, BelongsToOne, ObjectsDiffer
<1>5. /\ IsSelection(objects[j].props, Len(script),
           {m \in Nat : Belongs(script, objects[j].id, m) /\ script[m].op \in PropKinds})
      /\ Len(objects[j].props) \in Nat
  BY ObjectIs, PropsIs
<1>6. i = l
  <2>1. i < l => c < c
    <3> SUFFICES ASSUME i < l PROVE c < c
      OBVIOUS
    <3>1. l \in (i + 1)..Len(objects[j].props)
      BY <1>4, <1>5
    <3>. QED
      BY <1>1, <1>4, <1>5, <3>1 DEF IsSelection
  <2>2. l < i => c < c
    <3> SUFFICES ASSUME l < i PROVE c < c
      OBVIOUS
    <3>1. i \in (l + 1)..Len(objects[j].props) /\ l \in 1..Len(objects[j].props)
      BY <1>4, <1>5
    <3>. QED
      BY <1>1, <1>4, <1>5, <3>1 DEF IsSelection
  <2>3. ~(c < c)
    BY <1>2
  <2>. QED
    BY <1>4, <1>5, <2>1, <2>2, <2>3
<1>. QED
  BY <1>4, <1>6 DEF IsProp

LEMMA OneMarkedLeaf ==
  ASSUME Ready, NEW f \in {Heap, Hunk}, NEW x \in 1..Len(Body(f)), NEW y \in 1..Len(Body(f)),
         Body(f)[x].node = Body(f)[y].node, Body(f)[x].node[1] \in {"vars", "prop", "code"}
  PROVE  x = y
<1>1. CASE f = Heap
  <2>1. PICK begin : HeapHolds(Body(Heap), begin)
    BY HeapBody
  <2>2. Body(Heap)[1].node[1] = "vars"
    BY <2>1, VarsLeafIs, LeafParts DEF HeapHolds
  <2>3. ASSUME NEW z \in {x, y}
        PROVE  \/ z = 1
               \/ \E j \in 1..Len(objects) : \E i \in 1..Len(objects[j].props) : IsProp(begin, z, j, i)
    <3>1. z \in 1..Len(Body(Heap)) /\ Body(Heap)[z].node[1] \in {"vars", "prop", "code"}
      BY <1>1
    <3>. QED
      BY <2>1, <3>1, HeapCases
  <2>4. \A z, j, i : IsProp(begin, z, j, i) => Body(Heap)[z].node[1] = "prop"
    BY LeafParts DEF IsProp
  <2>5. CASE x = 1
    BY <1>1, <2>2, <2>3, <2>4, <2>5
  <2>6. CASE y = 1
    BY <1>1, <2>2, <2>3, <2>4, <2>6
  <2>7. CASE x # 1 /\ y # 1
    <3>1a. PICK j \in 1..Len(objects) :
             \E i \in 1..Len(objects[j].props) : IsProp(begin, x, j, i)
      BY <2>3, <2>7
    <3>1. PICK i \in 1..Len(objects[j].props) : IsProp(begin, x, j, i)
      BY <3>1a
    <3>2a. PICK k \in 1..Len(objects) :
             \E l \in 1..Len(objects[k].props) : IsProp(begin, y, k, l)
      BY <2>3, <2>7
    <3>2. PICK l \in 1..Len(objects[k].props) : IsProp(begin, y, k, l)
      BY <3>2a
    <3>. QED
      BY <1>1, <3>1, <3>2, OnePropertyLeaf
  <2>. QED
    BY <2>5, <2>6, <2>7
<1>2. CASE f = Hunk
  <2>1. PICK begin : HunkHolds(Body(Hunk), begin)
    BY HunkBody
  <2>2. ASSUME NEW z \in {x, y}
        PROVE  \E c \in 1..Len(code) : /\ z = 3 + begin[Len(objects) + 1] + c
                                       /\ Body(Hunk)[z].node = Node("code", code[c])
    <3>1. z \in 1..Len(Body(Hunk)) /\ Body(Hunk)[z].node[1] \in {"vars", "prop", "code"}
      BY <1>2
    <3>2. ~(z \in 1..3)
      <4>1. DispatchTable.node[1] = "dispatchTable"
        BY DispatchTableIs, LeafParts
      <4>2. z \in 1..3 => \/ Body(Hunk)[z] = Plain("heapAddress", Hunk, 0)
                          \/ Body(Hunk)[z] = Plain("farText", Hunk, 0)
                          \/ Body(Hunk)[z] = DispatchTable
        BY <2>1 DEF HunkHolds
      <4>. QED
        BY <3>1, <4>1, <4>2, LeafParts
    <3>3. ASSUME NEW j \in 1..Len(objects), NEW k \in 1..Len(Dictionary(objects[j])),
                 z = 3 + begin[j] + k
          PROVE  FALSE
      <4>1. PICK o : o = objects[j]
        OBVIOUS
      <4>2. Body(Hunk)[z] = Dictionary(o)[k]
        BY <2>1, <3>3, <4>1 DEF HunkHolds
      <4>3. k \in 1..Len(Dictionary(objects[j])) /\ o = objects[j]
        BY <4>1
      <4>4. DictionaryLeaf(o, k)
        BY <4>3, DictionaryCases
      <4>5. Dictionary(o)[k].node[1] \in {"propDict", "selector", "methDict", "method"}
        BY <4>4, LeafParts DEF DictionaryLeaf
      <4>. QED
        BY <3>1, <4>2, <4>5
    <3>4. PICK c \in 1..Len(code) : z = 3 + begin[Len(objects) + 1] + c
      BY <2>1, <3>1, <3>2, <3>3 DEF HunkHolds
    <3>5. Body(Hunk)[z] = CodeLeaf(code[c])
      BY <2>1, <3>4 DEF HunkHolds
    <3>6. code[c] \in 1..Len(script) /\ script[code[c]].op \in CodeKinds
      BY ListsAre
    <3>. QED
      BY <3>4, <3>5, <3>6, CodeLeafIs
  <2>3. PICK c \in 1..Len(code) : /\ x = 3 + begin[Len(objects) + 1] + c
                                  /\ Body(Hunk)[x].node = Node("code", code[c])
    BY <2>2
  <2>4. PICK d \in 1..Len(code) : /\ y = 3 + begin[Len(objects) + 1] + d
                                  /\ Body(Hunk)[y].node = Node("code", code[d])
    BY <2>2
  <2>5. code[c] = code[d]
    BY <1>2, <2>3, <2>4, NodeParts
  <2>6. c = d
    BY <2>5, ListsAre
  <2>. QED
    BY <2>3, <2>4, <2>6
<1>. QED
  BY <1>1, <1>2

(* The node of a leaf with a word to be fixed up is where the leaf is.     *)
LEMMA MarkedPlace ==
  ASSUME Done, NEW f \in {Heap, Hunk}, NEW x \in 1..Len(Body(f)), NEW w, NeedsFixup(Body(f)[x], w),
         NEW node, node = Body(f)[x].node
  PROVE  InBody(f, node) /\ Place(node) = StartAt(f, x) /\ Place(node) \in Nat
<1>1. node[1] \in {"vars", "prop", "code"}
  BY DEF NeedsFixup
<1>2. \A y \in 1..Len(Body(f)) : Body(f)[y].node = node => y = x
  BY <1>1, OneMarkedLeaf DEF Done
<1>. QED
  BY <1>2, PlaceOfOne

-----------------------------------------------------------------------------
(* The entries of the fixup tables.                                        *)

(* flat has one element, g[k], for each k of P; at says where.             *)
HasOneFor(flat, P, g, at) ==
  /\ \A k \in P : at[k] \in 1..Len(flat) /\ flat[at[k]] = g[k]
  /\ \A e \in 1..Len(flat) : \E k \in P : at[k] = e

LEMMA OneForEach ==
  ASSUME NEW S, NEW n \in Nat, NEW P \in SUBSET (1..n), NEW g, NEW seqs \in Seq(Seq(S)), Len(seqs) = n,
         \A k \in 1..n : seqs[k] = IF k \in P THEN <<g[k]>> ELSE <<>>
  PROVE  \E at : HasOneFor(FlattenSeq(seqs), P, g, at)
<1> DEFINE flat == FlattenSeq(seqs)
<1>1. PICK begin : IsFlat(flat, begin, seqs, n)
  BY Flattened
<1>2. flat \in Seq(S) /\ Len(flat) \in Nat
  BY Flattened, LenProperties
<1> DEFINE at == [k \in P |-> begin[k] + 1]
<1> HIDE DEF flat
<1>3. ASSUME NEW k \in P PROVE at[k] \in 1..Len(flat) /\ flat[at[k]] = g[k]
  <2>1. k \in 1..n /\ seqs[k] = <<g[k]>>
    OBVIOUS
  <2>2. Len(seqs[k]) = 1 /\ seqs[k][1] = g[k] /\ 1 \in 1..Len(seqs[k])
    BY <2>1
  <2>3. IsAt(seqs[k], begin[k], flat)
    BY <1>1, <2>1 DEF IsFlat
  <2>4. begin[k] + 1 \in 1..Len(flat) /\ flat[begin[k] + 1] = seqs[k][1]
    BY <1>2, <2>2, <2>3, AtIn
  <2>. QED
    BY <2>2, <2>4
<1>4. ASSUME NEW e \in 1..Len(flat) PROVE \E k \in P : at[k] = e
  <2>1. PICK k \in 1..n : \E l \in 1..Len(seqs[k]) : e = begin[k] + l
    BY <1>1, <1>4 DEF IsFlat
  <2>2. PICK l \in 1..Len(seqs[k]) : e = begin[k] + l
    BY <2>1
  <2>3. k \in P
    <3> SUFFICES ASSUME k \notin P PROVE FALSE
      OBVIOUS
    <3>1. seqs[k] = <<>>
      OBVIOUS
    <3>2. Len(seqs[k]) = 0
      BY <3>1
    <3>. QED
      BY <2>2, <3>2
  <2>4. seqs[k] = <<g[k]>>
    BY <2>3
  <2>5. Len(seqs[k]) = 1
    BY <2>4
  <2>6. l = 1
    BY <2>2, <2>5
  <2>. QED
    BY <2>2, <2>3, <2>6
<1>. QED
  BY <1>3, <1>4 DEF HasOneFor, flat

(* The words of a leaf that are fixed up, and the entries for all words.   *)
MarksOf(leaf) == {k \in 1..Len(leaf.words) : NeedsFixup(leaf, leaf.words[k])}
EntriesOf(leaf) == [k \in 1..Len(leaf.words) |-> Fixup(leaf.node, leaf.words[k].rel)]

LEMMA LeafEntries ==
  ASSUME Ready, ~NamesPublicObject, NEW leaf \in LeafSet
  PROVE  \E at : HasOneFor(FixupsOfLeaf(leaf), MarksOf(leaf), EntriesOf(leaf), at)
<1>1. leaf.node \in NodeType /\ leaf.words \in Seq(WordType)
  BY DEF LeafSet, LeafType
<1>2. <<>> \in Seq(FixupType)
  OBVIOUS
<1>3. CASE leaf.node[1] = "dispatchTable"
  <2> DEFINE one(i) == IF IsInHeap(TargetNode(dispatches[i]))
                       THEN <<Fixup(Node("dispatch", dispatches[i]), 0)>> ELSE <<>>
             seqs == [i \in 1..Len(dispatches) |-> one(i)]
  <2>1. Len(dispatches) \in Nat
    BY DispatchTableIs
  <2>2. \A i \in 1..Len(dispatches) : one(i) = <<>>
    BY DEF NamesPublicObject
  <2>3. FixupsOfLeaf(leaf) = FlattenSeq(seqs)
    BY <1>3 DEF FixupsOfLeaf, one
  <2> HIDE DEF one
  <2>4. seqs \in [1..Len(dispatches) -> Seq(FixupType)]
    BY <1>2, <2>2
  <2>5. seqs \in Seq(Seq(FixupType)) /\ Len(seqs) = Len(dispatches)
    BY <2>1, <2>4, SeqDef
  <2>6. \A i \in 1..Len(dispatches) : seqs[i] = <<>>
    BY <2>2
  <2>7. PICK g : g = EntriesOf(leaf)
    OBVIOUS
  <2>8. \E at : HasOneFor(FlattenSeq(seqs), {}, g, at)
    <3> HIDE DEF seqs
    <3>1. \A i \in 1..Len(dispatches) : seqs[i] = IF i \in {} THEN <<g[i]>> ELSE <<>>
      BY <2>6
    <3>2. {} \in SUBSET (1..Len(dispatches))
      OBVIOUS
    <3>. QED
      BY <2>1, <2>5, <3>1, <3>2, OneForEach
  <2>9. MarksOf(leaf) = {}
    BY <1>3 DEF MarksOf, NeedsFixup
  <2>. QED
    BY <2>3, <2>7, <2>8, <2>9
<1>4. CASE leaf.node[1] # "dispatchTable"
  <2> DEFINE one(k) == IF NeedsFixup(leaf, leaf.words[k])
                       THEN <<Fixup(leaf.node, leaf.words[k].rel)>> ELSE <<>>
             n == Len(leaf.words)
             seqs == [k \in 1..n |-> one(k)]
             P == MarksOf(leaf)
             g == EntriesOf(leaf)
  <2>1. n \in Nat /\ \A k \in 1..n : leaf.words[k] \in WordType
    BY <1>1, LenProperties, ElementOfSeq
  <2>2. ASSUME NEW k \in 1..n PROVE one(k) \in Seq(FixupType)
    <3>1. leaf.words[k].rel \in Nat
      BY <2>1 DEF WordType
    <3>2. Fixup(leaf.node, leaf.words[k].rel) \in FixupType
      BY <1>1, <3>1 DEF Fixup, FixupType
    <3>. QED
      BY <1>2, <3>2
  <2>3. FixupsOfLeaf(leaf) = FlattenSeq(seqs)
    BY <1>4 DEF FixupsOfLeaf, one
  <2>4. \A k \in 1..n : one(k) = IF k \in P THEN <<g[k]>> ELSE <<>>
    BY DEF MarksOf, EntriesOf
  <2>5. P \in SUBSET (1..n)
    BY DEF MarksOf
  <2> HIDE DEF one, P, g, n
  <2>6. seqs \in [1..n -> Seq(FixupType)]
    BY <2>2
  <2>7. seqs \in Seq(Seq(FixupType)) /\ Len(seqs) = n
    BY <2>1, <2>6, SeqDef
  <2>8. \A k \in 1..n : seqs[k] = IF k \in P THEN <<g[k]>> ELSE <<>>
    BY <2>4
  <2>9. \E at : HasOneFor(FlattenSeq(seqs), P, g, at)
    <3> HIDE DEF seqs
    <3>. QED
      BY <2>1, <2>5, <2>7, <2>8, OneForEach
  <2>. QED
    BY <2>3, <2>9 DEF P, g
<1>. QED
  BY <1>3, <1>4

(* Entry at[x][k] of the table is that for word k of leaf x, and there are *)
(* no others.                                                              *)
IsMark(f, x, k) ==
  /\ x \in 1..Len(Body(f)) /\ k \in 1..Len(Body(f)[x].words)
  /\ NeedsFixup(Body(f)[x], Body(f)[x].words[k])

HasEntries(f, table, at) ==
  /\ \A x, k : IsMark(f, x, k) =>
       /\ at[x][k] \in 1..Len(table)
       /\ table[at[x][k]] = Fixup(Body(f)[x].node, Body(f)[x].words[k].rel)
  /\ \A e \in 1..Len(table) : \E x, k : IsMark(f, x, k) /\ at[x][k] = e

LEMMA CollectedEntries ==
  ASSUME Ready, ~NamesPublicObject, NEW f \in {Heap, Hunk}
  PROVE  \E at : HasEntries(f, CollectFixups(f), at)
<1> DEFINE body == Body(f)
           n == Len(body)
           seqs == [i \in 1..n |-> FixupsOfLeaf(body[i])]
           flat == FlattenSeq(seqs)
           leafAt(x) == CHOOSE at : HasOneFor(FixupsOfLeaf(body[x]), MarksOf(body[x]), EntriesOf(body[x]), at)
<1>1. body \in Seq(LeafSet) /\ n \in Nat
  BY HeapBody, HunkBody
<1>2. CollectFixups(f) = flat
  BY DEF CollectFixups
<1> HIDE DEF body
<1>3. ASSUME NEW x \in 1..n
      PROVE  /\ FixupsOfLeaf(body[x]) \in Seq(FixupType)
             /\ HasOneFor(FixupsOfLeaf(body[x]), MarksOf(body[x]), EntriesOf(body[x]), leafAt(x))
  <2>1. body[x] \in LeafSet
    BY <1>1, ElementOfSeq
  <2>. QED
    BY <2>1, LeafFixups, LeafEntries
<1> HIDE DEF leafAt
<1>4. seqs \in [1..n -> Seq(FixupType)]
  BY <1>3
<1>5. seqs \in Seq(Seq(FixupType)) /\ Len(seqs) = n
  BY <1>1, <1>4, SeqDef
<1>6. \A x \in 1..n : seqs[x] = FixupsOfLeaf(body[x])
  OBVIOUS
<1> HIDE DEF seqs, n
<1>7. PICK begin : IsFlat(flat, begin, seqs, n)
  BY <1>5, Flattened
<1>8. Len(flat) \in Nat
  BY <1>5, Flattened, LenProperties
<1> HIDE DEF flat
<1> DEFINE at == [x \in 1..n |-> [k \in MarksOf(body[x]) |-> begin[x] + leafAt(x)[k]]]
<1>9. ASSUME NEW x, NEW k, IsMark(f, x, k)
      PROVE  /\ at[x][k] \in 1..Len(flat)
             /\ flat[at[x][k]] = Fixup(Body(f)[x].node, Body(f)[x].words[k].rel)
  <2>1. x \in 1..n /\ k \in MarksOf(body[x]) /\ k \in 1..Len(body[x].words)
    BY <1>9 DEF IsMark, MarksOf, n, body
  <2>2. at[x][k] = begin[x] + leafAt(x)[k]
    BY <2>1
  <2>3. /\ leafAt(x)[k] \in 1..Len(seqs[x])
        /\ seqs[x][leafAt(x)[k]] = EntriesOf(body[x])[k]
    BY <1>3, <1>6, <2>1 DEF HasOneFor
  <2>4. EntriesOf(body[x])[k] = Fixup(body[x].node, body[x].words[k].rel)
    BY <2>1 DEF EntriesOf
  <2>5. IsAt(seqs[x], begin[x], flat) /\ Len(seqs[x]) \in Nat
    <3>1. IsAt(seqs[x], begin[x], flat)
      BY <1>7, <2>1 DEF IsFlat
    <3>2. seqs[x] \in Seq(FixupType)
      BY <1>3, <1>6, <2>1
    <3>. QED
      BY <3>1, <3>2, LenProperties
  <2> HIDE DEF at
  <2>6. /\ begin[x] + leafAt(x)[k] \in 1..Len(flat)
        /\ flat[begin[x] + leafAt(x)[k]] = seqs[x][leafAt(x)[k]]
    BY <1>8, <2>3, <2>5, AtIn
  <2>. QED
    BY <2>2, <2>3, <2>4, <2>6 DEF body
<1>10. ASSUME NEW e \in 1..Len(flat) PROVE \E x, k : IsMark(f, x, k) /\ at[x][k] = e
  <2>1. PICK x \in 1..n : \E l \in 1..Len(seqs[x]) : e = begin[x] + l
    BY <1>7 DEF IsFlat
  <2>2. PICK l \in 1..Len(seqs[x]) : e = begin[x] + l
    BY <2>1
  <2>3. PICK k \in MarksOf(body[x]) : leafAt(x)[k] = l
    BY <1>3, <1>6, <2>2 DEF HasOneFor
  <2>4. IsMark(f, x, k)
    BY <2>3 DEF IsMark, MarksOf, body, n
  <2>5. at[x][k] = e
    BY <2>2, <2>3
  <2>. QED
    BY <2>4, <2>5
<1> HIDE DEF at
<1>. QED
  BY <1>2, <1>9, <1>10 DEF HasEntries

(* When every variable has a value, nothing is guessed.                    *)
LEMMA TableEntries ==
  ASSUME Done, ~NamesPublicObject, Holes = {}, NEW f \in {Heap, Hunk}
  PROVE  \E at : HasEntries(f, fixups[f], at)
<1>1. fixups[f] = CollectFixups(f)
  <2>1. CollectFixups(f) \in Seq(FixupType)
    BY CollectedFixups DEF Done
  <2>2. CASE f = Heap
    <3>1. PICK holes \in SUBSET Holes : fixups[f] = CollectFixups(f) \o Guessed(holes)
      BY <2>2 DEF Done, FilesInv
    <3>2. Guessed(holes) \in Seq(FixupType)
      BY GuessedFixups DEF Done
    <3>3. holes = {}
      OBVIOUS
    <3>4. Cardinality(holes) = 0
      BY <3>3, FS_EmptySet
    <3>5. Guessed(holes) = <<>>
      BY <3>4 DEF Guessed
    <3>. QED
      BY <2>1, <3>1, <3>5, ConcatEmptySeq
  <2>3. CASE f = Hunk
    <3>1. fixups[f] = CollectFixups(f) \o <<>>
      BY <2>3 DEF Done, FilesInv
    <3>. QED
      BY <2>1, <3>1, ConcatEmptySeq
  <2>. QED
    BY <2>2, <2>3
<1>. QED
  BY <1>1, CollectedEntries DEF Done

-----------------------------------------------------------------------------
(* What the loader does to the words.                                      *)
LEMMA BodyInFile ==
  ASSUME Done, NEW f \in {Heap, Hunk}, NEW x \in 1..Len(Body(f))
  PROVE  /\ x + 1 \in 1..Len(File(f)) /\ File(f)[x + 1] = Body(f)[x]
         /\ StartAt(f, x) = At(f, x + 1) /\ StartAt(f, x) \in Nat
<1>1. /\ Len(Body(f)) \in Nat /\ Len(fixups[f]) \in Nat
      /\ Len(File(f)) = Len(Body(f)) + 3 + Len(fixups[f])
      /\ File(f)[x + 1] = Body(f)[x]
      /\ \A i \in 1..Len(File(f)) : At(f, i) \in Nat
  BY FileLeaves DEF FileHolds
<1>2. x + 1 \in 1..Len(File(f))
  <2>1. PICK n \in Nat, m \in Nat : n = Len(Body(f)) /\ Len(File(f)) = n + 3 + m
    BY <1>1
  <2>2. x \in 1..n
    BY <2>1
  <2>3. x + 1 \in 1..(n + 3 + m)
    BY <2>2
  <2>. QED
    BY <2>1, <2>3
<1>3. StartAt(f, x) = At(f, x + 1)
  BY DEF StartAt, At, File
<1>. QED
  BY <1>1, <1>2, <1>3

LEMMA EntriesAre ==
  ASSUME Done, NEW f \in {Heap, Hunk}
  PROVE  /\ Len(Entries(f)) = Len(fixups[f]) /\ Len(fixups[f]) \in Nat
         /\ \A e \in 1..Len(fixups[f]) : Entries(f)[e] = WordAt(f, Table(f) + 2 * e)
<1>1. PICK m : m = Len(fixups[f])
  OBVIOUS
<1>2. WordAt(f, Table(f)) = m /\ m \in Nat
  BY <1>1, TableIs
<1>3. Entries(f) = [i \in 1..m |-> WordAt(f, Table(f) + 2 * i)]
  BY <1>2 DEF Entries
<1>4. Len(Entries(f)) = m
  BY <1>2, <1>3
<1>. QED
  BY <1>1, <1>2, <1>3, <1>4

(* Every entry is the place of the word it is for.                         *)
LEMMA EntryIs ==
  ASSUME Done, NEW f \in {Heap, Hunk}, NEW at, HasEntries(f, fixups[f], at),
         NEW x, NEW k, IsMark(f, x, k), NEW e, e = at[x][k]
  PROVE  /\ e \in 1..Len(Entries(f))
         /\ Entries(f)[e] = At(f, x + 1) + File(f)[x + 1].words[k].rel
<1> DEFINE rel == Body(f)[x].words[k].rel
           node == Body(f)[x].node
           entry == fixups[f][e]
           i == TableLeafAt(f) + e
           w == Word(0, node, rel)
<1>1. x \in 1..Len(Body(f)) /\ NeedsFixup(Body(f)[x], Body(f)[x].words[k])
  BY DEF IsMark
<1>2. e \in 1..Len(fixups[f]) /\ entry = Fixup(node, rel)
  BY DEF HasEntries
<1>3. InBody(f, node) /\ Place(node) = StartAt(f, x) /\ Place(node) \in Nat
  BY <1>1, MarkedPlace
<1>4. node \in DOMAIN OffsetsOf(f) /\ OffsetsOf(f)[node] = StartAt(f, x) /\ node # NoNode
  BY <1>3, OffsetIsPlace, BodyNodes DEF Done
<1>5. i \in 1..Len(File(f)) /\ At(f, i) = Table(f) + 2 * e /\ Table(f) \in Nat
  <2>1. PICK m : m = Len(fixups[f])
    OBVIOUS
  <2>. QED
    BY <1>2, <2>1, TableIs
<1>6. File(f)[i].words = <<w>>
  <2>1. FileHolds(File(f), f, fixups[f])
    BY FileLeaves
  <2>2. File(f)[Len(Body(f)) + 3 + e] = FixupLeaf(f, entry)
    BY <1>2, <2>1 DEF FileHolds
  <2>3. entry.node = node /\ entry.rel = rel
    BY <1>2 DEF Fixup
  <2>. QED
    BY <2>2, <2>3 DEF TableLeafAt, FixupLeaf, Leaf
<1>7. w.rel = 0 /\ w.to = node /\ w.add = rel
  BY WordParts
<1> HIDE DEF w, i
<1>8. 1 \in 1..Len(File(f)[i].words) /\ w = File(f)[i].words[1]
  BY <1>6
<1>9. w.to # NoNode /\ w.to \in DOMAIN OffsetsOf(f)
  BY <1>4, <1>7
<1>10. WordAt(f, At(f, i) + w.rel) = w.add + OffsetsOf(f)[w.to]
  BY <1>5, <1>8, <1>9, FileWord
<1>11. StartAt(f, x) = At(f, x + 1) /\ StartAt(f, x) \in Nat /\ File(f)[x + 1] = Body(f)[x]
  BY <1>1, BodyInFile
<1>12. rel \in Nat
  <2>1. k \in 1..Len(Body(f)[x].words)
    BY DEF IsMark
  <2>2. Body(f)[x] \in LeafSet
    BY <1>1, BodyStarts, ElementOfSeq
  <2>3. Body(f)[x].words \in Seq(WordType)
    BY <2>2 DEF LeafSet, LeafType
  <2>4. Body(f)[x].words[k] \in WordType
    BY <2>1, <2>3, ElementOfSeq
  <2>. QED
    BY <2>4 DEF WordType
<1>13. WordAt(f, Table(f) + 2 * e) = rel + StartAt(f, x)
  <2> HIDE DEF rel, node
  <2>1. At(f, i) + w.rel = Table(f) + 2 * e
    <3>1. e \in Nat
      BY <1>2, EntriesAre
    <3>. QED
      BY <1>5, <1>7, <3>1
  <2>. QED
    BY <1>4, <1>7, <1>10, <2>1
<1>14. e \in 1..Len(Entries(f)) /\ Entries(f)[e] = WordAt(f, Table(f) + 2 * e)
  BY <1>2, EntriesAre
<1>15. rel = File(f)[x + 1].words[k].rel
  BY <1>11
<1> HIDE DEF rel, node, entry
<1>16. rel + StartAt(f, x) = At(f, x + 1) + rel
  BY <1>11, <1>12
<1>. QED
  BY <1>13, <1>14, <1>15, <1>16

(* A word of a leaf of the body is added to as often as it is marked.      *)
LEMMA AddedTo ==
  ASSUME Done, ~NamesPublicObject, Holes = {}, NEW f \in {Heap, Hunk},
         NEW x \in 1..Len(Body(f)), NEW k \in 1..Len(Body(f)[x].words),
         NEW at, at = At(f, x + 1) + File(f)[x + 1].words[k].rel
  PROVE  Additions(f, at) = IF IsMark(f, x, k) THEN 1 ELSE 0
<1>1. PICK pos : HasEntries(f, fixups[f], pos)
  BY TableEntries
<1>2. PICK unset : HasWords(out[f].words, File(f), Starts(File(f)), OffsetsOf(f), unset)
  BY FileWords
<1> DEFINE hits == {i \in 1..Len(Entries(f)) : Entries(f)[i] = at}
<1>3. ASSUME NEW e \in hits PROVE IsMark(f, x, k) /\ e = pos[x][k]
  <2>1. e \in 1..Len(fixups[f]) /\ Entries(f)[e] = at
    BY EntriesAre
  <2>2. PICK y, l : IsMark(f, y, l) /\ pos[y][l] = e
    BY <1>1, <2>1 DEF HasEntries
  <2>3. Entries(f)[e] = At(f, y + 1) + File(f)[y + 1].words[l].rel
    BY <1>1, <2>2, EntryIs
  <2>4. y \in 1..Len(Body(f)) /\ l \in 1..Len(Body(f)[y].words)
    BY <2>2 DEF IsMark
  <2>5. /\ x + 1 \in 1..Len(File(f)) /\ k \in 1..Len(File(f)[x + 1].words)
        /\ y + 1 \in 1..Len(File(f)) /\ l \in 1..Len(File(f)[y + 1].words)
    BY <2>4, BodyInFile
  <2>6. At(f, x + 1) + File(f)[x + 1].words[k].rel = At(f, y + 1) + File(f)[y + 1].words[l].rel
    BY <2>1, <2>3
  <2>7. x + 1 = y + 1 /\ k = l
    <3>1. \A i \in 1..Len(File(f)) : \A m \in 1..Len(File(f)[i].words) :
            \A j \in 1..Len(File(f)) : \A n \in 1..Len(File(f)[j].words) :
              At(f, i) + File(f)[i].words[m].rel = At(f, j) + File(f)[j].words[n].rel =>
                i = j /\ m = n
      BY <1>2 DEF HasWords, At
    <3> DEFINE p == x + 1
               q == y + 1
    <3> HIDE DEF p, q
    <3>2. p \in 1..Len(File(f)) /\ q \in 1..Len(File(f))
      BY <2>5 DEF p, q
    <3>3. k \in 1..Len(File(f)[p].words) /\ l \in 1..Len(File(f)[q].words)
      BY <2>5 DEF p, q
    <3>4. At(f, p) + File(f)[p].words[k].rel = At(f, q) + File(f)[q].words[l].rel
      BY <2>6 DEF p, q
    <3>5. p = q /\ k = l
      BY <3>1, <3>2, <3>3, <3>4
    <3>. QED
      BY <3>5 DEF p, q
  <2>8. x = y
    <3>1. x \in Int /\ y \in Int
      BY <2>4
    <3>. QED
      BY <2>7, <3>1
  <2>. QED
    BY <2>2, <2>7, <2>8
<1>4. ASSUME IsMark(f, x, k) PROVE pos[x][k] \in hits
  BY <1>1, <1>4, EntryIs
<1>5. Additions(f, at) = Cardinality(hits)
  BY DEF Additions
<1> HIDE DEF hits
<1>6. CASE IsMark(f, x, k)
  <2>1. hits = {pos[x][k]}
    BY <1>3, <1>4, <1>6
  <2>. QED
    BY <1>5, <1>6, <2>1, FS_Singleton
<1>7. CASE ~IsMark(f, x, k)
  <2>1. hits = {}
    BY <1>3, <1>7
  <2>. QED
    BY <1>5, <1>7, <2>1, FS_EmptySet
<1>. QED
  BY <1>6, <1>7

LEMMA WordLoads ==
  ASSUME Done, ~NamesPublicObject, Holes = {}, NEW f \in {Heap, Hunk},
         NEW y \in 1..Len(out[f].words), NEW w, w = out[f].words[y], ~IsOfTable(w)
  PROVE  /\ w.value = (IF w.to = NoNode THEN w.value ELSE Place(w.to))
         /\ Additions(f, w.at) = (IF PointsToHeap(w) THEN 1 ELSE 0)
<1>1. PICK unset : HasWords(out[f].words, File(f), Starts(File(f)), OffsetsOf(f), unset)
  BY FileWords
<1>2. PICK i \in 1..Len(File(f)) :
        \E l \in 1..Len(File(f)[i].words) :
          w = Wrote(File(f)[i], Starts(File(f))[i], File(f)[i].words[l], OffsetsOf(f), unset)
  BY <1>1 DEF HasWords
<1>3. PICK k \in 1..Len(File(f)[i].words) :
        w = Wrote(File(f)[i], Starts(File(f))[i], File(f)[i].words[k], OffsetsOf(f), unset)
  BY <1>2
<1>4. /\ w.node = File(f)[i].node /\ w.to = File(f)[i].words[k].to
      /\ w.at = At(f, i) + File(f)[i].words[k].rel
      /\ w.value = File(f)[i].words[k].add + (IF w.to = NoNode THEN 0
                     ELSE IF w.to \in DOMAIN OffsetsOf(f) THEN OffsetsOf(f)[w.to] ELSE unset)
  BY <1>3 DEF Wrote, At
<1>5. i - 1 \in 1..Len(Body(f)) /\ File(f)[i] = Body(f)[i - 1]
  <2>1. File(f)[i].node[1] \notin {"fixupOffset", "fixupTable", "fixup"}
    BY <1>4 DEF IsOfTable
  <2>2. File(f)[i] # Mark("padding", f)
    <3> SUFFICES ASSUME File(f)[i] = Mark("padding", f) PROVE FALSE
      OBVIOUS
    <3>1. Len(File(f)[i].words) = 0
      BY DEF Mark, Leaf
    <3>. QED
      BY <1>3, <3>1
  <2>3. \A e : FixupLeaf(f, fixups[f][e]).node[1] = "fixup"
    BY DEF FixupLeaf, Leaf, Node
  <2>. QED
    BY <2>1, <2>2, <2>3, FrameLeaves, LeafParts
<1>6. PICK x \in 1..Len(Body(f)) : i = x + 1 /\ File(f)[i] = Body(f)[x]
  <2>1. i = (i - 1) + 1
    BY FileLeaves
  <2>. QED
    BY <1>5, <2>1
<1> DEFINE u == Body(f)[x].words[k]
<1>7. k \in 1..Len(Body(f)[x].words) /\ u = File(f)[i].words[k]
  BY <1>3, <1>6
<1>8. IsMarked(Body(f)[x], u)
  BY <1>7, BodyMarked DEF AreMarked, Done
<1>9. ASSUME w.to # NoNode PROVE w.value = Place(w.to)
  <2>1. u.add = 0 /\ IsAThing(w.to)
    BY <1>4, <1>7, <1>8, <1>9 DEF IsMarked
  <2>2. PICK g \in {Heap, Hunk} : InBody(g, w.to)
    BY <2>1 DEF IsAThing
  <2>3. /\ w.to \in DOMAIN OffsetsOf(f) /\ OffsetsOf(f)[w.to] = Place(w.to)
        /\ Place(w.to) \in Nat
    BY <2>2, OffsetIsPlace, PlaceIs
  <2>4. w.value = 0 + Place(w.to)
    BY <1>4, <1>7, <1>9, <2>1, <2>3
  <2>5. PICK p \in Nat : p = Place(w.to)
    BY <2>3
  <2>6. w.value = p
    BY <2>4, <2>5
  <2>. QED
    BY <2>5, <2>6
<1>10. w.value = (IF w.to = NoNode THEN w.value ELSE Place(w.to))
  BY <1>9
<1>11. IsMark(f, x, k) <=> PointsToHeap(w)
  BY <1>4, <1>7, <1>8 DEF IsMark, IsMarked, PointsToHeap
<1>12. Additions(f, w.at) = IF IsMark(f, x, k) THEN 1 ELSE 0
  <2>1. w.at = At(f, x + 1) + File(f)[x + 1].words[k].rel
    BY <1>4, <1>6
  <2>. QED
    BY <1>7, <2>1, AddedTo
<1>. QED
  BY <1>10, <1>11, <1>12

(* Every entry leads to a word.                                            *)
LEMMA EntryLeads ==
  ASSUME Done, ~NamesPublicObject, Holes = {}, NEW f \in {Heap, Hunk}, NEW e \in 1..Len(Entries(f))
  PROVE  \E y \in 1..Len(out[f].words) : out[f].words[y].at = Entries(f)[e]
<1>1. PICK pos : HasEntries(f, fixups[f], pos)
  BY TableEntries
<1>2. PICK unset : HasWords(out[f].words, File(f), Starts(File(f)), OffsetsOf(f), unset)
  BY FileWords
<1>3. e \in 1..Len(fixups[f])
  BY EntriesAre
<1>4. PICK x, k : IsMark(f, x, k) /\ pos[x][k] = e
  BY <1>1, <1>3 DEF HasEntries
<1>5. Entries(f)[e] = At(f, x + 1) + File(f)[x + 1].words[k].rel
  BY <1>1, <1>4, EntryIs
<1>6. x \in 1..Len(Body(f)) /\ k \in 1..Len(Body(f)[x].words)
  BY <1>4 DEF IsMark
<1>7. x + 1 \in 1..Len(File(f)) /\ k \in 1..Len(File(f)[x + 1].words)
  BY <1>6, BodyInFile
<1>8. PICK y \in 1..Len(out[f].words) :
        out[f].words[y] = Wrote(File(f)[x + 1], Starts(File(f))[x + 1], File(f)[x + 1].words[k],
                                OffsetsOf(f), unset)
  BY <1>2, <1>7 DEF HasWords
<1>9. out[f].words[y].at = At(f, x + 1) + File(f)[x + 1].words[k].rel
  BY <1>8 DEF Wrote, At
<1>. QED
  BY <1>5, <1>9

LEMMA FilesLoad ==
  ASSUME Done
  PROVE  LoadsAnywhere
<1> SUFFICES ASSUME ~NamesPublicObject, Holes = {}, NEW f \in {Heap, Hunk}
             PROVE  /\ Table(f) % 2 = 0
                    /\ out[f].length = Table(f) + 2 * (Len(Entries(f)) + 1)
                    /\ \A i \in 1..Len(out[f].words) :
                         LET w == out[f].words[i]
                         IN  ~IsOfTable(w) =>
                               /\ w.value = (IF w.to = NoNode THEN w.value ELSE Place(w.to))
                               /\ Additions(f, w.at) = (IF PointsToHeap(w) THEN 1 ELSE 0)
                    /\ \A i \in 1..Len(Entries(f)) :
                         \E k \in 1..Len(out[f].words) : out[f].words[k].at = Entries(f)[i]
  BY DEF LoadsAnywhere
<1>1. Table(f) % 2 = 0 /\ out[f].length = Table(f) + 2 * (Len(Entries(f)) + 1)
  <2>1. PICK m : m = Len(fixups[f])
    OBVIOUS
  <2>2. Table(f) % 2 = 0 /\ out[f].length = Table(f) + 2 * (m + 1)
    BY <2>1, TableIs
  <2>. QED
    BY <2>1, <2>2, EntriesAre
<1>2. ASSUME NEW i \in 1..Len(out[f].words), NEW w, w = out[f].words[i], ~IsOfTable(w)
      PROVE  /\ w.value = (IF w.to = NoNode THEN w.value ELSE Place(w.to))
             /\ Additions(f, w.at) = (IF PointsToHeap(w) THEN 1 ELSE 0)
  BY <1>2, WordLoads
<1>3. \A i \in 1..Len(Entries(f)) :
        \E k \in 1..Len(out[f].words) : out[f].words[k].at = Entries(f)[i]
  BY EntryLeads
<1>. QED
  BY <1>1, <1>2, <1>3

(* Wherever the heap is put, the words that mean a thing of it hold its    *)
(* address once the loader has been through the fixup tables, and no other *)
(* word has changed (collectFixups and FixupList::emit); for every set of  *)
(* scripts whose variables all have values and whose publics are code.     *)
THEOREM LoadsAtAnyAddress == Spec => []LoadsAnywhere
<1>1. IInv /\ ContentsInv /\ FilesInv => LoadsAnywhere
  <2>1. CASE phase = "done"
    BY <2>1, AtTheEnd, FilesLoad
  <2>2. CASE phase # "done"
    BY <2>2 DEF LoadsAnywhere
  <2>. QED
    BY <2>1, <2>2
<1>. QED
  BY <1>1, FilesInvariance, PTL

=============================================================================
