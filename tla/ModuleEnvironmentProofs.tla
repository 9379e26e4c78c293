---------------------- MODULE ModuleEnvironmentProofs ----------------------
(***************************************************************************)
(* Proofs about names, for all programs: which declarations are accepted   *)
(* does not depend on their order or on how often they are repeated, a     *)
(* global means one word in all scripts, and a public one thing.           *)
(***************************************************************************)
EXTENDS ModuleEnvironment, SequenceTheorems, FiniteSetTheorems, Induction, TLAPS

IsTable(t) == \E S : t \in Seq(S)

UniqueNames(t) == \A i, k \in 1..Len(t) : t[i].name = t[k].name => i = k
UniqueIndexes(t) == \A i, k \in 1..Len(t) : t[i].index = t[k].index => i = k

ClassStages == {"globalclasses", "classdecls", "classdefs", "copies"}
Early == {"procs", "publics", "locals"}
Late == Early \cup {"code", "dispatch", "done"}
Stages == ClassStages \cup {"externs", "globals", "failed", "crashed"} \cup Late

Place == program \in Programs /\ at \in Modules /\ pos \in Nat \ {0} /\ stage \in Stages

(* The tables, each with entries that a lookup can tell apart.             *)
TableKind == {"procs", "publics", "locals"}
TablesInv ==
  /\ IsTable(globals) /\ UniqueNames(globals) /\ UniqueIndexes(globals)
  /\ DOMAIN tables = Modules
  /\ tables = [s \in Modules |-> tables[s]]
  /\ \A s \in Modules :
       /\ tables[s] = [t \in TableKind |-> tables[s][t]]
       /\ IsTable(tables[s].publics) /\ UniqueIndexes(tables[s].publics)

(* A table with one more entry.                                            *)
LEMMA AppendToTable ==
  ASSUME NEW t, IsTable(t), NEW e
  PROVE  /\ IsTable(Append(t, e))
         /\ Len(t) \in Nat /\ Len(Append(t, e)) = Len(t) + 1
         /\ \A i \in 1..Len(t) : Append(t, e)[i] = t[i]
         /\ Append(t, e)[Len(t) + 1] = e
<1>1. PICK S : t \in Seq(S)
  BY DEF IsTable
<1>2. t \in Seq(S \cup {e}) /\ e \in S \cup {e}
  BY <1>1
<1> QED BY <1>2, AppendProperties, LenProperties DEF IsTable

LEMMA NewName ==
  ASSUME NEW t, IsTable(t), UniqueNames(t), NEW e, e.name \notin Names(t)
  PROVE  UniqueNames(Append(t, e))
<1>1. \A i \in 1..Len(t) : t[i].name # e.name
  BY DEF Names
<1>2. \A i \in 1..Len(t) + 1 : i \in 1..Len(t) \/ i = Len(t) + 1
  BY AppendToTable
<1> QED BY <1>1, <1>2, AppendToTable DEF UniqueNames

LEMMA NewIndex ==
  ASSUME NEW t, IsTable(t), UniqueIndexes(t), NEW e, e.index \notin Indexes(t)
  PROVE  UniqueIndexes(Append(t, e))
<1>1. \A i \in 1..Len(t) : t[i].index # e.index
  BY DEF Indexes
<1>2. \A i \in 1..Len(t) + 1 : i \in 1..Len(t) \/ i = Len(t) + 1
  BY AppendToTable
<1> QED BY <1>1, <1>2, AppendToTable DEF UniqueIndexes

LEMMA EmptyTable == IsTable(<<>>) /\ UniqueNames(<<>>) /\ UniqueIndexes(<<>>)
<1>1. <<>> \in Seq({})
  OBVIOUS
<1> QED BY <1>1 DEF IsTable, UniqueNames, UniqueIndexes

(* Where every name is there once, a lookup finds the entry of the name.   *)
LEMMA Lookup ==
  ASSUME NEW t, UniqueNames(t), NEW i \in 1..Len(t), Len(t) \in Nat
  PROVE  LookupByName(t, t[i].name) = t[i]
<1>1. \A k \in 1..(i - 1) : t[k].name # t[i].name
  BY DEF UniqueNames
<1>2. \A j \in 1..Len(t) : t[j].name = t[i].name => j = i
  BY DEF UniqueNames
<1> QED BY <1>1, <1>2 DEF LookupByName

(* A program stays what it is.                                             *)
LEMMA SameProgram ==
  ASSUME program' = program
  PROVE  /\ Modules' = Modules /\ Decls' = Decls /\ Built' = Built
         /\ \A s : ScriptNum(s)' = ScriptNum(s)
         /\ \A s : Definitions(s)' = Definitions(s)
         /\ \A s, kind : Items(s, kind)' = Items(s, kind)
<1>1. Modules' = Modules /\ \A s : ScriptNum(s)' = ScriptNum(s)
  BY DEF Modules, ScriptNum
<1> QED BY <1>1 DEF Decls, Built, Definitions, Items, Elems

(* Adding to a table of the script at hand.                                *)
LEMMA Added ==
  ASSUME TablesInv, Place, NEW table \in TableKind, NEW entry, Add(table, entry)
  PROVE  /\ UNCHANGED <<program, declared, classes, externs, globals, frames, dispatches, stage, at>>
         /\ pos' = pos + 1
         /\ DOMAIN tables' = Modules /\ tables' = [s \in Modules |-> tables'[s]]
         /\ \A s \in Modules \ {at} : tables'[s] = tables[s]
         /\ tables'[at] = [t \in TableKind |-> tables'[at][t]]
         /\ tables'[at][table] = Append(tables[at][table], entry)
         /\ \A t \in TableKind \ {table} : tables'[at][t] = tables[at][t]
<1>1. /\ UNCHANGED <<program, declared, classes, externs, globals, frames, dispatches, stage, at>>
      /\ pos' = pos + 1 /\ at \in Modules
      /\ tables' = [tables EXCEPT ![at] = [tables[at] EXCEPT ![table] = Append(tables[at][table], entry)]]
  BY DEF Add, Advance, env, Place
<1>2. DOMAIN tables' = Modules /\ tables' = [s \in Modules |-> tables'[s]]
  BY <1>1 DEF TablesInv
<1>3. \A s \in Modules \ {at} : tables'[s] = tables[s]
  BY <1>1 DEF TablesInv
<1>4. tables'[at] = [tables[at] EXCEPT ![table] = Append(tables[at][table], entry)]
  BY <1>1 DEF TablesInv
<1>5. tables[at] = [t \in TableKind |-> tables[at][t]]
  BY <1>1 DEF TablesInv
<1> QED BY <1>1, <1>2, <1>3, <1>4, <1>5

LEMMA AddStep ==
  ASSUME TablesInv, Place, NEW table \in TableKind, NEW entry, Add(table, entry),
         table = "publics" => entry.index \notin Indexes(tables[at].publics)
  PROVE  TablesInv'
<1>1. UNCHANGED <<globals, program>> /\ Modules' = Modules /\ at \in Modules
  BY Added, SameProgram DEF Place
<1>2. ASSUME NEW s \in Modules
      PROVE  /\ tables'[s] = [t \in TableKind |-> tables'[s][t]]
             /\ IsTable(tables'[s].publics) /\ UniqueIndexes(tables'[s].publics)
  <2>1. CASE s # at
    BY <1>2, <2>1, Added DEF TablesInv
  <2>2. CASE s = at
    <3>1. IsTable(tables[s].publics) /\ UniqueIndexes(tables[s].publics)
      BY <1>2 DEF TablesInv
    <3>2. CASE table = "publics"
      <4>1. tables'[s].publics = Append(tables[s].publics, entry)
        BY <2>2, <3>2, Added
      <4> QED BY <2>2, <3>1, <3>2, <4>1, Added, AppendToTable, NewIndex
    <3>3. CASE table # "publics"
      <4>1. tables'[s].publics = tables[s].publics
        BY <2>2, <3>3, Added DEF TableKind
      <4> QED BY <2>2, <3>1, <4>1, Added
    <3> QED BY <3>2, <3>3
  <2> QED BY <2>1, <2>2
<1>3. DOMAIN tables' = Modules /\ tables' = [s \in Modules |-> tables'[s]]
  BY Added
<1> QED BY <1>1, <1>2, <1>3 DEF TablesInv

LEMMA TablesStep ==
  ASSUME TablesInv, Place, [Next]_vars
  PROVE  TablesInv'
<1>1. CASE DeclareVar
  <2>1. IsTable(globals') /\ UniqueNames(globals') /\ UniqueIndexes(globals')
    <3>1. CASE UNCHANGED globals
      BY <3>1 DEF TablesInv
    <3>2. CASE CanDeclareVar(Item) /\ globals' = Append(globals, Item)
      <4>1. Item.name \notin Names(globals) /\ Item.index \notin Indexes(globals)
        BY <3>2 DEF CanDeclareVar
      <4> QED BY <3>2, <4>1, AppendToTable, NewName, NewIndex DEF TablesInv
    <3> QED BY <1>1, <3>1, <3>2 DEF DeclareVar
  <2> QED BY <1>1, <2>1 DEF DeclareVar, Advance, TablesInv, Modules
<1>2. CASE AddProcedure \/ DefineVar
  <2>1. PICK table \in {"procs", "locals"} : \E entry : Add(table, entry)
    BY <1>2 DEF AddProcedure, DefineVar
  <2> QED BY <2>1, AddStep DEF TableKind
<1>3. CASE AddPublic
  <2>1. PICK kind : Add("publics", [name |-> Item.name, index |-> Item.index, kind |-> kind])
    BY <1>3 DEF AddPublic
  <2>2. Item.index \notin Indexes(tables[at].publics)
    BY <1>3 DEF AddPublic, CanAddPublic
  <2> QED BY <2>1, <2>2, AddStep DEF TableKind
<1>4. CASE AddClassDecl \/ AddClassDef \/ CopyClass \/ AddExtern \/ BuildDefinition \/ Dispatch
           \/ EndStage \/ Fail \/ Crash \/ Terminated \/ UNCHANGED vars
  <2>1. UNCHANGED <<program, globals, tables>>
    BY <1>4 DEF AddClassDecl, AddClassDef, CopyClass, AddExtern, BuildDefinition, Dispatch, Advance,
                EndStage, Go, Fail, Crash, End, Terminated, vars, env
  <2> QED BY <2>1 DEF TablesInv, Modules
<1> QED BY <1>1, <1>2, <1>3, <1>4 DEF Next

-----------------------------------------------------------------------------
(* The name of a global is that of a variable there, or of two things.     *)
LEMMA GlobalNames ==
  ASSUME NEW s \in Modules, NEW name \in Names(globals)
  PROVE  WordOf(s, name) \in {<<>>, <<0, LookupByName(globals, name).index>>}
<1> DEFINE found == Candidates(s, name)
<1>1. "global" \in found
  BY DEF Candidates
<1>2. found \subseteq {"local", "global", "object", "class"}
  BY DEF Candidates
<1>3. CASE OuterSym(s, name) = Ambiguous
  BY <1>3 DEF WordOf, Ambiguous
<1>4. CASE found = {"local", "global"}
  <2>1. SameWord(s, name) => OuterSym(s, name) = LocalSym(s, name)
    BY <1>4 DEF OuterSym
  <2>2. ~SameWord(s, name) => OuterSym(s, name) = Ambiguous
    BY <1>4 DEF OuterSym
  <2>3. SameWord(s, name) => WordOf(s, name) = <<0, LookupByName(globals, name).index>>
    BY <2>1 DEF WordOf, SameWord, LocalSym, GlobalSym
  <2> QED BY <1>3, <2>2, <2>3
<1>5. CASE found = {"global"}
  <2>1. Cardinality({"global"}) = 1
    BY FS_Singleton
  <2>2. OuterSym(s, name) = GlobalSym(name)
    BY <1>5, <2>1 DEF OuterSym
  <2> QED BY <2>2 DEF WordOf, GlobalSym
<1>6. CASE found # {"local", "global"} /\ found # {"global"}
  <2>1. IsFiniteSet(found)
    <3>1. IsFiniteSet({"local", "global", "object", "class"})
      <4>1. IsFiniteSet({"local"}) /\ IsFiniteSet({"object"})
        BY FS_Singleton
      <4>2. IsFiniteSet({"local"} \cup {"global"}) /\ IsFiniteSet({"object"} \cup {"class"})
        BY <4>1, FS_AddElement
      <4>3. IsFiniteSet(({"local"} \cup {"global"}) \cup ({"object"} \cup {"class"}))
        BY <4>2, FS_Union
      <4>4. ({"local"} \cup {"global"}) \cup ({"object"} \cup {"class"})
              = {"local", "global", "object", "class"}
        OBVIOUS
      <4> QED BY <4>3, <4>4
    <3> QED BY <1>2, <3>1, FS_Subset
  <2>2. PICK other \in found : other # "global"
    BY <1>1, <1>6
  <2>3. Cardinality(found) > 1
    <3>1. Cardinality(found \ {"global"}) = Cardinality(found) - 1
      BY <1>1, <2>1, FS_RemoveElement
    <3>2. IsFiniteSet(found \ {"global"}) /\ found \ {"global"} # {}
      BY <2>1, <2>2, FS_RemoveElement
    <3>3. Cardinality(found \ {"global"}) \in Nat /\ Cardinality(found \ {"global"}) # 0
          /\ Cardinality(found) \in Nat
      BY <2>1, <3>2, FS_CardinalityType, FS_EmptySet
    <3> QED BY <3>1, <3>3
  <2>4. OuterSym(s, name) = Ambiguous
    BY <1>1, <1>6, <2>3 DEF OuterSym
  <2> QED BY <1>3, <2>4
<1> QED BY <1>4, <1>5, <1>6

(* Whatever script 0 and the others define themselves under its name: a    *)
(* global means one word of script 0, or is refused where it is used.      *)
THEOREM OneWordForAll == Spec => []GlobalsMeanTheSame
<1>1. GlobalsMeanTheSame
  BY GlobalNames DEF GlobalsMeanTheSame
<1> QED BY <1>1, PTL

-----------------------------------------------------------------------------
(* What is selected from the items: where does every entry come from, and  *)
(* is there one for every item that is meant?                              *)
Chosen(sel, g, items, kinds, n) ==
  /\ Len(sel) \in Nat
  /\ g \in [1..Len(sel) -> 1..n]
  /\ \A i, k \in 1..Len(sel) : g[i] = g[k] => i = k
  /\ \A i \in 1..Len(sel) : sel[i] = items[g[i]] /\ items[g[i]].kind \in kinds
  /\ \A k \in 1..n : items[k].kind \in kinds => \E i \in 1..Len(sel) : g[i] = k
IsChosen(sel, items, kinds, n) == \E g : Chosen(sel, g, items, kinds, n)

(* The next item is selected or is not.                                    *)
LEMMA ChooseNext ==
  ASSUME NEW S, NEW items \in Seq(S), NEW kinds, NEW n \in 0..Len(items), n < Len(items),
         NEW sel \in Seq(S), IsChosen(sel, items, kinds, n)
  PROVE  /\ items[n + 1].kind \in kinds => IsChosen(Append(sel, items[n + 1]), items, kinds, n + 1)
         /\ items[n + 1].kind \notin kinds => IsChosen(sel, items, kinds, n + 1)
<1>1. PICK g : Chosen(sel, g, items, kinds, n)
  BY DEF IsChosen
<1>2. ASSUME items[n + 1].kind \notin kinds PROVE Chosen(sel, g, items, kinds, n + 1)
  BY <1>1, <1>2 DEF Chosen
<1>3. ASSUME items[n + 1].kind \in kinds
      PROVE  IsChosen(Append(sel, items[n + 1]), items, kinds, n + 1)
  <2> DEFINE m == Len(sel)
             h == [i \in 1..m + 1 |-> IF i = m + 1 THEN n + 1 ELSE g[i]]
             new == Append(sel, items[n + 1])
  <2>1. items[n + 1] \in S /\ m \in Nat
    BY ElementOfSeq, LenProperties
  <2>2. /\ Len(new) = m + 1 /\ new[m + 1] = items[n + 1]
        /\ \A i \in 1..m : new[i] = sel[i]
    BY <2>1, AppendProperties
  <2>3. h \in [1..m + 1 -> 1..n + 1] /\ h[m + 1] = n + 1 /\ \A i \in 1..m : h[i] = g[i]
    BY <1>1, <2>1 DEF Chosen
  <2> HIDE DEF h, new, m
  <2>4. \A i, k \in 1..m + 1 : h[i] = h[k] => i = k
    <3> SUFFICES ASSUME NEW i \in 1..m + 1, NEW k \in 1..m + 1, h[i] = h[k] PROVE i = k
      OBVIOUS
    <3>1. \A j \in 1..m : g[j] \in 1..n
      BY <1>1 DEF Chosen, m
    <3>2. (i \in 1..m \/ i = m + 1) /\ (k \in 1..m \/ k = m + 1)
      BY <2>1
    <3> QED BY <1>1, <2>1, <2>3, <3>1, <3>2 DEF Chosen, m
  <2>5. \A i \in 1..m + 1 : new[i] = items[h[i]] /\ items[h[i]].kind \in kinds
    <3> TAKE i \in 1..m + 1
    <3>1. i \in 1..m \/ i = m + 1
      BY <2>1
    <3> QED BY <1>1, <1>3, <2>2, <2>3, <3>1 DEF Chosen, m
  <2>6. ASSUME NEW k \in 1..n + 1, items[k].kind \in kinds PROVE \E i \in 1..m + 1 : h[i] = k
    <3>1. CASE k = n + 1
      BY <2>1, <2>3, <3>1
    <3>2. CASE k \in 1..n
      <4>1. PICK i \in 1..m : g[i] = k
        BY <1>1, <2>6, <3>2 DEF Chosen, m
      <4> QED BY <2>1, <2>3, <4>1
    <3> QED BY <3>1, <3>2
  <2>7. Chosen(new, h, items, kinds, n + 1)
    BY <2>1, <2>2, <2>3, <2>4, <2>5, <2>6 DEF Chosen
  <2> QED BY <2>7 DEF IsChosen, new
<1> QED BY <1>2, <1>3 DEF IsChosen

LEMMA Selected ==
  ASSUME NEW S, NEW items \in Seq(S), NEW kinds
  PROVE  Select(items, kinds) \in Seq(S) /\ IsChosen(Select(items, kinds), items, kinds, Len(items))
<1> DEFINE n == Len(items)
           D == [x \in (1..n) \X Seq(S) |->
                   IF items[x[1]].kind \in kinds THEN Append(x[2], items[x[1]]) ELSE x[2]]
<1>1. n \in Nat /\ \A i \in 1..n : items[i] \in S
  BY LenProperties, ElementOfSeq
<1>2. D \in [(1..n) \X Seq(S) -> Seq(S)]
  <2> SUFFICES ASSUME NEW x \in (1..n) \X Seq(S)
               PROVE  (IF items[x[1]].kind \in kinds THEN Append(x[2], items[x[1]]) ELSE x[2]) \in Seq(S)
    OBVIOUS
  <2>1. x[1] \in 1..n /\ x[2] \in Seq(S) /\ items[x[1]] \in S
    BY <1>1
  <2> QED BY <2>1, AppendProperties
<1>3. \A i \in 1..n : \A v \in Seq(S) :
        D[<<i, v>>] = IF items[i].kind \in kinds THEN Append(v, items[i]) ELSE v
  OBVIOUS
<1>4. <<>> \in Seq(S)
  BY EmptySeq
<1> HIDE DEF D
<1>5. PICK f : IsIteration(f, n, Seq(S), <<>>, D)
  BY <1>1, <1>2, <1>4, IterationExists
<1> DEFINE first(h) == [i \in 0..n |->
                          IF i = 0 THEN <<>>
                          ELSE IF items[i].kind \in kinds THEN Append(h[i - 1], items[i]) ELSE h[i - 1]]
           F == CHOOSE h : h = first(h)
<1>6. f = first(f)
  <2>1. f = [i \in 0..n |-> f[i]] /\ f[0] = <<>>
    BY <1>5 DEF IsIteration
  <2>2. ASSUME NEW i \in 0..n, i # 0
        PROVE  f[i] = IF items[i].kind \in kinds THEN Append(f[i - 1], items[i]) ELSE f[i - 1]
    <3>1. i \in 1..n /\ i - 1 \in 0..n
      BY <1>1, <2>2
    <3>2. f[i] = D[<<i, f[i - 1]>>] /\ f[i - 1] \in Seq(S)
      BY <1>5, <3>1 DEF IsIteration
    <3> QED BY <1>3, <3>1, <3>2
  <2>3. \A i \in 0..n : f[i] = IF i = 0 THEN <<>>
                               ELSE IF items[i].kind \in kinds THEN Append(f[i - 1], items[i]) ELSE f[i - 1]
    BY <2>1, <2>2
  <2> QED BY <2>1, <2>3
<1>7. F = first(F)
  <2> HIDE DEF first
  <2> QED BY <1>6
<1>8. Select(items, kinds) = F[n]
  BY DEF Select
<1>9. \A i \in 0..n : F[i] = IF i = 0 THEN <<>>
                            ELSE IF items[i].kind \in kinds THEN Append(F[i - 1], items[i]) ELSE F[i - 1]
  <2> HIDE DEF F
  <2> QED BY <1>7
<1> HIDE DEF F
<1> DEFINE good == {i \in 0..n : F[i] \in Seq(S) /\ IsChosen(F[i], items, kinds, i)}
<1>10. 0 \in good
  <2>1. F[0] = <<>>
    BY <1>1, <1>9
  <2>2. Chosen(<<>>, [i \in 1..0 |-> i], items, kinds, 0)
    BY DEF Chosen
  <2>3. IsChosen(<<>>, items, kinds, 0)
    BY <2>2 DEF IsChosen
  <2>4. F[0] \in Seq(S) /\ IsChosen(F[0], items, kinds, 0)
    BY <1>4, <2>1, <2>3
  <2>5. 0 \in 0..n
    BY <1>1
  <2> QED BY <2>4, <2>5
<1>11. \A i \in 0..n : i < n /\ i \in good => i + 1 \in good
  <2> SUFFICES ASSUME NEW i \in 0..n, i < n, i \in good PROVE i + 1 \in good
    OBVIOUS
  <2>1. i + 1 \in 1..n /\ i + 1 \in 0..n /\ i + 1 # 0 /\ (i + 1) - 1 = i /\ items[i + 1] \in S
    BY <1>1
  <2>2. F[i + 1] = IF items[i + 1].kind \in kinds THEN Append(F[i], items[i + 1]) ELSE F[i]
    BY <1>9, <2>1
  <2>3. F[i] \in Seq(S) /\ IsChosen(F[i], items, kinds, i)
    OBVIOUS
  <2>4. F[i + 1] \in Seq(S)
    BY <2>1, <2>2, <2>3, AppendProperties
  <2>5. IsChosen(F[i + 1], items, kinds, i + 1)
    BY <2>2, <2>3, ChooseNext
  <2> QED BY <2>1, <2>4, <2>5
<1>12. 0..n \subseteq good
  <2>1. 0 \in Int /\ n \in Int
    BY <1>1
  <2> HIDE DEF good, n
  <2> QED BY <1>10, <1>11, <2>1, IntervalInduction
<1>13. n \in good
  BY <1>1, <1>12
<1> QED BY <1>8, <1>13

-----------------------------------------------------------------------------
(* Frames.                                                                 *)

(* The words before a temporary are those before the one before and its.   *)
LEMMA WordsAddUp ==
  ASSUME NEW temps \in Seq(VarDef)
  PROVE  /\ Len(temps) \in Nat
         /\ \A i \in 1..Len(temps) + 1 : WordsBefore(temps, i) \in Int
         /\ WordsBefore(temps, 1) = 0
         /\ \A i \in 1..Len(temps) :
              temps[i].size \in Int /\ WordsBefore(temps, i + 1) = WordsBefore(temps, i) + temps[i].size
<1> DEFINE n == Len(temps)
           D == [x \in (1..n) \X Int |-> x[2] + temps[x[1]].size]
<1>1. n \in Nat /\ 0 \in Int /\ \A i \in 1..n : temps[i].size \in Int
  <2>1. \A i \in 1..n : temps[i] \in VarDef
    BY ElementOfSeq
  <2> QED BY <2>1, LenProperties DEF VarDef
<1>2. D \in [(1..n) \X Int -> Int]
  BY <1>1
<1>3. \A i \in 1..n : \A v \in Int : D[<<i, v>>] = v + temps[i].size
  OBVIOUS
<1> HIDE DEF D
<1>4. PICK f : IsIteration(f, n, Int, 0, D)
  BY <1>1, <1>2, IterationExists
<1> DEFINE words(h) == [i \in 0..n |-> IF i = 0 THEN 0 ELSE h[i - 1] + temps[i].size]
           F == CHOOSE h : h = words(h)
<1>5. f = words(f)
  <2>1. f = [i \in 0..n |-> f[i]] /\ f[0] = 0
    BY <1>4 DEF IsIteration
  <2>2. \A i \in 0..n : i # 0 => f[i] = f[i - 1] + temps[i].size
    BY <1>1, <1>3, <1>4, SMTT(30) DEF IsIteration
  <2> QED BY <2>1, <2>2
<1>6. F = words(F)
  <2> HIDE DEF words
  <2> QED BY <1>5
<1>7. \A i \in 0..n : F[i] = IF i = 0 THEN 0 ELSE F[i - 1] + temps[i].size
  <2> HIDE DEF F
  <2> QED BY <1>6
<1>8. \A i : WordsBefore(temps, i) = F[i - 1]
  BY DEF WordsBefore
<1> HIDE DEF F
<1> DEFINE good == {i \in 0..n : F[i] \in Int}
<1>9. 0..n \subseteq good
  <2>1. 0 \in Int /\ n \in Int /\ 0 \in good
    BY <1>1, <1>7
  <2>2. \A i \in 0..n : i < n /\ i \in good => i + 1 \in good
    BY <1>1, <1>7
  <2> HIDE DEF good, n
  <2> QED BY <2>1, <2>2, IntervalInduction
<1>10. \A i \in 1..n + 1 : WordsBefore(temps, i) \in Int
  BY <1>1, <1>8, <1>9
<1>11. \A i \in 1..n : WordsBefore(temps, i + 1) = WordsBefore(temps, i) + temps[i].size
  <2> TAKE i \in 1..n
  <2>1. i \in 0..n /\ i # 0 /\ (i + 1) - 1 = i
    BY <1>1
  <2> QED BY <1>7, <1>8, <2>1
<1> QED BY <1>1, <1>7, <1>8, <1>10, <1>11

(* No size below zero: what comes later has as many words before it.       *)
LEMMA WordsGrow ==
  ASSUME NEW temps \in Seq(VarDef), \A i \in 1..Len(temps) : temps[i].size >= 0,
         NEW i \in 1..Len(temps) + 1, NEW k \in 1..Len(temps) + 1, i <= k
  PROVE  WordsBefore(temps, i) <= WordsBefore(temps, k)
<1> DEFINE n == Len(temps)
           W(j) == WordsBefore(temps, j)
           good == {j \in i..n + 1 : W(i) <= W(j)}
<1>1. /\ n \in Nat /\ \A j \in 1..n + 1 : W(j) \in Int
      /\ \A j \in 1..n : temps[j].size \in Int /\ W(j + 1) = W(j) + temps[j].size
  BY WordsAddUp
<1> HIDE DEF W
<1>2. i \in good /\ i \in Int /\ n + 1 \in Int
  BY <1>1
<1>3. \A j \in i..n + 1 : j < n + 1 /\ j \in good => j + 1 \in good
  <2> SUFFICES ASSUME NEW j \in i..n + 1, j < n + 1, W(i) <= W(j) PROVE W(i) <= W(j + 1)
    BY <1>1
  <2>1. j \in 1..n /\ W(j + 1) = W(j) + temps[j].size /\ temps[j].size \in Int /\ temps[j].size >= 0
    BY <1>1
  <2> QED BY <1>1, <2>1
<1>4. i..n + 1 \subseteq good
  <2> HIDE DEF good, n
  <2> QED BY <1>2, <1>3, IntervalInduction
<1>5. k \in i..n + 1
  BY <1>1
<1> QED BY <1>4, <1>5 DEF W

(* The first of the places a name has in a list.                           *)
LEMMA FirstPlace ==
  ASSUME NEW list, Len(list) \in Nat, NEW i0 \in 1..Len(list)
  PROVE  /\ FirstOf(list, list[i0]) \in 1..Len(list)
         /\ list[FirstOf(list, list[i0])] = list[i0]
         /\ \A k \in 1..(FirstOf(list, list[i0]) - 1) : list[k] # list[i0]
<1> DEFINE places == {i \in 1..Len(list) : list[i] = list[i0]}
<1>1. PICK i \in places : \A k \in places : i <= k
  <2>1. places \subseteq Nat /\ places # {}
    OBVIOUS
  <2> HIDE DEF places
  <2> QED BY <2>1, LeastNatural
<1>2. i \in 1..Len(list) /\ list[i] = list[i0] /\ \A k \in 1..(i - 1) : list[k] # list[i0]
  BY <1>1
<1> QED BY <1>2 DEF FirstOf

(* The frame of a body: every parameter has an offset of its own, and the  *)
(* words of the temporaries lie side by side.                              *)
FrameIsSound(frame, item) ==
  LET words(name) == frame.temps[name]..(frame.temps[name] + SizeOf(item.temps, name) - 1)
  IN  /\ IsInjective(frame.params)
      /\ (\A t \in Range(item.temps) : t.size >= 0) =>
           /\ \A a \in DOMAIN frame.temps : words(a) \subseteq 0..(frame.size - 1)
           /\ \A a, b \in DOMAIN frame.temps : a # b => words(a) \cap words(b) = {}

LEMMA FramesAreSound ==
  ASSUME NEW body, body.item \in ProcDef
  PROVE  FrameIsSound(FrameOf(body), body.item)
<1> DEFINE params == Params(body.item)
           temps == body.item.temps
           names == [i \in 1..Len(temps) |-> temps[i].name]
           frame == FrameOf(body)
           W(i) == WordsBefore(temps, i)
<1>1. params \in Seq(STRING \cup {"argc"}) /\ temps \in Seq(VarDef)
  <2>1. body.item.params \in Seq(STRING \cup {"argc"}) /\ temps \in Seq(VarDef)
    BY DEF ProcDef
  <2>2. <<"argc">> \in Seq(STRING \cup {"argc"})
    OBVIOUS
  <2> QED BY <2>1, <2>2, ConcatProperties DEF Params
<1>2. /\ frame.params = [n \in Range(params) |-> FirstOf(params, n) - 1]
      /\ frame.temps = [n \in Range(names) |-> W(FirstOf(names, n))]
      /\ frame.size = W(Len(temps) + 1)
  BY DEF FrameOf
<1> HIDE DEF frame, params, W
<1>3. ASSUME NEW n \in Range(params)
      PROVE  FirstOf(params, n) \in 1..Len(params) /\ params[FirstOf(params, n)] = n
  <2>1. PICK i \in 1..Len(params) : params[i] = n
    BY <1>1, LenProperties DEF Range
  <2>2. Len(params) \in Nat
    BY <1>1, LenProperties
  <2> QED BY <2>1, <2>2, FirstPlace
<1>4. IsInjective(frame.params)
  <2> SUFFICES ASSUME NEW a \in Range(params), NEW b \in Range(params),
                      FirstOf(params, a) - 1 = FirstOf(params, b) - 1
               PROVE  a = b
    BY <1>2 DEF IsInjective
  <2>1. FirstOf(params, a) = FirstOf(params, b)
    BY <1>1, <1>3, LenProperties
  <2> QED BY <1>3, <2>1
<1>5. Len(temps) \in Nat /\ Len(names) = Len(temps)
  BY <1>1, LenProperties
<1>6. ASSUME NEW name \in Range(names)
      PROVE  /\ FirstOf(names, name) \in 1..Len(temps)
             /\ temps[FirstOf(names, name)].name = name
             /\ SizeOf(temps, name) = temps[FirstOf(names, name)].size
  <2> DEFINE i == FirstOf(names, name)
             j == CHOOSE j \in 1..Len(temps) :
                    temps[j].name = name /\ \A k \in 1..(j - 1) : temps[k].name # name
  <2>1. PICK i0 \in 1..Len(temps) : names[i0] = name
    BY <1>5 DEF Range
  <2>2. i \in 1..Len(temps) /\ names[i] = name /\ \A k \in 1..(i - 1) : names[k] # name
    <3>1. Len(names) \in Nat /\ i0 \in 1..Len(names)
      BY <1>5, <2>1
    <3> HIDE DEF names
    <3> QED BY <1>5, <2>1, <3>1, FirstPlace
  <2>3. SizeOf(temps, name) = temps[j].size
    BY DEF SizeOf
  <2> HIDE DEF i
  <2>4. temps[i].name = name /\ \A k \in 1..(i - 1) : temps[k].name # name
    <3>1. \A k \in 1..Len(temps) : names[k] = temps[k].name
      OBVIOUS
    <3>2. \A k \in 1..(i - 1) : k \in 1..Len(temps)
      BY <1>5, <2>2
    <3> HIDE DEF names
    <3> QED BY <2>2, <3>1, <3>2
  <2>5. j \in 1..Len(temps) /\ temps[j].name = name /\ \A k \in 1..(j - 1) : temps[k].name # name
    BY <2>2, <2>4
  <2> HIDE DEF j
  <2>6. i = j
    BY <1>5, <2>2, <2>4, <2>5
  <2> QED BY <2>2, <2>3, <2>4, <2>6 DEF i
<1>7. ASSUME \A t \in Range(temps) : t.size >= 0
      PROVE  /\ \A i \in 1..Len(temps) : temps[i].size >= 0
             /\ \A i \in 1..Len(temps) : temps[i].size \in Int /\ W(i) + temps[i].size = W(i + 1)
             /\ \A i, k \in 1..Len(temps) + 1 : W(i) \in Int /\ (i <= k => W(i) <= W(k))
             /\ W(1) = 0
  <2>1. \A i \in 1..Len(temps) : temps[i].size >= 0
    BY <1>1, <1>7, LenProperties DEF Range
  <2> QED BY <1>1, <2>1, WordsAddUp, WordsGrow DEF W
<1> DEFINE words(name) == frame.temps[name]..(frame.temps[name] + SizeOf(temps, name) - 1)
           place(name) == FirstOf(names, name)
<1>8. ASSUME \A t \in Range(temps) : t.size >= 0, NEW a \in Range(names)
      PROVE  words(a) = W(place(a))..W(place(a) + 1) - 1 /\ place(a) \in 1..Len(temps)
  <2> HIDE DEF names
  <2>1. place(a) \in 1..Len(temps) /\ SizeOf(temps, a) = temps[place(a)].size
    BY <1>6, <1>8
  <2>2. frame.temps[a] = W(place(a))
    BY <1>2, <1>8
  <2>3. /\ W(place(a)) + SizeOf(temps, a) = W(place(a) + 1)
        /\ W(place(a)) \in Int /\ SizeOf(temps, a) \in Int
    BY <1>5, <1>7, <1>8, <2>1
  <2> QED BY <2>1, <2>2, <2>3
<1> HIDE DEF words, place, names
<1>9. ASSUME \A t \in Range(temps) : t.size >= 0, NEW a \in Range(names)
      PROVE  words(a) \subseteq 0..(frame.size - 1)
  <2>1. /\ 0 <= W(place(a)) /\ W(place(a)) \in Int
        /\ W(place(a) + 1) <= W(Len(temps) + 1) /\ W(place(a) + 1) \in Int /\ W(Len(temps) + 1) \in Int
    <3>1. /\ place(a) \in 1..Len(temps) + 1 /\ 1 \in 1..Len(temps) + 1 /\ 1 <= place(a)
          /\ place(a) + 1 \in 1..Len(temps) + 1 /\ place(a) + 1 <= Len(temps) + 1
          /\ Len(temps) + 1 \in 1..Len(temps) + 1
      BY <1>5, <1>8, <1>9
    <3> QED BY <1>7, <1>9, <3>1
  <2> QED BY <1>2, <1>8, <1>9, <2>1
<1>10. ASSUME \A t \in Range(temps) : t.size >= 0,
              NEW a \in Range(names), NEW b \in Range(names), place(a) < place(b)
       PROVE  words(a) \cap words(b) = {}
  <2>1. W(place(a) + 1) <= W(place(b)) /\ W(place(a) + 1) \in Int /\ W(place(b)) \in Int
    <3>1. /\ place(a) \in 1..Len(temps) /\ place(b) \in 1..Len(temps)
          /\ place(a) + 1 \in 1..Len(temps) + 1 /\ place(b) \in 1..Len(temps) + 1
          /\ place(a) + 1 <= place(b)
      BY <1>5, <1>8, <1>10
    <3> QED BY <1>7, <1>10, <3>1
  <2>2. /\ words(a) = W(place(a))..W(place(a) + 1) - 1
        /\ words(b) = W(place(b))..W(place(b) + 1) - 1
    BY <1>8, <1>10
  <2>3. W(place(a)) \in Int /\ W(place(b) + 1) \in Int
    <3>1. place(a) \in 1..Len(temps) + 1 /\ place(b) + 1 \in 1..Len(temps) + 1
      BY <1>5, <1>8, <1>10
    <3> QED BY <1>7, <1>10, <3>1
  <2> QED BY <2>1, <2>2, <2>3
<1>11. ASSUME \A t \in Range(temps) : t.size >= 0,
              NEW a \in Range(names), NEW b \in Range(names), a # b
       PROVE  words(a) \cap words(b) = {}
  <2>1. place(a) \in 1..Len(temps) /\ place(b) \in 1..Len(temps) /\ place(a) # place(b)
    BY <1>6, <1>11 DEF place
  <2>2. place(a) < place(b) \/ place(b) < place(a)
    BY <1>5, <2>1
  <2> QED BY <1>10, <1>11, <2>2
<1>12. DOMAIN frame.temps = Range(names)
  BY <1>2
<1> QED BY <1>4, <1>9, <1>11, <1>12 DEF FrameIsSound, words, frame

-----------------------------------------------------------------------------
(* What the items of a program are.                                        *)
LEMMA ProgramTypes ==
  ASSUME program \in Programs
  PROVE  /\ Decls \in Seq(GlobalDeclDef) /\ Len(Decls) \in Nat
         /\ Len(program.modules) \in Nat \ {0}
         /\ \A s \in Modules :
              LET items == program.modules[s].items
              IN  /\ items \in Seq(ModuleItem) /\ ScriptNum(s) \in Nat
                  /\ Definitions(s) \in Seq(ModuleItem) /\ Len(Definitions(s)) \in Nat
                  /\ \A d \in 1..Len(Definitions(s)) :
                       Definitions(s)[d] \in ProcDef \cup ClassDef /\ Definitions(s)[d].kind \in DefinitionKind
                  /\ \A kind : Len(Items(s, kind)) \in Nat
<1>1. /\ program.global \in Seq(GlobalItem)
      /\ Len(program.modules) \in Nat \ {0}
      /\ \A s \in Modules : program.modules[s] \in [script : Nat, items : Seq(ModuleItem)]
  <2> DEFINE R == [script : Nat, items : Seq(ModuleItem)]
  <2>1. /\ program.global \in Seq(GlobalItem) /\ Len(program.modules) > 0
        /\ program.modules \in Seq(R)
    BY ProgramAssumption
  <2> HIDE DEF R
  <2>2. Len(program.modules) \in Nat /\ \A s \in 1..Len(program.modules) : program.modules[s] \in R
    BY <2>1, LenProperties, ElementOfSeq
  <2> QED BY <2>1, <2>2 DEF Modules, R
<1>2. Decls \in Seq(GlobalDeclDef)
  <2>1. Decls \in Seq(GlobalItem) /\ IsChosen(Decls, program.global, {"globaldecl"}, Len(program.global))
    BY <1>1, Selected DEF Decls, Elems
  <2>2. PICK g : Chosen(Decls, g, program.global, {"globaldecl"}, Len(program.global))
    BY <2>1 DEF IsChosen
  <2>3. \A i \in 1..Len(Decls) : Decls[i] \in GlobalItem /\ Decls[i].kind = "globaldecl"
    BY <2>1, <2>2, ElementOfSeq DEF Chosen
  <2>4. \A i \in 1..Len(Decls) : Decls[i] \in GlobalDeclDef
    BY <2>3 DEF GlobalItem, ExternDef, ClassDecl
  <2>5. Decls = [i \in 1..Len(Decls) |-> Decls[i]] /\ Len(Decls) \in Nat
    BY <2>1, LenProperties
  <2> QED BY <2>4, <2>5, IsASeq
<1>3. ASSUME NEW s \in Modules
      PROVE  /\ program.modules[s].items \in Seq(ModuleItem) /\ ScriptNum(s) \in Nat
             /\ Definitions(s) \in Seq(ModuleItem) /\ Len(Definitions(s)) \in Nat
             /\ \A d \in 1..Len(Definitions(s)) :
                  Definitions(s)[d] \in ProcDef \cup ClassDef /\ Definitions(s)[d].kind \in DefinitionKind
             /\ \A kind : Len(Items(s, kind)) \in Nat
  <2> DEFINE items == program.modules[s].items
  <2>1. items \in Seq(ModuleItem) /\ ScriptNum(s) \in Nat
    BY <1>1 DEF ScriptNum
  <2>2. Definitions(s) \in Seq(ModuleItem) /\ IsChosen(Definitions(s), items, DefinitionKind, Len(items))
    BY <2>1, Selected DEF Definitions
  <2>3. PICK g : Chosen(Definitions(s), g, items, DefinitionKind, Len(items))
    BY <2>2 DEF IsChosen
  <2>4. ASSUME NEW d \in 1..Len(Definitions(s))
        PROVE  Definitions(s)[d] \in ProcDef \cup ClassDef /\ Definitions(s)[d].kind \in DefinitionKind
    <3>1. Definitions(s)[d] \in ModuleItem /\ Definitions(s)[d].kind \in DefinitionKind
      BY <2>2, <2>3, ElementOfSeq DEF Chosen
    <3> QED BY <3>1 DEF ModuleItem, ModuleVarsDef, PublicDef, ClassDecl, DefinitionKind
  <2>5. \A kind : Len(Items(s, kind)) \in Nat
    BY <2>1, Selected, LenProperties DEF Items, Elems
  <2> QED BY <2>1, <2>2, <2>4, <2>5, LenProperties
<1> QED BY <1>1, <1>2, <1>3, LenProperties

-----------------------------------------------------------------------------
(* The declarations, up to one of them.                                    *)
Declared(n) ==
  /\ \A i, k \in 1..n : (Decls[i].name = Decls[k].name) <=> (Decls[i].index = Decls[k].index)
  /\ Range(globals) = {Decls[i] : i \in 1..n}
Agree ==
  \A i, k \in 1..Len(Decls) : (Decls[i].name = Decls[k].name) <=> (Decls[i].index = Decls[k].index)

DeclInv ==
  /\ stage \in ClassStages \cup {"externs"} => globals = <<>>
  /\ stage = "globals" => pos <= Len(Decls) + 1 /\ Declared(pos - 1)
  /\ stage \in Late => Declared(Len(Decls))

LEMMA DeclaredStays ==
  ASSUME UNCHANGED <<program, globals>>
  PROVE  Decls' = Decls /\ \A n : Declared(n)' <=> Declared(n)
BY SameProgram DEF Declared

(* Nothing is declared but what the declarations say.                      *)
LEMMA DeclareStep ==
  ASSUME TablesInv, Place, DeclInv, DeclareVar
  PROVE  DeclInv'
<1> DEFINE n == Len(Decls)
<1>1. /\ stage = "globals" /\ pos \in 1..n /\ Declared(pos - 1)
      /\ pos' = pos + 1 /\ UNCHANGED <<program, stage, at>> /\ Item = Decls[pos]
  BY DEF Place, DeclInv, DeclareVar, At, Advance, ListOf, Item, Decls
<1>2. Decls \in Seq(GlobalDeclDef) /\ n \in Nat /\ \A i \in 1..n : Decls[i] \in GlobalDeclDef
  BY ProgramTypes, ElementOfSeq DEF Place
<1>3. PICK S : globals \in Seq(S)
  BY DEF TablesInv, IsTable
<1>4. Len(globals) \in Nat /\ DOMAIN globals = 1..Len(globals)
  BY <1>3, LenProperties
<1>5. \A i \in 1..Len(globals) : \E k \in 1..pos - 1 : globals[i] = Decls[k]
  BY <1>1, <1>4 DEF Declared, Range
<1>6. \A k \in 1..pos - 1 : \E i \in 1..Len(globals) : globals[i] = Decls[k]
  BY <1>1, <1>4 DEF Declared, Range
<1>7. ASSUME Range(globals') = Range(globals) \cup {Item},
             \A k \in 1..pos - 1 : (Decls[k].name = Item.name) <=> (Decls[k].index = Item.index)
      PROVE  DeclInv'
  <2>1. \A k \in 1..pos : k \in 1..pos - 1 \/ k = pos
    BY <1>1
  <2>2. Range(globals') = {Decls[i] : i \in 1..pos}
    BY <1>1, <1>7, <2>1 DEF Declared
  <2>3. \A i, k \in 1..pos : (Decls[i].name = Decls[k].name) <=> (Decls[i].index = Decls[k].index)
    BY <1>1, <1>7, <2>1 DEF Declared
  <2>4. Decls' = Decls /\ pos' - 1 = pos
    BY <1>1, SameProgram
  <2>5. Declared(pos - 1)'
    BY <2>2, <2>3, <2>4 DEF Declared
  <2>6. stage' = "globals" /\ pos' <= Len(Decls) + 1
    BY <1>1, <1>2
  <2> QED BY <2>4, <2>5, <2>6 DEF DeclInv, ClassStages, Late, Early
<1>8. CASE IsDeclared(Item) /\ UNCHANGED globals
  <2>1. PICK i \in 1..Len(globals) : globals[i].name = Item.name /\ globals[i].index = Item.index
    BY <1>8 DEF IsDeclared
  <2>2. globals[i] \in GlobalDeclDef /\ Item \in GlobalDeclDef
    BY <1>1, <1>2, <1>5
  <2>3. globals[i] = Item
    BY <2>1, <2>2 DEF GlobalDeclDef
  <2>4. Range(globals') = Range(globals) \cup {Item}
    BY <1>4, <1>8, <2>3 DEF Range
  <2>5. ASSUME NEW k \in 1..pos - 1
        PROVE  (Decls[k].name = Item.name) <=> (Decls[k].index = Item.index)
    <3>1. PICK j \in 1..Len(globals) : globals[j] = Decls[k]
      BY <1>6
    <3>2. /\ globals[j].name = globals[i].name => j = i
          /\ globals[j].index = globals[i].index => j = i
      BY DEF TablesInv, UniqueNames, UniqueIndexes
    <3> QED BY <2>3, <3>1, <3>2
  <2> QED BY <1>7, <2>4, <2>5
<1>9. CASE CanDeclareVar(Item) /\ globals' = Append(globals, Item)
  <2>1. /\ Len(globals') = Len(globals) + 1 /\ DOMAIN globals' = 1..Len(globals) + 1
        /\ \A i \in 1..Len(globals) : globals'[i] = globals[i]
        /\ globals'[Len(globals) + 1] = Item
    <3>1. globals \in Seq(S \cup {Item}) /\ Item \in S \cup {Item}
      BY <1>3
    <3> QED BY <1>9, <3>1, AppendProperties, LenProperties
  <2>2. Range(globals') = Range(globals) \cup {Item}
    <3>1. \A i \in 1..Len(globals) + 1 : i \in 1..Len(globals) \/ i = Len(globals) + 1
      BY <1>4
    <3>2. Len(globals) + 1 \in 1..Len(globals) + 1 /\ 1..Len(globals) \subseteq 1..Len(globals) + 1
      BY <1>4
    <3> QED BY <1>4, <2>1, <3>1, <3>2 DEF Range
  <2>3. \A k \in 1..pos - 1 : Decls[k].name # Item.name /\ Decls[k].index # Item.index
    BY <1>6, <1>9 DEF CanDeclareVar, Names, Indexes
  <2> QED BY <1>7, <2>2, <2>3
<1> QED BY <1>8, <1>9 DEF DeclareVar

(* What is refused disagrees with a declaration before it.                 *)
LEMMA RefusedVar ==
  ASSUME TablesInv, Place, DeclInv, At("globals"), ~IsDeclared(Item), ~CanDeclareVar(Item)
  PROVE  ~Agree
<1> DEFINE n == Len(Decls)
<1>1. stage = "globals" /\ pos \in 1..n /\ n \in Nat /\ Declared(pos - 1) /\ Item = Decls[pos]
  BY ProgramTypes DEF Place, DeclInv, At, ListOf, Item, Decls
<1>2. PICK S : globals \in Seq(S)
  BY DEF TablesInv, IsTable
<1>3. PICK i \in 1..Len(globals) : globals[i].name = Item.name \/ globals[i].index = Item.index
  BY DEF CanDeclareVar, Names, Indexes
<1>4. ~(globals[i].name = Item.name /\ globals[i].index = Item.index)
  BY DEF IsDeclared
<1>5. PICK k \in 1..pos - 1 : globals[i] = Decls[k]
  BY <1>1, <1>2, LenProperties DEF Declared, Range
<1>6. k \in 1..n /\ pos \in 1..n
  BY <1>1
<1> QED BY <1>1, <1>3, <1>4, <1>5, <1>6 DEF Agree

LEMMA DeclStep ==
  ASSUME TablesInv, Place, DeclInv, [Next]_vars
  PROVE  DeclInv'
<1>1. CASE DeclareVar
  BY <1>1, DeclareStep
<1>2. CASE AddClassDecl \/ AddClassDef \/ CopyClass \/ AddExtern \/ AddProcedure \/ AddPublic
           \/ DefineVar \/ BuildDefinition \/ Dispatch
  <2>1. stage \in ClassStages \cup {"externs"} \cup Late /\ UNCHANGED <<program, globals, stage>>
    BY <1>2 DEF AddClassDecl, AddClassDef, CopyClass, AddExtern, AddProcedure, AddPublic, DefineVar,
                BuildDefinition, Dispatch, Add, Advance, At, env, ClassStages, Early, Late
  <2> QED BY <2>1, DeclaredStays DEF DeclInv, ClassStages, Early, Late
<1>3. CASE EndStage
  <2>1. UNCHANGED <<program, globals>> /\ pos > Len(ListOf(stage)) /\ pos' = 1
    BY <1>3 DEF EndStage, Go, env
  <2>2. CASE stage \in ClassStages /\ stage' \in ClassStages \cup {"externs"}
    BY <2>1, <2>2 DEF DeclInv, ClassStages, Early, Late
  <2>3. CASE stage = "externs" /\ stage' = "globals"
    <3>1. globals' = <<>>
      BY <2>1, <2>3 DEF DeclInv
    <3>2. Declared(0)'
      BY <3>1 DEF Declared, Range
    <3>3. Declared(pos - 1)' /\ pos' <= Len(Decls') + 1
      <4>1. pos' - 1 = 0 /\ Len(Decls') \in Nat
        BY <2>1, ProgramTypes, DeclaredStays DEF Place
      <4> QED BY <2>1, <3>2, <4>1 DEF Declared
    <3> QED BY <2>3, <3>3 DEF DeclInv, ClassStages, Early, Late
  <2>4. CASE stage = "globals" /\ stage' = "procs"
    <3>1. pos - 1 = Len(Decls)
      BY <2>1, <2>4, ProgramTypes DEF Place, DeclInv, ListOf, Decls
    <3>2. Declared(Len(Decls))'
      BY <2>1, <2>4, <3>1, DeclaredStays DEF DeclInv
    <3> QED BY <2>4, <3>2 DEF DeclInv, ClassStages, Early, Late
  <2>5. CASE stage \in Late /\ stage' \in Late
    <3>1. Declared(Len(Decls))'
      BY <2>1, <2>5, DeclaredStays DEF DeclInv
    <3> QED BY <2>5, <3>1 DEF DeclInv, ClassStages, Early, Late
  <2> QED BY <1>3, <2>2, <2>3, <2>4, <2>5 DEF EndStage, Go, ClassStages, Early, Late
<1>4. CASE Fail \/ Crash
  <2>1. stage' \in {"failed", "crashed"}
    BY <1>4 DEF Fail, Crash, End
  <2> QED BY <2>1 DEF DeclInv, ClassStages, Early, Late
<1>5. CASE Terminated \/ UNCHANGED vars
  <2>1. UNCHANGED <<program, globals, stage, pos>>
    BY <1>5 DEF Terminated, vars, env
  <2> QED BY <2>1, DeclaredStays DEF DeclInv
<1> QED BY <1>1, <1>2, <1>3, <1>4, <1>5 DEF Next

-----------------------------------------------------------------------------
(* Where the compilation is.  The code of some source is built, and then   *)
(* that of the one with the next number.                                   *)
LEMMA SourceNumbers ==
  ASSUME Place
  PROVE  /\ 1 \in Modules /\ After(-1) = Built /\ Built # {} /\ Built \subseteq Modules
         /\ \A s \in Modules : ScriptNum(s) \in Nat
<1>1. Len(program.modules) \in Nat \ {0} /\ \A s \in Modules : ScriptNum(s) \in Nat
  BY ProgramTypes DEF Place
<1>2. 1 \in Modules /\ 1 \in Built /\ Built \subseteq Modules
  BY <1>1 DEF Modules, Built
<1>3. After(-1) = Built
  BY <1>1, <1>2 DEF After
<1> QED BY <1>1, <1>2, <1>3

LEMMA NextNumber ==
  ASSUME Place, NEW n, After(n) # {}
  PROVE  /\ NextScript(n) \in After(n)
         /\ \A t \in After(n) : ScriptNum(NextScript(n)) <= ScriptNum(t)
<1> DEFINE numbers == {ScriptNum(s) : s \in After(n)}
<1>1. After(n) \subseteq Modules
  BY SourceNumbers DEF After
<1>2. numbers \subseteq Nat /\ numbers # {}
  BY <1>1, SourceNumbers
<1>3. PICK x \in numbers : \A y \in numbers : x <= y
  <2> HIDE DEF numbers
  <2> QED BY <1>2, LeastNatural
<1>4. \E s \in After(n) : \A t \in After(n) : ScriptNum(s) <= ScriptNum(t)
  BY <1>3
<1> QED BY <1>4 DEF NextScript

LEMMA PlaceStep ==
  ASSUME Place, [Next]_vars
  PROVE  Place'
<1>1. CASE AddClassDecl \/ AddClassDef \/ CopyClass \/ AddExtern \/ DeclareVar \/ AddProcedure
           \/ AddPublic \/ DefineVar \/ BuildDefinition \/ Dispatch
  <2>1. pos' = pos + 1 /\ UNCHANGED <<program, stage, at>>
    BY <1>1 DEF AddClassDecl, AddClassDef, CopyClass, AddExtern, DeclareVar, AddProcedure, AddPublic,
                DefineVar, Add, BuildDefinition, Dispatch, Advance
  <2> QED BY <2>1 DEF Place, Modules
<1>2. CASE EndStage
  <2>1. pos' = 1 /\ UNCHANGED program
    BY <1>2 DEF EndStage, Go
  <2>2. at' \in Modules
    <3>1. 1 \in Modules /\ (at < Len(program.modules) => at + 1 \in Modules) /\ at \in Modules
      BY ProgramTypes DEF Place, Modules
    <3>2. \A n : After(n) # {} => NextScript(n) \in Modules
      BY NextNumber, SourceNumbers DEF After
    <3>3. NextScript(-1) \in Modules
      BY <3>2, SourceNumbers
    <3> QED BY <1>2, <3>1, <3>2, <3>3 DEF EndStage, Go
  <2>3. stage' \in Stages
    BY <1>2 DEF EndStage, Go, Stages, ClassStages, Early, Late
  <2> QED BY <2>1, <2>2, <2>3 DEF Place, Modules
<1>3. CASE Fail \/ Crash \/ Terminated \/ UNCHANGED vars
  <2>1. UNCHANGED <<program, at, pos>> /\ stage' \in {"failed", "crashed", stage}
    BY <1>3 DEF Fail, Crash, End, Terminated, vars
  <2> QED BY <2>1 DEF Place, Modules, Stages
<1> QED BY <1>1, <1>2, <1>3 DEF Next

-----------------------------------------------------------------------------
(* Which classes there are: every defined one, with the source it is in,   *)
(* and declared ones, with none.                                           *)
IsKind(s, name, kind) == name \in Names(Items(s, kind))

(* The definition of a class has been added.                               *)
IsPast(s, i) ==
  \/ stage \in {"copies", "externs", "globals"} \cup Late
  \/ stage = "classdefs" /\ (s < at \/ (s = at /\ i < pos))

ClassesInv ==
  /\ IsTable(declared) /\ \A i \in 1..Len(declared) : declared[i].module = NoModule
  /\ IsTable(classes) /\ UniqueNames(classes)
  /\ \A i \in 1..Len(classes) :
       classes[i].module # NoModule =>
         /\ classes[i].module \in Modules
         /\ classes[i].script = ScriptNum(classes[i].module)
         /\ IsKind(classes[i].module, classes[i].name, "class")
  /\ \A s \in Modules : \A i \in 1..Len(Items(s, "class")) :
       IsPast(s, i) =>
         \E k \in 1..Len(classes) : classes[k].name = Items(s, "class")[i].name /\ classes[k].module = s

LEMMA ClassesStay ==
  ASSUME ClassesInv, UNCHANGED <<program, declared, classes>>,
         \A s \in Modules : \A i \in 1..Len(Items(s, "class")) : IsPast(s, i)' => IsPast(s, i)
  PROVE  ClassesInv'
<1>1. Modules' = Modules /\ (\A s : ScriptNum(s)' = ScriptNum(s))
      /\ \A s, kind : Items(s, kind)' = Items(s, kind)
  BY SameProgram
<1>2. \A s, name, kind : IsKind(s, name, kind)' <=> IsKind(s, name, kind)
  BY <1>1 DEF IsKind
<1>3. \A s \in Modules : \A i \in 1..Len(Items(s, "class")) : IsPast(s, i)' =>
        \E k \in 1..Len(classes) : classes[k].name = Items(s, "class")[i].name /\ classes[k].module = s
  BY DEF ClassesInv
<1>4. \A s \in Modules' : \A i \in 1..Len(Items(s, "class")') : IsPast(s, i)' =>
        \E k \in 1..Len(classes') : classes'[k].name = Items(s, "class")'[i].name /\ classes'[k].module = s
  BY <1>1, <1>3
<1> QED BY <1>1, <1>2, <1>4 DEF ClassesInv

(* One more class, which is declared, or defined where the compilation is. *)
LEMMA NewClass ==
  ASSUME ClassesInv, NEW class, class.name \notin Names(classes),
         UNCHANGED <<program, declared>>, classes' = Append(classes, class),
         class.module # NoModule =>
           /\ class.module \in Modules /\ class.script = ScriptNum(class.module)
           /\ IsKind(class.module, class.name, "class"),
         \A s \in Modules : \A i \in 1..Len(Items(s, "class")) :
           IsPast(s, i)' =>
             IsPast(s, i) \/ (class.name = Items(s, "class")[i].name /\ class.module = s)
  PROVE  ClassesInv'
<1>1. Modules' = Modules /\ (\A s : ScriptNum(s)' = ScriptNum(s))
      /\ \A s, kind : Items(s, kind)' = Items(s, kind)
  BY SameProgram
<1>2. \A s, name, kind : IsKind(s, name, kind)' <=> IsKind(s, name, kind)
  BY <1>1 DEF IsKind
<1>3. IsTable(classes) /\ UniqueNames(classes)
  BY DEF ClassesInv
<1>4. /\ IsTable(classes') /\ UniqueNames(classes')
      /\ Len(classes) \in Nat /\ Len(classes') = Len(classes) + 1
      /\ \A i \in 1..Len(classes) : classes'[i] = classes[i]
      /\ classes'[Len(classes) + 1] = class
  BY <1>3, AppendToTable, NewName
<1>5. \A i \in 1..Len(classes') : i \in 1..Len(classes) \/ i = Len(classes) + 1
  BY <1>4
<1>6. \A i \in 1..Len(classes') :
        classes'[i].module # NoModule =>
          /\ classes'[i].module \in Modules
          /\ classes'[i].script = ScriptNum(classes'[i].module)
          /\ IsKind(classes'[i].module, classes'[i].name, "class")
  BY <1>4, <1>5 DEF ClassesInv
<1>7. ASSUME NEW s \in Modules, NEW i \in 1..Len(Items(s, "class")), IsPast(s, i)'
      PROVE  \E k \in 1..Len(classes') :
               classes'[k].name = Items(s, "class")[i].name /\ classes'[k].module = s
  <2>1. CASE IsPast(s, i)
    <3>1. PICK k \in 1..Len(classes) :
            classes[k].name = Items(s, "class")[i].name /\ classes[k].module = s
      BY <2>1 DEF ClassesInv
    <3>2. k \in 1..Len(classes') /\ classes'[k] = classes[k]
      BY <1>4
    <3> QED BY <3>1, <3>2
  <2>2. CASE class.name = Items(s, "class")[i].name /\ class.module = s
    <3>1. Len(classes) + 1 \in 1..Len(classes')
      BY <1>4
    <3> QED BY <1>4, <2>2, <3>1
  <2> QED BY <1>7, <2>1, <2>2
<1>8. \A s \in Modules' : \A i \in 1..Len(Items(s, "class")') : IsPast(s, i)' =>
        \E k \in 1..Len(classes') : classes'[k].name = Items(s, "class")'[i].name /\ classes'[k].module = s
  BY <1>1, <1>7
<1>9. \A i \in 1..Len(classes') :
        classes'[i].module # NoModule =>
          /\ classes'[i].module \in Modules'
          /\ classes'[i].script = (ScriptNum(classes[i].module))'
          /\ (IsKind(classes[i].module, classes[i].name, "class"))'
  BY <1>1, <1>2, <1>6
<1> QED BY <1>4, <1>8, <1>9 DEF ClassesInv

LEMMA ClassesStep ==
  ASSUME Place, ClassesInv, [Next]_vars
  PROVE  ClassesInv'
<1>1. CASE AddClassDecl
  <2>1. /\ stage \in {"globalclasses", "classdecls"} /\ UNCHANGED <<program, classes, stage>>
        /\ declared' = Append(declared, DeclaredClass(Item))
    BY <1>1 DEF AddClassDecl, At, Advance
  <2>2. /\ IsTable(declared') /\ Len(declared) \in Nat /\ Len(declared') = Len(declared) + 1
        /\ \A i \in 1..Len(declared) : declared'[i] = declared[i]
        /\ declared'[Len(declared) + 1] = DeclaredClass(Item)
    BY <2>1, AppendToTable DEF ClassesInv
  <2>3. \A i \in 1..Len(declared') : declared'[i].module = NoModule
    <3>1. \A i \in 1..Len(declared') : i \in 1..Len(declared) \/ i = Len(declared) + 1
      BY <2>2
    <3> QED BY <2>2, <3>1 DEF ClassesInv, DeclaredClass
  <2>4. \A s, i : ~IsPast(s, i)'
    BY <2>1 DEF IsPast, Late, Early
  <2>5. Modules' = Modules /\ (\A s : ScriptNum(s)' = ScriptNum(s))
        /\ \A s, kind : Items(s, kind)' = Items(s, kind)
    BY <2>1, SameProgram
  <2>6. \A s, name, kind : IsKind(s, name, kind)' <=> IsKind(s, name, kind)
    BY <2>5 DEF IsKind
  <2> QED BY <2>1, <2>2, <2>3, <2>4, <2>5, <2>6 DEF ClassesInv
<1>2. CASE AddClassDef
  <2> DEFINE class == DefinedClass(Item)
             items == Items(at, "class")
  <2>1. /\ stage = "classdefs" /\ pos \in 1..Len(items) /\ Item = items[pos]
        /\ class.name \notin Names(classes) /\ classes' = Append(classes, class)
        /\ pos' = pos + 1 /\ UNCHANGED <<program, declared, stage, at>>
    BY <1>2 DEF AddClassDef, At, ListOf, Item, Advance, CanAddClass, Place
  <2>2. class.name = Item.name /\ class.script = ScriptNum(at) /\ class.module = at
    BY DEF DefinedClass
  <2>3. IsKind(at, class.name, "class") /\ at \in Modules
    BY <2>1, <2>2 DEF IsKind, Names, Place
  <2>4. ASSUME NEW s \in Modules, NEW i \in 1..Len(Items(s, "class")), IsPast(s, i)'
        PROVE  IsPast(s, i) \/ (class.name = Items(s, "class")[i].name /\ class.module = s)
    <3>1. s < at \/ (s = at /\ i < pos + 1)
      BY <2>1, <2>4 DEF IsPast, Late, Early
    <3>2. s = at /\ i < pos + 1 => i < pos \/ i = pos
      BY <2>1, ProgramTypes DEF Place
    <3> QED BY <2>1, <2>2, <3>1, <3>2 DEF IsPast
  <2> HIDE DEF class
  <2> QED BY <2>1, <2>2, <2>3, <2>4, NewClass
<1>3. CASE CopyClass
  <2>1. /\ stage = "copies" /\ pos \in 1..Len(declared) /\ Item = declared[pos]
        /\ UNCHANGED <<program, declared, stage>>
    BY <1>3 DEF CopyClass, At, ListOf, Item, Advance, Place
  <2>2. \A s, i : IsPast(s, i)
    BY <2>1 DEF IsPast
  <2>3. CASE UNCHANGED classes
    BY <2>1, <2>2, <2>3, ClassesStay
  <2>4. CASE CanAddClass(classes, Item) /\ classes' = Append(classes, Item)
    <3>1. Item.module = NoModule /\ Item.name \notin Names(classes)
      BY <2>1, <2>4 DEF ClassesInv, CanAddClass
    <3> QED BY <2>1, <2>2, <2>4, <3>1, NewClass
  <2> QED BY <1>3, <2>3, <2>4 DEF CopyClass
<1>4. CASE EndStage
  <2>1. UNCHANGED <<program, declared, classes>> /\ pos > Len(ListOf(stage)) /\ pos' = 1
    BY <1>4 DEF EndStage, Go, env
  <2>2. ASSUME NEW s \in Modules, NEW i \in 1..Len(Items(s, "class")), IsPast(s, i)'
        PROVE  IsPast(s, i)
    <3>1. Len(Items(s, "class")) \in Nat /\ i \in Nat /\ s \in Nat /\ at \in Nat /\ pos \in Nat
          /\ Len(program.modules) \in Nat /\ s <= Len(program.modules) /\ at <= Len(program.modules)
      BY ProgramTypes DEF Place, Modules
    <3>2. CASE stage \in {"globalclasses", "classdecls"} /\ stage' = "classdecls"
      BY <2>2, <3>2 DEF IsPast, Late, Early
    <3>3. CASE stage = "classdecls" /\ stage' = "classdefs" /\ at' = 1
      BY <2>1, <2>2, <3>1, <3>3 DEF IsPast, Late, Early, Modules
    <3>4. CASE stage = "classdefs"
      <4>1. pos > Len(Items(at, "class"))
        BY <2>1, <3>4 DEF ListOf
      <4>2. s = at => IsPast(s, i)
        BY <3>1, <3>4, <4>1 DEF IsPast
      <4>3. s < at => IsPast(s, i)
        BY <3>4 DEF IsPast
      <4>4. s < at \/ s = at
        <5>1. CASE at < Len(program.modules) /\ stage' = "classdefs" /\ at' = at + 1
          <6>1. s < at + 1 \/ (s = at + 1 /\ i < 1)
            BY <2>1, <2>2, <5>1 DEF IsPast, Late, Early
          <6> QED BY <3>1, <6>1
        <5>2. CASE at = Len(program.modules)
          BY <3>1, <5>2
        <5> QED BY <1>4, <3>4, <5>1, <5>2 DEF EndStage, Go
      <4> QED BY <4>2, <4>3, <4>4
    <3>5. CASE stage \in {"copies", "externs", "globals"} \cup Late
      BY <3>5 DEF IsPast
    <3> QED BY <1>4, <3>2, <3>3, <3>4, <3>5 DEF EndStage, Go, Late, Early
  <2> QED BY <2>1, <2>2, ClassesStay
<1>5. CASE AddExtern \/ DeclareVar \/ AddProcedure \/ AddPublic \/ DefineVar \/ BuildDefinition \/ Dispatch
  <2>1. /\ UNCHANGED <<program, declared, classes>>
        /\ stage \in {"externs", "globals"} \cup Late
    BY <1>5 DEF AddExtern, DeclareVar, AddProcedure, AddPublic, DefineVar, Add, BuildDefinition, Dispatch,
                Advance, At, env, Late, Early
  <2>2. \A s, i : IsPast(s, i)
    BY <2>1 DEF IsPast
  <2> QED BY <2>1, <2>2, ClassesStay
<1>6. CASE Fail \/ Crash
  <2>1. UNCHANGED <<program, declared, classes>> /\ stage' \in {"failed", "crashed"}
    BY <1>6 DEF Fail, Crash, End, env
  <2>2. \A s, i : ~IsPast(s, i)'
    BY <2>1 DEF IsPast, Late, Early
  <2> QED BY <2>1, <2>2, ClassesStay
<1>7. CASE Terminated \/ UNCHANGED vars
  <2>1. UNCHANGED <<program, declared, classes, stage, at, pos>>
    BY <1>7 DEF Terminated, vars, env
  <2>2. \A s, i : IsPast(s, i)' <=> IsPast(s, i)
    BY <2>1 DEF IsPast
  <2> QED BY <2>1, <2>2, ClassesStay
<1> QED BY <1>1, <1>2, <1>3, <1>4, <1>5, <1>6, <1>7 DEF Next

-----------------------------------------------------------------------------
(* What a public may be, of what is there when the classes are known.      *)
IsOne(s, name, kind) == Entities(s, name) = {kind}
PublicsInv ==
  /\ stage \in ClassStages => \A s \in Modules : tables[s].publics = <<>>
  /\ \A s \in Modules : \A i \in 1..Len(tables[s].publics) :
       IsOne(s, tables[s].publics[i].name, tables[s].publics[i].kind)

LEMMA EntitiesStay ==
  ASSUME UNCHANGED <<program, classes>>
  PROVE  \A s, name, kind : IsOne(s, name, kind)' <=> IsOne(s, name, kind)
<1>1. \A s, name : Entities(s, name)' = Entities(s, name)
  BY SameProgram DEF Entities
<1> QED BY <1>1 DEF IsOne

(* A public gets in with one thing it may be, and stays it.                *)
LEMMA PublicsStep ==
  ASSUME TablesInv, Place, PublicsInv, [Next]_vars
  PROVE  PublicsInv'
<1>1. ASSUME UNCHANGED <<program, classes>>, stage \notin ClassStages => stage' \notin ClassStages,
             \A s \in Modules : tables'[s].publics = tables[s].publics
      PROVE  PublicsInv'
  <2>1. Modules' = Modules
    BY <1>1, SameProgram
  <2>2. \A s \in Modules : \A i \in 1..Len(tables'[s].publics) :
          IsOne(s, tables'[s].publics[i].name, tables'[s].publics[i].kind)
    BY <1>1 DEF PublicsInv
  <2>3. stage' \in ClassStages => \A s \in Modules : tables'[s].publics = <<>>
    BY <1>1 DEF PublicsInv
  <2>4. \A s, name, kind : IsOne(s, name, kind)' <=> IsOne(s, name, kind)
    BY <1>1, EntitiesStay
  <2> QED BY <2>1, <2>2, <2>3, <2>4 DEF PublicsInv
<1>2. CASE AddPublic
  <2>1. PICK kind \in Entities(at, Item.name) :
          Add("publics", [name |-> Item.name, index |-> Item.index, kind |-> kind])
    BY <1>2 DEF AddPublic
  <2> DEFINE entry == [name |-> Item.name, index |-> Item.index, kind |-> kind]
             old == tables[at].publics
  <2>2. /\ UNCHANGED <<program, classes, stage>> /\ at \in Modules /\ stage \notin ClassStages
        /\ tables'[at].publics = Append(old, entry)
        /\ \A s \in Modules \ {at} : tables'[s] = tables[s]
    <3>1. stage = "publics" /\ at \in Modules
      BY <1>2 DEF AddPublic, At, Place
    <3> QED BY <2>1, <3>1, Added DEF TableKind, ClassStages
  <2>3. IsOne(at, entry.name, entry.kind)
    <3>1. IsFiniteSet(Entities(at, Item.name))
      <4>1. IsFiniteSet({"proc"}) /\ IsFiniteSet({"class"})
        BY FS_Singleton
      <4>2. IsFiniteSet({"proc"} \cup {"class"}) /\ IsFiniteSet(({"proc"} \cup {"class"}) \cup {"object"})
        BY <4>1, FS_AddElement
      <4>3. Entities(at, Item.name) \subseteq ({"proc"} \cup {"class"}) \cup {"object"}
        BY DEF Entities
      <4> QED BY <4>2, <4>3, FS_Subset
    <3>2. Cardinality(Entities(at, Item.name)) = 1
      BY <1>2 DEF AddPublic, CanAddPublic
    <3>3. PICK k : Entities(at, Item.name) = {k}
      BY <3>1, <3>2, FS_Singleton
    <3> QED BY <2>1, <3>3 DEF IsOne
  <2>4. /\ Len(old) \in Nat /\ Len(tables'[at].publics) = Len(old) + 1
        /\ \A i \in 1..Len(old) : tables'[at].publics[i] = old[i]
        /\ tables'[at].publics[Len(old) + 1] = entry
    BY <2>2, AppendToTable DEF TablesInv
  <2>5. \A i \in 1..Len(tables'[at].publics) :
          IsOne(at, tables'[at].publics[i].name, tables'[at].publics[i].kind)
    <3>1. \A i \in 1..Len(old) : IsOne(at, old[i].name, old[i].kind)
      BY <2>2 DEF PublicsInv
    <3>2. \A i \in 1..Len(old) + 1 : i \in 1..Len(old) \/ i = Len(old) + 1
      BY <2>4
    <3> HIDE DEF old, entry
    <3> QED BY <2>3, <2>4, <3>1, <3>2
  <2>6. \A s \in Modules : \A i \in 1..Len(tables'[s].publics) :
          IsOne(s, tables'[s].publics[i].name, tables'[s].publics[i].kind)
    <3> TAKE s \in Modules
    <3>1. CASE s = at
      BY <2>5, <3>1
    <3>2. CASE s # at
      BY <2>2, <3>2 DEF PublicsInv
    <3> QED BY <3>1, <3>2
  <2>7. Modules' = Modules /\ \A s, name, k : IsOne(s, name, k)' <=> IsOne(s, name, k)
    BY <2>2, SameProgram, EntitiesStay
  <2> QED BY <2>2, <2>6, <2>7 DEF PublicsInv
<1>3. CASE AddProcedure \/ DefineVar
  <2>1. PICK table \in {"procs", "locals"} : \E entry : Add(table, entry)
    BY <1>3 DEF AddProcedure, DefineVar
  <2>2. UNCHANGED <<program, classes, stage>> /\ at \in Modules
        /\ (\A s \in Modules \ {at} : tables'[s] = tables[s])
        /\ tables'[at].publics = tables[at].publics
    BY <2>1, Added DEF TableKind, Place
  <2>3. \A s \in Modules : tables'[s].publics = tables[s].publics
    BY <2>2
  <2> QED BY <1>1, <2>2, <2>3
<1>4. CASE AddClassDecl \/ AddClassDef \/ CopyClass
  <2>1. stage \in ClassStages /\ UNCHANGED <<program, stage, tables>>
    BY <1>4 DEF AddClassDecl, AddClassDef, CopyClass, Advance, At, ClassStages
  <2>2. \A s \in Modules : tables'[s].publics = <<>>
    BY <2>1 DEF PublicsInv
  <2>3. Modules' = Modules
    BY <2>1, SameProgram
  <2> QED BY <2>2, <2>3 DEF PublicsInv
<1>5. CASE AddExtern \/ DeclareVar \/ BuildDefinition \/ Dispatch \/ EndStage \/ Fail \/ Crash \/ Terminated
           \/ UNCHANGED vars
  <2>1. UNCHANGED <<program, classes, tables>>
    BY <1>5 DEF AddExtern, DeclareVar, BuildDefinition, Dispatch, Advance, EndStage, Go, Fail, Crash, End,
                Terminated, vars, env
  <2>2. stage \notin ClassStages => stage' \notin ClassStages
    <3>1. CASE EndStage
      BY <3>1 DEF EndStage, Go, ClassStages
    <3>2. CASE Fail \/ Crash
      BY <3>2 DEF Fail, Crash, End, ClassStages
    <3>3. CASE AddExtern \/ DeclareVar \/ BuildDefinition \/ Dispatch \/ Terminated \/ UNCHANGED vars
      BY <3>3 DEF AddExtern, DeclareVar, BuildDefinition, Dispatch, Advance, Terminated, vars
    <3> QED BY <1>5, <3>1, <3>2, <3>3
  <2> QED BY <1>1, <2>1, <2>2
<1> QED BY <1>2, <1>3, <1>4, <1>5 DEF Next

-----------------------------------------------------------------------------
(* The definitions that were built, and their frames; the publics that     *)
(* were dispatched, and what to.                                           *)
FramesOf(def) == [i \in 1..Len(BodiesOf(def)) |-> FrameOf(BodiesOf(def)[i])]
Framed(s) ==
  /\ IsTable(frames[s])
  /\ Len(frames[s]) <= Len(Definitions(s))
  /\ \A d \in 1..Len(frames[s]) : frames[s][d] = FramesOf(Definitions(s)[d])
  /\ \A d, e \in 1..Len(frames[s]) :
       /\ Definitions(s)[d].kind = Definitions(s)[e].kind
       /\ Definitions(s)[d].name = Definitions(s)[e].name
       => d = e

Target(s, public) == [index |-> public.index, module |-> ModuleOf(s, public)]
HasModule(s, public) == ModuleOf(s, public) # NoModule
Sent(s) ==
  /\ IsTable(dispatches[s])
  /\ Len(dispatches[s]) <= Len(tables[s].publics)
  /\ \A i \in 1..Len(dispatches[s]) :
       /\ dispatches[s][i] = Target(s, tables[s].publics[i])
       /\ HasModule(s, tables[s].publics[i])

Fresh(s) == frames[s] = <<>> /\ dispatches[s] = <<>>
Whole(s) == Len(frames[s]) = Len(Definitions(s))
Done(s) == Whole(s) /\ Len(dispatches[s]) = Len(tables[s].publics)

Before == ClassStages \cup {"externs", "globals"} \cup Early
CodeInv ==
  /\ DOMAIN frames = Modules /\ DOMAIN dispatches = Modules
  /\ \A s \in Modules : Framed(s) /\ Sent(s)
  /\ stage \in Before => \A s \in Modules : Fresh(s)
  /\ stage \in {"code", "dispatch"} =>
       /\ at \in Built
       /\ \A s \in Built : ScriptNum(s) < ScriptNum(at) => Done(s)
       /\ \A s \in Built : ScriptNum(s) > ScriptNum(at) => Fresh(s)
  /\ stage = "code" => Len(frames[at]) = pos - 1 /\ dispatches[at] = <<>>
  /\ stage = "dispatch" => Whole(at) /\ Len(dispatches[at]) = pos - 1
  /\ stage = "done" => \A s \in Built : Done(s)

(* As long as no code is built, there is nothing to be wrong about.        *)
LEMMA NothingBuilt ==
  ASSUME Place, TablesInv', CodeInv, stage \in Before, UNCHANGED <<program, frames, dispatches>>
  PROVE  /\ DOMAIN frames' = Modules' /\ DOMAIN dispatches' = Modules'
         /\ \A s \in Modules' : Framed(s)' /\ Sent(s)' /\ Fresh(s)'
<1>1. Modules' = Modules /\ \A s : Definitions(s)' = Definitions(s)
  BY SameProgram
<1>2. ASSUME NEW s \in Modules
      PROVE  frames'[s] = <<>> /\ dispatches'[s] = <<>> /\ Len(Definitions(s)) \in Nat
             /\ Len(tables'[s].publics) \in Nat
  <2>1. frames[s] = <<>> /\ dispatches[s] = <<>>
    BY <1>2 DEF CodeInv, Fresh
  <2>2. IsTable(tables'[s].publics)
    BY <1>1 DEF TablesInv
  <2>3. Len(tables'[s].publics) \in Nat
    BY <2>2, LenProperties DEF IsTable
  <2> QED BY <2>1, <2>3, ProgramTypes DEF Place
<1>3. ASSUME NEW s \in Modules PROVE Framed(s)' /\ Sent(s)' /\ Fresh(s)'
  <2>1. Len(<<>>) = 0 /\ IsTable(<<>>)
    BY EmptyTable
  <2>2. Framed(s)'
    BY <1>1, <1>2, <2>1 DEF Framed
  <2>3. Sent(s)'
    BY <1>2, <2>1 DEF Sent
  <2> QED BY <1>2, <2>2, <2>3 DEF Fresh
<1> QED BY <1>1, <1>3 DEF CodeInv

(* What was built and dispatched stays.                                    *)
LEMMA CodeStays ==
  ASSUME UNCHANGED <<program, classes, tables, frames, dispatches>>
  PROVE  /\ Modules' = Modules /\ Built' = Built /\ \A s : ScriptNum(s)' = ScriptNum(s)
         /\ \A s : (Framed(s)' <=> Framed(s)) /\ (Sent(s)' <=> Sent(s))
         /\ \A s : (Fresh(s)' <=> Fresh(s)) /\ (Whole(s)' <=> Whole(s)) /\ (Done(s)' <=> Done(s))
<1>1. /\ Modules' = Modules /\ Built' = Built /\ \A s : ScriptNum(s)' = ScriptNum(s)
      /\ \A s : Definitions(s)' = Definitions(s)
  BY SameProgram
<1>2. \A s, public : Target(s, public)' = Target(s, public) /\ (HasModule(s, public)' <=> HasModule(s, public))
  BY DEF Target, HasModule, ModuleOf
<1>3. \A s : Framed(s)' <=> Framed(s)
  BY <1>1 DEF Framed
<1>4. \A s : Sent(s)' <=> Sent(s)
  BY <1>2 DEF Sent
<1>5. \A s : (Fresh(s)' <=> Fresh(s)) /\ (Whole(s)' <=> Whole(s)) /\ (Done(s)' <=> Done(s))
  BY <1>1 DEF Fresh, Whole, Done
<1> QED BY <1>1, <1>3, <1>4, <1>5

LEMMA BuildStep ==
  ASSUME Place, CodeInv, BuildDefinition
  PROVE  CodeInv'
<1> DEFINE defs == Definitions(at)
           n == Len(frames[at])
<1>1. /\ stage = "code" /\ pos <= Len(defs) /\ Item = defs[pos] /\ ~IsRebuilt
      /\ frames' = [frames EXCEPT ![at] = Append(frames[at], FramesOf(Item))]
      /\ pos' = pos + 1 /\ UNCHANGED <<program, stage, at, classes, tables, dispatches>>
  BY DEF BuildDefinition, At, Item, ListOf, Advance, FramesOf, env
<1>2. /\ at \in Modules /\ at \in Built /\ DOMAIN frames = Modules /\ Framed(at) /\ n = pos - 1
      /\ pos \in Nat \ {0} /\ n \in Nat /\ dispatches[at] = <<>>
  BY <1>1 DEF Place, CodeInv
<1>3. /\ Modules' = Modules /\ Built' = Built /\ (\A s : ScriptNum(s)' = ScriptNum(s))
      /\ \A s : Definitions(s)' = Definitions(s)
  BY <1>1, SameProgram
<1>4. /\ DOMAIN frames' = Modules /\ frames'[at] = Append(frames[at], FramesOf(Item))
      /\ \A s \in Modules \ {at} : frames'[s] = frames[s]
  BY <1>1, <1>2
<1>5. \A s \in Modules \ {at} : Framed(s)' /\ (Done(s)' <=> Done(s)) /\ (Fresh(s)' <=> Fresh(s))
  <2> SUFFICES ASSUME NEW s \in Modules \ {at}
               PROVE  Framed(s)' /\ (Done(s)' <=> Done(s)) /\ (Fresh(s)' <=> Fresh(s))
    OBVIOUS
  <2>1. /\ frames'[s] = frames[s] /\ dispatches'[s] = dispatches[s] /\ tables'[s] = tables[s]
        /\ Definitions(s)' = Definitions(s) /\ Framed(s)
    BY <1>1, <1>3, <1>4 DEF CodeInv
  <2>2. Framed(s)'
    BY <2>1 DEF Framed
  <2> QED BY <2>1, <2>2 DEF Done, Whole, Fresh
<1>6. /\ IsTable(frames'[at]) /\ Len(frames'[at]) = n + 1
      /\ \A d \in 1..n : frames'[at][d] = frames[at][d]
      /\ frames'[at][n + 1] = FramesOf(Item)
  BY <1>2, <1>4, AppendToTable DEF Framed
<1>7. \A d \in 1..n + 1 : d \in 1..n \/ d = n + 1
  BY <1>2
<1>8. Framed(at)'
  <2>1. Len(frames'[at]) <= Len(defs)
    BY <1>1, <1>2, <1>6
  <2>2. \A d \in 1..n + 1 : frames'[at][d] = FramesOf(defs[d])
    BY <1>1, <1>2, <1>6, <1>7 DEF Framed
  <2>3. ASSUME NEW d \in 1..n + 1, NEW e \in 1..n + 1, defs[d].kind = defs[e].kind,
               defs[d].name = defs[e].name
        PROVE  d = e
    <3>1. \A i \in 1..n : ~(defs[i].kind = Item.kind /\ defs[i].name = Item.name)
      BY <1>1, <1>2 DEF IsRebuilt
    <3> QED BY <1>1, <1>2, <1>7, <2>3, <3>1 DEF Framed
  <2> QED BY <1>1, <1>3, <1>6, <2>1, <2>2, <2>3, SMTT(30) DEF Framed
<1>9. \A s \in Modules : Sent(s)'
  <2>1. \A s, public : Target(s, public)' = Target(s, public) /\ (HasModule(s, public)' <=> HasModule(s, public))
    BY <1>1 DEF Target, HasModule, ModuleOf
  <2> QED BY <1>1, <2>1 DEF CodeInv, Sent
<1>10. \A s \in Built : /\ ScriptNum(s) < ScriptNum(at) => Done(s)'
                        /\ ScriptNum(s) > ScriptNum(at) => Fresh(s)'
  <2>1. \A s \in Built : ScriptNum(s) < ScriptNum(at) \/ ScriptNum(s) > ScriptNum(at) => s \in Modules \ {at}
    BY <1>2, SourceNumbers
  <2> QED BY <1>1, <1>5, <2>1 DEF CodeInv
<1>11. \A s \in Modules : Framed(s)'
  BY <1>1, <1>5, <1>8
<1>12. Len(frames'[at']) = pos' - 1 /\ dispatches'[at'] = <<>> /\ at' \in Built' /\ DOMAIN dispatches' = Modules'
  BY <1>1, <1>2, <1>3, <1>6 DEF CodeInv
<1>13. \A s \in Built' : /\ ScriptNum(s)' < ScriptNum(at)' => Done(s)'
                         /\ ScriptNum(s)' > ScriptNum(at)' => Fresh(s)'
  BY <1>1, <1>3, <1>10
<1> QED BY <1>1, <1>3, <1>4, <1>9, <1>11, <1>12, <1>13 DEF CodeInv, Before, ClassStages, Early

LEMMA DispatchStep ==
  ASSUME Place, CodeInv, Dispatch
  PROVE  CodeInv'
<1> DEFINE publics == tables[at].publics
           n == Len(dispatches[at])
<1>1. /\ stage = "dispatch" /\ pos <= Len(publics) /\ Item = publics[pos] /\ HasModule(at, Item)
      /\ dispatches' = [dispatches EXCEPT ![at] = Append(dispatches[at], Target(at, Item))]
      /\ pos' = pos + 1 /\ UNCHANGED <<program, stage, at, classes, tables, frames>>
  BY DEF Dispatch, At, Item, ListOf, Advance, Target, HasModule, env
<1>2. /\ at \in Modules /\ at \in Built /\ DOMAIN dispatches = Modules /\ Sent(at) /\ n = pos - 1
      /\ pos \in Nat \ {0} /\ n \in Nat /\ Whole(at)
  BY <1>1 DEF Place, CodeInv
<1>3. /\ Modules' = Modules /\ Built' = Built /\ (\A s : ScriptNum(s)' = ScriptNum(s))
      /\ \A s : Definitions(s)' = Definitions(s)
  BY <1>1, SameProgram
<1>4. /\ DOMAIN dispatches' = Modules /\ dispatches'[at] = Append(dispatches[at], Target(at, Item))
      /\ \A s \in Modules \ {at} : dispatches'[s] = dispatches[s]
  BY <1>1, <1>2
<1>5. \A s, public : Target(s, public)' = Target(s, public) /\ (HasModule(s, public)' <=> HasModule(s, public))
  BY <1>1 DEF Target, HasModule, ModuleOf
<1>6. \A s \in Modules \ {at} : Sent(s)' /\ (Done(s)' <=> Done(s)) /\ (Fresh(s)' <=> Fresh(s))
  BY <1>1, <1>3, <1>4, <1>5 DEF CodeInv, Sent, Done, Whole, Fresh
<1>7. /\ IsTable(dispatches'[at]) /\ Len(dispatches'[at]) = n + 1
      /\ \A d \in 1..n : dispatches'[at][d] = dispatches[at][d]
      /\ dispatches'[at][n + 1] = Target(at, Item)
  BY <1>2, <1>4, AppendToTable DEF Sent
<1>8. Sent(at)'
  <2>1. \A d \in 1..n + 1 : d \in 1..n \/ d = n + 1
    BY <1>2
  <2>2. Len(dispatches'[at]) <= Len(publics)
    BY <1>1, <1>2, <1>7
  <2>3. \A d \in 1..n + 1 : dispatches'[at][d] = Target(at, publics[d]) /\ HasModule(at, publics[d])
    BY <1>1, <1>2, <1>7, <2>1 DEF Sent
  <2> QED BY <1>1, <1>5, <1>7, <2>2, <2>3 DEF Sent
<1>9. \A s \in Modules : Framed(s)'
  BY <1>1, <1>3 DEF CodeInv, Framed
<1>10. \A s \in Built : /\ ScriptNum(s) < ScriptNum(at) => Done(s)'
                        /\ ScriptNum(s) > ScriptNum(at) => Fresh(s)'
  <2>1. \A s \in Built : ScriptNum(s) < ScriptNum(at) \/ ScriptNum(s) > ScriptNum(at) => s \in Modules \ {at}
    BY <1>2, SourceNumbers
  <2> QED BY <1>1, <1>6, <2>1 DEF CodeInv
<1>11. \A s \in Modules : Sent(s)'
  BY <1>1, <1>6, <1>8
<1>12. Len(dispatches'[at']) = pos' - 1 /\ Whole(at)' /\ at' \in Built' /\ DOMAIN frames' = Modules'
  BY <1>1, <1>2, <1>3, <1>7 DEF CodeInv, Whole
<1>13. \A s \in Built' : /\ ScriptNum(s)' < ScriptNum(at)' => Done(s)'
                         /\ ScriptNum(s)' > ScriptNum(at)' => Fresh(s)'
  BY <1>1, <1>3, <1>10
<1> QED BY <1>1, <1>3, <1>4, <1>9, <1>11, <1>12, <1>13 DEF CodeInv, Before, ClassStages, Early

LEMMA CodeStep ==
  ASSUME Place, TablesInv, TablesInv', CodeInv, [Next]_vars
  PROVE  CodeInv'
<1>1. CASE BuildDefinition
  BY <1>1, BuildStep
<1>2. CASE Dispatch
  BY <1>2, DispatchStep
<1>3. CASE AddClassDecl \/ AddClassDef \/ CopyClass \/ AddExtern \/ DeclareVar \/ AddProcedure
           \/ AddPublic \/ DefineVar
  <2>1. stage \in Before /\ UNCHANGED <<program, frames, dispatches, stage>>
    BY <1>3 DEF AddClassDecl, AddClassDef, CopyClass, AddExtern, DeclareVar, AddProcedure, AddPublic,
                DefineVar, Add, Advance, At, Before, ClassStages, Early
  <2> QED BY <2>1, NothingBuilt DEF CodeInv, Before, ClassStages, Early
<1>4. CASE EndStage
  <2>1. /\ UNCHANGED <<program, classes, tables, frames, dispatches>>
        /\ pos > Len(ListOf(stage)) /\ pos' = 1
    BY <1>4 DEF EndStage, Go, env
  <2>2. /\ DOMAIN frames' = Modules' /\ DOMAIN dispatches' = Modules'
        /\ \A s \in Modules' : Framed(s)' /\ Sent(s)'
    BY <2>1, CodeStays DEF CodeInv
  <2>3. CASE stage \in Before /\ stage' \in Before
    BY <2>1, <2>2, <2>3, NothingBuilt DEF CodeInv, Before, ClassStages, Early
  <2>4. CASE stage = "locals" /\ stage' = "code" /\ at' = NextScript(-1)
    <3>1. \A s \in Modules : Fresh(s)
      BY <2>4 DEF CodeInv, Before, Early
    <3>2. at' \in Built /\ \A s \in Built : ScriptNum(at') <= ScriptNum(s)
      BY <2>4, SourceNumbers, NextNumber
    <3>3. \A s \in Built : ~(ScriptNum(s) < ScriptNum(at')) /\ Fresh(s)
      BY <3>1, <3>2, SourceNumbers
    <3>4. Len(frames'[at']) = pos' - 1 /\ dispatches'[at'] = <<>>
      BY <2>1, <3>2, <3>3 DEF Fresh
    <3>5. /\ at' \in Built' /\ \A s \in Built' : ~(ScriptNum(s)' < ScriptNum(at)') /\ Fresh(s)'
      BY <2>1, <3>2, <3>3, CodeStays
    <3> QED BY <2>2, <2>4, <3>4, <3>5 DEF CodeInv, Before, ClassStages, Early
  <2>5. CASE stage = "code" /\ stage' = "dispatch" /\ at' = at
    <3>1. Whole(at) /\ dispatches[at] = <<>> /\ at \in Built
      <4>1. pos > Len(Definitions(at)) /\ Len(frames[at]) = pos - 1 /\ pos \in Nat
            /\ Len(frames[at]) <= Len(Definitions(at)) /\ Len(Definitions(at)) \in Nat
        BY <2>1, <2>5, ProgramTypes DEF Place, CodeInv, Framed, ListOf
      <4> QED BY <2>5, <4>1 DEF Whole, CodeInv
    <3>2. Whole(at)' /\ Len(dispatches'[at']) = pos' - 1
      BY <2>1, <2>5, <3>1, CodeStays
    <3>3. /\ at' \in Built'
          /\ \A s \in Built' : /\ ScriptNum(s)' < ScriptNum(at)' => Done(s)'
                               /\ ScriptNum(s)' > ScriptNum(at)' => Fresh(s)'
      BY <2>1, <2>5, CodeStays DEF CodeInv
    <3> QED BY <2>2, <2>5, <3>2, <3>3 DEF CodeInv, Before, ClassStages, Early
  <2>6. CASE stage = "dispatch"
    <3>1. Done(at) /\ at \in Built
      <4>1. pos > Len(tables[at].publics) /\ Len(dispatches[at]) = pos - 1 /\ pos \in Nat
            /\ Len(dispatches[at]) <= Len(tables[at].publics) /\ Len(tables[at].publics) \in Nat
        BY <2>1, <2>6, AppendToTable DEF Place, CodeInv, Sent, ListOf, TablesInv
      <4> QED BY <2>6, <4>1 DEF Done, CodeInv
    <3>2. \A s \in Built : ScriptNum(s) <= ScriptNum(at) => Done(s)
      <4> SUFFICES ASSUME NEW s \in Built, ScriptNum(s) <= ScriptNum(at) PROVE Done(s)
        OBVIOUS
      <4>1. CASE ScriptNum(s) < ScriptNum(at)
        BY <2>6, <4>1 DEF CodeInv
      <4>2. CASE ScriptNum(s) = ScriptNum(at)
        <5>1. s \in Nat /\ at \in Nat /\ s >= 1 /\ at >= 1
          BY <3>1 DEF Built, Modules
        <5>2. ~(s < at) /\ ~(at < s)
          BY <3>1, <4>2, <5>1 DEF Built
        <5> QED BY <3>1, <5>1, <5>2
      <4> QED BY <3>1, <4>1, <4>2, SourceNumbers
    <3>3. CASE stage' = "code" /\ After(ScriptNum(at)) # {} /\ at' = NextScript(ScriptNum(at))
      <4>1. at' \in Built /\ ScriptNum(at') > ScriptNum(at)
            /\ \A t \in After(ScriptNum(at)) : ScriptNum(at') <= ScriptNum(t)
        BY <3>3, NextNumber DEF After
      <4>2. \A s \in Built : /\ ScriptNum(s) < ScriptNum(at') => Done(s)
                             /\ ScriptNum(s) > ScriptNum(at') => Fresh(s)
        <5> SUFFICES ASSUME NEW s \in Built
                     PROVE  /\ ScriptNum(s) < ScriptNum(at') => Done(s)
                            /\ ScriptNum(s) > ScriptNum(at') => Fresh(s)
          OBVIOUS
        <5>1. ScriptNum(s) \in Nat /\ ScriptNum(at) \in Nat /\ ScriptNum(at') \in Nat
          BY <3>1, <4>1, SourceNumbers
        <5>2. ScriptNum(s) > ScriptNum(at) => ScriptNum(at') <= ScriptNum(s)
          BY <4>1 DEF After
        <5>3. ScriptNum(s) > ScriptNum(at) => Fresh(s)
          BY <2>6 DEF CodeInv
        <5> QED BY <3>2, <4>1, <5>1, <5>2, <5>3
      <4>3. Fresh(at')
        BY <2>6, <4>1 DEF CodeInv
      <4>4. Len(frames'[at']) = pos' - 1 /\ dispatches'[at'] = <<>>
        BY <2>1, <4>3 DEF Fresh
      <4>5. /\ at' \in Built'
            /\ \A s \in Built' : /\ ScriptNum(s)' < ScriptNum(at)' => Done(s)'
                                 /\ ScriptNum(s)' > ScriptNum(at)' => Fresh(s)'
        BY <2>1, <4>1, <4>2, CodeStays
      <4> QED BY <2>2, <3>3, <4>4, <4>5 DEF CodeInv, Before, ClassStages, Early
    <3>4. CASE stage' = "done" /\ After(ScriptNum(at)) = {}
      <4>1. \A s \in Built : ScriptNum(s) <= ScriptNum(at)
        <5> SUFFICES ASSUME NEW s \in Built PROVE ScriptNum(s) <= ScriptNum(at)
          OBVIOUS
        <5>1. ~(ScriptNum(s) > ScriptNum(at)) /\ ScriptNum(s) \in Nat /\ ScriptNum(at) \in Nat
          BY <3>1, <3>4, SourceNumbers DEF After
        <5> QED BY <5>1
      <4>2. \A s \in Built' : Done(s)'
        BY <2>1, <3>2, <4>1, CodeStays
      <4> QED BY <2>2, <3>4, <4>2 DEF CodeInv, Before, ClassStages, Early
    <3> QED BY <1>4, <2>6, <3>3, <3>4 DEF EndStage, Go
  <2> QED BY <1>4, <2>3, <2>4, <2>5, <2>6 DEF EndStage, Go, Before, ClassStages, Early
<1>5. CASE Fail \/ Crash
  <2>1. UNCHANGED <<program, classes, tables, frames, dispatches>> /\ stage' \in {"failed", "crashed"}
    BY <1>5 DEF Fail, Crash, End, env
  <2> QED BY <2>1, CodeStays DEF CodeInv, Before, ClassStages, Early
<1>6. CASE Terminated \/ UNCHANGED vars
  <2>1. UNCHANGED <<program, classes, tables, frames, dispatches, stage, at, pos>>
    BY <1>6 DEF Terminated, vars, env
  <2>2. /\ stage = "code" => Len(frames'[at']) = pos' - 1 /\ dispatches'[at'] = <<>>
        /\ stage = "dispatch" => Whole(at)' /\ Len(dispatches'[at']) = pos' - 1
    BY <2>1, CodeStays DEF CodeInv
  <2>3. stage \in {"code", "dispatch"} =>
          /\ at' \in Built'
          /\ \A s \in Built' : ScriptNum(s)' < ScriptNum(at)' => Done(s)'
          /\ \A s \in Built' : ScriptNum(s)' > ScriptNum(at)' => Fresh(s)'
    BY <2>1, CodeStays DEF CodeInv
  <2> QED BY <2>1, <2>2, <2>3, CodeStays DEF CodeInv
<1> QED BY <1>1, <1>2, <1>3, <1>4, <1>5, <1>6 DEF Next

-----------------------------------------------------------------------------
NamesInv == Place /\ TablesInv /\ DeclInv /\ ClassesInv /\ PublicsInv /\ CodeInv

LEMMA NamesBegin ==
  ASSUME Init PROVE NamesInv
<1>1. /\ program \in Programs /\ stage = "globalclasses" /\ at = 1 /\ pos = 1
      /\ declared = <<>> /\ classes = <<>> /\ globals = <<>>
      /\ tables = [s \in Modules |-> [procs |-> <<>>, publics |-> <<>>, locals |-> <<>>]]
      /\ frames = [s \in Modules |-> <<>>] /\ dispatches = [s \in Modules |-> <<>>]
  BY DEF Init
<1>2. Place
  BY <1>1, ProgramTypes DEF Place, Stages, ClassStages, Modules
<1>3. TablesInv
  BY <1>1, EmptyTable DEF TablesInv, TableKind
<1>4. DeclInv
  BY <1>1 DEF DeclInv, ClassStages, Early, Late
<1>5. ClassesInv
  <2>1. \A s, i : ~IsPast(s, i)
    BY <1>1 DEF IsPast, Late, Early
  <2> QED BY <1>1, <2>1, EmptyTable DEF ClassesInv
<1>6. PublicsInv
  BY <1>1 DEF PublicsInv
<1>7. CodeInv
  <2>1. ASSUME NEW s \in Modules PROVE Framed(s) /\ Sent(s) /\ Fresh(s)
    <3>1. /\ frames[s] = <<>> /\ dispatches[s] = <<>> /\ tables[s].publics = <<>>
          /\ Len(<<>>) = 0 /\ IsTable(<<>>) /\ Len(Definitions(s)) \in Nat
      BY <1>1, <2>1, EmptyTable, ProgramTypes
    <3>2. Framed(s)
      BY <3>1 DEF Framed
    <3>3. Sent(s)
      BY <3>1 DEF Sent
    <3> QED BY <3>1, <3>2, <3>3 DEF Fresh
  <2> QED BY <1>1, <2>1 DEF CodeInv, Before, ClassStages
<1> QED BY <1>2, <1>3, <1>4, <1>5, <1>6, <1>7 DEF NamesInv

LEMMA NamesHold == Spec => []NamesInv
<1>1. NamesInv /\ [Next]_vars => NamesInv'
  <2> SUFFICES ASSUME NamesInv, [Next]_vars PROVE NamesInv'
    OBVIOUS
  <2>1. Place /\ TablesInv /\ DeclInv /\ ClassesInv /\ PublicsInv /\ CodeInv
    BY DEF NamesInv
  <2>2. Place' /\ TablesInv'
    BY <2>1, PlaceStep, TablesStep
  <2>3. DeclInv' /\ ClassesInv' /\ PublicsInv' /\ CodeInv'
    BY <2>1, <2>2, DeclStep, ClassesStep, PublicsStep, CodeStep
  <2> QED BY <2>2, <2>3 DEF NamesInv
<1> QED BY <1>1, NamesBegin, PTL DEF Spec

-----------------------------------------------------------------------------
(* However often variables are declared, and in whatever order: those that *)
(* agree are accepted, and nothing is that does not.                       *)
THEOREM AgreeingDeclarations == Spec => []DeclarationsAgree
<1>1. NamesInv => DeclarationsAgree
  <2> SUFFICES ASSUME NamesInv PROVE DeclarationsAgree
    OBVIOUS
  <2>1. Place /\ TablesInv /\ DeclInv
    BY DEF NamesInv
  <2>2. ASSUME Declared(Len(Decls)) PROVE Len(globals) = Cardinality(Range(Decls))
    <3>1. Range(globals) = Range(Decls)
      <4>1. Len(Decls) \in Nat /\ DOMAIN Decls = 1..Len(Decls)
        BY <2>1, ProgramTypes, LenProperties DEF Place
      <4> QED BY <2>2, <4>1 DEF Declared, Range
    <3>2. Len(globals) \in Nat /\ DOMAIN globals = 1..Len(globals)
      BY <2>1, LenProperties DEF TablesInv, IsTable
    <3>3. globals \in Bijection(1..Len(globals), Range(globals))
      <4>1. globals \in [1..Len(globals) -> Range(globals)]
        BY <2>1, <3>2, LenProperties DEF Range, TablesInv, IsTable
      <4>2. \A i, k \in 1..Len(globals) : globals[i] = globals[k] => i = k
        BY <2>1 DEF TablesInv, UniqueNames
      <4>3. \A v \in Range(globals) : \E i \in 1..Len(globals) : globals[i] = v
        BY <3>2 DEF Range
      <4> QED BY <4>1, <4>2, <4>3 DEF Bijection, Injection, Surjection, IsInjective
    <3>4. IsFiniteSet(1..Len(globals)) /\ Cardinality(1..Len(globals)) = Len(globals)
      <4>1. 1 \in Int /\ Len(globals) \in Int
        BY <3>2
      <4>2. /\ IsFiniteSet(1..Len(globals))
            /\ Cardinality(1..Len(globals)) = IF 1 > Len(globals) THEN 0 ELSE Len(globals) - 1 + 1
        BY <4>1, FS_Interval
      <4> QED BY <3>2, <4>2
    <3>5. ExistsBijection(1..Len(globals), Range(globals))
      BY <3>3 DEF ExistsBijection
    <3>6. Cardinality(Range(globals)) = Len(globals)
      BY <3>4, <3>5, FS_Bijection
    <3> QED BY <3>1, <3>6
  <2>3. stage \in Late => Agree /\ Len(globals) = Cardinality(Range(Decls))
    BY <2>1, <2>2 DEF DeclInv, Declared, Agree
  <2>4. At("globals") /\ Agree => IsDeclared(Item) \/ CanDeclareVar(Item)
    BY <2>1, RefusedVar
  <2> QED BY <2>3, <2>4 DEF DeclarationsAgree, Agree, Late, Early
<1> QED BY <1>1, NamesHold, PTL

(* What is made public is, when all code could be built, exactly one thing *)
(* that is defined here; only where another source has the same number may *)
(* it be a class of that one.                                              *)
THEOREM PublicsAreHere == Spec => []PublicsAreDefinedHere
<1>1. NamesInv => PublicsAreDefinedHere
  <2> SUFFICES ASSUME NamesInv, stage = "done", NEW s \in Built PROVE
         LET publics == tables[s].publics
             items == program.modules[s].items
             defining(name) == {k \in 1..Len(items) :
                                  items[k].kind \in DefinitionKind /\ items[k].name = name}
         IN  /\ Len(dispatches[s]) = Len(publics)
             /\ \A i \in 1..Len(publics) :
                  LET name == publics[i].name
                      module == dispatches[s][i].module
                  IN  /\ module = s => Cardinality(defining(name)) = 1
                      /\ module # s => /\ module \in Modules \ Built
                                       /\ ScriptNum(module) = ScriptNum(s)
                                       /\ name \in Names(Items(module, "class"))
                                       /\ defining(name) = {}
             /\ \A i, k \in 1..Len(publics) :
                  dispatches[s][i].index = dispatches[s][k].index => i = k
    BY DEF PublicsAreDefinedHere
  <2> DEFINE publics == tables[s].publics
             items == program.modules[s].items
             defs == Definitions(s)
             defining(name) == {k \in 1..Len(items) :
                                  items[k].kind \in DefinitionKind /\ items[k].name = name}
  <2>1. Place /\ TablesInv /\ ClassesInv /\ PublicsInv /\ CodeInv
    BY DEF NamesInv
  <2>2. s \in Modules /\ s # NoModule /\ items \in Seq(ModuleItem) /\ Len(items) \in Nat
    <3>1. s \in Modules
      BY DEF Built
    <3> QED BY <2>1, <3>1, ProgramTypes, LenProperties DEF Place, Modules, NoModule
  <2>3. Whole(s) /\ Framed(s) /\ Sent(s) /\ Len(dispatches[s]) = Len(publics)
    BY <2>1, <2>2 DEF CodeInv, Done
  <2>4. ASSUME NEW i \in 1..Len(publics)
         PROVE  /\ dispatches[s][i].index = publics[i].index
                /\ dispatches[s][i].module = ModuleOf(s, publics[i]) /\ ModuleOf(s, publics[i]) # NoModule
    <3>1. dispatches[s][i] = Target(s, publics[i]) /\ HasModule(s, publics[i])
      BY <2>3 DEF Sent
    <3> QED BY <3>1 DEF Target, HasModule
  <2>5. ASSUME NEW kind, NEW k \in 1..Len(items), items[k].kind = kind
        PROVE  \E j \in 1..Len(Items(s, kind)) : Items(s, kind)[j] = items[k]
    <3>1. PICK h : Chosen(Items(s, kind), h, items, {kind}, Len(items))
      BY <2>2, Selected DEF IsChosen, Items, Elems
    <3>2. PICK j \in 1..Len(Items(s, kind)) : h[j] = k
      BY <2>5, <3>1 DEF Chosen
    <3> QED BY <3>1, <3>2 DEF Chosen
  <2>6. ASSUME NEW name, NEW kind \in DefinitionKind, IsKind(s, name, kind)
        PROVE  \E k \in defining(name) : items[k].kind = kind
    <3>1. PICK h : Chosen(Items(s, kind), h, items, {kind}, Len(items))
      BY <2>2, Selected DEF IsChosen, Items, Elems
    <3>2. PICK j \in 1..Len(Items(s, kind)) : Items(s, kind)[j].name = name
      BY <2>6 DEF IsKind, Names
    <3>3. h[j] \in 1..Len(items) /\ items[h[j]].kind = kind /\ items[h[j]].name = name
      BY <3>1, <3>2 DEF Chosen
    <3>4. h[j] \in defining(name)
      BY <2>6, <3>3
    <3> QED BY <3>3, <3>4
  <2>7. ASSUME NEW name, NEW k \in defining(name), NEW m \in defining(name), items[k].kind = items[m].kind
        PROVE  k = m
    <3>1. PICK g : Chosen(defs, g, items, DefinitionKind, Len(items))
      BY <2>2, Selected DEF IsChosen, Definitions
    <3>2. PICK d \in 1..Len(defs), e \in 1..Len(defs) : g[d] = k /\ g[e] = m
      BY <3>1 DEF Chosen
    <3>3. defs[d] = items[k] /\ defs[e] = items[m]
      BY <3>1, <3>2 DEF Chosen
    <3>4. d = e
      BY <2>3, <2>7, <3>3 DEF Framed, Whole
    <3> QED BY <3>2, <3>4
  <2>8. ASSUME NEW k \in 1..Len(items), items[k].kind = "class"
        PROVE  /\ items[k].name \in Names(classes)
               /\ LookupByName(classes, items[k].name).module = s
               /\ LookupByName(classes, items[k].name).script = ScriptNum(s)
    <3>1. PICK j \in 1..Len(Items(s, "class")) : Items(s, "class")[j] = items[k]
      BY <2>5, <2>8
    <3>2. IsPast(s, j)
      BY DEF IsPast, Late
    <3>3. PICK c \in 1..Len(classes) : classes[c].name = items[k].name /\ classes[c].module = s
      BY <2>1, <2>2, <3>1, <3>2 DEF ClassesInv
    <3>4. Len(classes) \in Nat /\ UniqueNames(classes) /\ classes[c].script = ScriptNum(s)
      BY <2>1, <2>2, <3>3, AppendToTable DEF ClassesInv
    <3>5. LookupByName(classes, classes[c].name) = classes[c]
      BY <3>4, Lookup
    <3> QED BY <3>3, <3>4, <3>5 DEF Names
  <2>9. ASSUME NEW name, NEW k \in defining(name)
        PROVE  items[k].kind \in Entities(s, name)
    <3>1. CASE items[k].kind = "class"
      BY <2>8, <2>9, <3>1 DEF Entities
    <3>2. CASE items[k].kind \in {"proc", "object"}
      <4>1. items[k].name \in Names(Items(s, items[k].kind))
        BY <2>5, <2>9 DEF Names
      <4> QED BY <2>9, <3>2, <4>1 DEF Entities
    <3> QED BY <2>9, <3>1, <3>2 DEF DefinitionKind
  <2>10. ASSUME NEW i \in 1..Len(publics)
        PROVE  LET name == publics[i].name
                   module == dispatches[s][i].module
               IN  /\ module = s => Cardinality(defining(name)) = 1
                   /\ module # s => /\ module \in Modules \ Built
                                    /\ ScriptNum(module) = ScriptNum(s)
                                    /\ name \in Names(Items(module, "class"))
                                    /\ defining(name) = {}
    <3> DEFINE name == publics[i].name
               kind == publics[i].kind
               module == dispatches[s][i].module
    <3>1. Entities(s, name) = {kind}
      BY <2>1, <2>2 DEF PublicsInv, IsOne
    <3>2. module = ModuleOf(s, publics[i]) /\ module # NoModule
      BY <2>4
    <3>3. ModuleOf(s, publics[i]) = IF kind = "class" THEN LookupByName(classes, name).module ELSE s
      BY DEF ModuleOf
    <3> HIDE DEF name, kind, module, defining, publics, items
    <3>4. \A k \in defining(name) : items[k].kind = kind
      BY <2>9, <3>1
    <3>5. ASSUME IsKind(s, name, kind), kind \in DefinitionKind PROVE Cardinality(defining(name)) = 1
      <4>1. PICK k \in defining(name) : items[k].kind = kind
        BY <2>6, <3>5
      <4>2. defining(name) = {k}
        BY <2>7, <3>4, <4>1
      <4> QED BY <4>2, FS_Singleton
    <3>6. CASE kind # "class"
      <4>1. kind \in {"proc", "object"} /\ IsKind(s, name, kind)
        BY <3>1, <3>6 DEF Entities, IsKind
      <4> QED BY <3>2, <3>3, <3>5, <3>6, <4>1 DEF DefinitionKind, name, module
    <3>7. CASE kind = "class"
      <4>1. name \in Names(classes) /\ LookupByName(classes, name).script = ScriptNum(s)
        BY <3>1, <3>7 DEF Entities
      <4>2. PICK c \in 1..Len(classes) : classes[c].name = name
        BY <4>1 DEF Names
      <4>3. LookupByName(classes, name) = classes[c]
        BY <2>1, <4>2, Lookup, AppendToTable DEF ClassesInv
      <4>4. /\ module = classes[c].module /\ module \in Modules
            /\ ScriptNum(module) = ScriptNum(s) /\ IsKind(module, name, "class")
        BY <2>1, <3>2, <3>3, <3>7, <4>1, <4>2, <4>3 DEF ClassesInv
      <4>5. CASE module = s
        BY <3>5, <3>7, <4>4, <4>5 DEF DefinitionKind, name, module
      <4>6. CASE module # s
        <5>1. module \notin Built
          <6>1. s \in Nat /\ module \in Nat /\ s >= 1 /\ module >= 1
            BY <2>2, <4>4 DEF Modules
          <6>2. module \in Built => ~(s < module) /\ ~(module < s)
            BY <4>4, <6>1 DEF Built
          <6> QED BY <4>6, <6>1, <6>2
        <5>2. defining(name) = {}
          <6> SUFFICES ASSUME NEW k \in defining(name) PROVE FALSE
            OBVIOUS
          <6>1. k \in 1..Len(items) /\ items[k].name = name /\ items[k].kind = "class"
            BY <3>4, <3>7 DEF defining
          <6>2. LookupByName(classes, name).module = s
            BY <2>8, <6>1
          <6> QED BY <4>3, <4>4, <4>6, <6>2
        <5>3. name \in Names(Items(module, "class"))
          BY <4>4 DEF IsKind
        <5> QED BY <4>4, <4>6, <5>1, <5>2, <5>3 DEF name, module
      <4> QED BY <4>5, <4>6
    <3> QED BY <3>6, <3>7
  <2>11. \A i, k \in 1..Len(publics) : dispatches[s][i].index = dispatches[s][k].index => i = k
    BY <2>1, <2>2, <2>4 DEF TablesInv, UniqueIndexes
  <2> QED BY <2>3, <2>10, <2>11
<1> QED BY <1>1, NamesHold, PTL

(* Whatever sizes arrays have: no two temporaries of a body share a word,  *)
(* and there is room for all of them.                                      *)
THEOREM OwnWords == Spec => []NamesHaveTheirOwnWords
<1>1. NamesInv => NamesHaveTheirOwnWords
  <2> SUFFICES ASSUME NamesInv, NEW s \in Modules, NEW d \in 1..Len(frames[s]),
                      NEW i \in 1..Len(frames[s][d])
               PROVE  FrameIsSound(frames[s][d][i], BodiesOf(Definitions(s)[d])[i].item)
    BY DEF NamesHaveTheirOwnWords, FrameIsSound
  <2> DEFINE def == Definitions(s)[d]
             bodies == BodiesOf(def)
  <2>1. frames[s][d] = FramesOf(def) /\ Len(frames[s]) <= Len(Definitions(s)) /\ Len(frames[s]) \in Nat
    <3>1. Framed(s)
      BY DEF NamesInv, CodeInv
    <3>2. Len(frames[s]) \in Nat
      BY <3>1, AppendToTable DEF Framed
    <3> QED BY <3>1, <3>2 DEF Framed
  <2>2. def \in ProcDef \cup ClassDef /\ def.kind \in DefinitionKind
    <3>1. d \in 1..Len(Definitions(s)) /\ Len(Definitions(s)) \in Nat
      BY <2>1, ProgramTypes DEF NamesInv, Place
    <3> QED BY <3>1, ProgramTypes DEF NamesInv, Place
  <2> HIDE DEF def
  <2>3. /\ Len(bodies) \in Nat
        /\ \A j \in 1..Len(bodies) : bodies[j].item \in ProcDef
    <3>1. CASE def.kind = "proc"
      <4>1. bodies = <<[item |-> def, props |-> {}]>> /\ def \in ProcDef
        BY <2>2, <3>1 DEF BodiesOf, ClassDef
      <4> QED BY <4>1
    <3>2. CASE def.kind # "proc"
      <4>1. def \in ClassDef
        BY <2>2, <3>2 DEF ProcDef
      <4>2. def.methods \in Seq(ProcDef)
        BY <4>1 DEF ClassDef
      <4>3. Len(def.methods) \in Nat /\ \A j \in 1..Len(def.methods) : def.methods[j] \in ProcDef
        BY <4>2, LenProperties, ElementOfSeq
      <4>4. bodies = [j \in 1..Len(def.methods) |-> [item |-> def.methods[j], props |-> def.props]]
        BY <3>2 DEF BodiesOf
      <4> QED BY <4>3, <4>4
    <3> QED BY <3>1, <3>2
  <2> HIDE DEF bodies
  <2>4. frames[s][d] = [j \in 1..Len(bodies) |-> FrameOf(bodies[j])]
    BY <2>1 DEF FramesOf, bodies
  <2>5. i \in 1..Len(bodies)
    BY <2>3, <2>4
  <2>6. FrameIsSound(FrameOf(bodies[i]), bodies[i].item)
    BY <2>3, <2>5, FramesAreSound
  <2> QED BY <2>4, <2>5, <2>6 DEF bodies, def
<1> QED BY <1>1, NamesHold, PTL

=============================================================================
