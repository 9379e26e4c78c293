------------------------- MODULE EnvironmentProofs -------------------------
(***************************************************************************)
(* What the scripts of a compilation share is as they write it.            *)
(*                                                                         *)
(* Selectors: their two maps agree, and the ones nobody declared have the  *)
(* smallest free numbers.  A new selector gets its number long after it    *)
(* was entered, and is then taken off the list of those that wait, so that *)
(* the list must hold each of them once, in their order.                   *)
(*                                                                         *)
(* Classes and objects: how far the compilation is tells what is in the    *)
(* tables.  ClassInv says it for every phase: which items have their       *)
(* class, which classes their super, and that a list that is made was made *)
(* of that of the super, which stays as it is.                             *)
(***************************************************************************)
EXTENDS GlobalEnvironment, Induction, FiniteSetTheorems, TLAPS

(* Those who wait: each of them once, and none has a number.               *)
WaitingInv ==
  /\ newSelectors \in Seq(DOMAIN selectorNum)
  /\ \A i \in 1..Len(newSelectors) : selectorNum[newSelectors[i]] = NoNumber
  /\ \A i, j \in 1..Len(newSelectors) : newSelectors[i] = newSelectors[j] => i = j

(* The maps are functions with what they may hold.                         *)
MapsInv ==
  /\ selectorNum = [name \in DOMAIN selectorNum |-> selectorNum[name]]
  /\ numMap = [num \in DOMAIN numMap |-> numMap[num]]
  /\ nextSelector \in Nat
  /\ NoNumber \notin DOMAIN numMap

SelectorInv == MapsInv /\ WaitingInv /\ SelectorsAgree

-----------------------------------------------------------------------------
(* The standard selectors have different numbers.                          *)
LEMMA InitialSelectors == InitSelectors => SelectorInv
<1> SUFFICES ASSUME InitSelectors PROVE SelectorInv
  OBVIOUS
<1>1. /\ selectorNum = [name \in DOMAIN Standard |-> Standard[name]]
      /\ \A name \in DOMAIN selectorNum : selectorNum[name] \in Nat
  BY SelectorAssumption DEF InitSelectors
<1>2. /\ DOMAIN numMap = {Standard[name] : name \in DOMAIN Standard}
      /\ numMap = [num \in DOMAIN numMap |-> numMap[num]]
  BY DEF InitSelectors, Range
<1>3. \A num \in DOMAIN numMap : numMap[num] \in DOMAIN Standard /\ Standard[numMap[num]] = num
  BY <1>2 DEF InitSelectors, Range
<1>4. \A name \in DOMAIN Standard : numMap[Standard[name]] = name
  BY <1>2, <1>3, SelectorAssumption DEF IsInjective
<1>5. NoNumber \notin DOMAIN numMap
  BY <1>2, SelectorAssumption
<1>6. MapsInv
  BY <1>1, <1>2, <1>5 DEF MapsInv, InitSelectors
<1>7. WaitingInv
  BY DEF WaitingInv, InitSelectors
<1>8. SelectorsAgree
  BY <1>1, <1>2, <1>3, <1>4, SelectorAssumption
  DEF SelectorsAgree, InitSelectors, HasName, HasNumber
<1> QED
  BY <1>6, <1>7, <1>8 DEF SelectorInv

-----------------------------------------------------------------------------
(* A declaration that is new enters a name and a number nobody has.        *)
LEMMA Declaring ==
  ASSUME SelectorInv, NEW name, NEW num, num # NoNumber, DeclareSelector(name, num)
  PROVE  SelectorInv'
<1>1. CASE UNCHANGED selectorVars
  BY <1>1 DEF SelectorInv, MapsInv, WaitingInv, SelectorsAgree, HasName, HasNumber, selectorVars
<1>2. CASE ~UNCHANGED selectorVars
  <2>1. /\ name \notin DOMAIN selectorNum /\ num \notin DOMAIN numMap
        /\ selectorNum' = Emplace(selectorNum, name, num)
        /\ numMap' = Emplace(numMap, num, name)
        /\ newSelectors' = newSelectors /\ nextSelector' = nextSelector
    BY <1>2 DEF DeclareSelector, CanDeclare, HasName, HasNumber
  <2>2. /\ selectorNum' = [z \in DOMAIN selectorNum' |-> selectorNum'[z]]
        /\ DOMAIN selectorNum' = DOMAIN selectorNum \cup {name}
        /\ selectorNum'[name] = num
        /\ \A z \in DOMAIN selectorNum : selectorNum'[z] = selectorNum[z]
    BY <2>1 DEF Emplace
  <2>3. /\ numMap' = [z \in DOMAIN numMap' |-> numMap'[z]]
        /\ DOMAIN numMap' = DOMAIN numMap \cup {num}
        /\ numMap'[num] = name
        /\ \A z \in DOMAIN numMap : numMap'[z] = numMap[z]
    BY <2>1 DEF Emplace
  <2>4. MapsInv'
    BY <2>1, <2>2, <2>3 DEF SelectorInv, MapsInv
  <2>5. WaitingInv'
    BY <2>1, <2>2 DEF SelectorInv, WaitingInv
  <2>6. SelectorsAgree'
    BY <2>1, <2>2, <2>3 DEF SelectorInv, SelectorsAgree, HasName, HasNumber
  <2> QED
    BY <2>4, <2>5, <2>6 DEF SelectorInv
<1> QED
  BY <1>1, <1>2

(* A selector that is used waits for its number, once.                     *)
LEMMA Using ==
  ASSUME SelectorInv, NEW name, AddNewSelector(name)
  PROVE  SelectorInv'
<1>1. CASE UNCHANGED selectorVars
  BY <1>1 DEF SelectorInv, MapsInv, WaitingInv, SelectorsAgree, HasName, HasNumber, selectorVars
<1>2. CASE ~UNCHANGED selectorVars
  <2>1. /\ name \notin DOMAIN selectorNum
        /\ selectorNum' = Emplace(selectorNum, name, NoNumber)
        /\ newSelectors' = Append(newSelectors, name)
        /\ numMap' = numMap /\ nextSelector' = nextSelector
    BY <1>2 DEF AddNewSelector, HasName
  <2>2. /\ selectorNum' = [z \in DOMAIN selectorNum' |-> selectorNum'[z]]
        /\ DOMAIN selectorNum' = DOMAIN selectorNum \cup {name}
        /\ selectorNum'[name] = NoNumber
        /\ \A z \in DOMAIN selectorNum : selectorNum'[z] = selectorNum[z]
    BY <2>1 DEF Emplace
  <2>3. MapsInv'
    BY <2>1, <2>2 DEF SelectorInv, MapsInv
  <2>4. /\ Len(newSelectors') = Len(newSelectors) + 1
        /\ newSelectors'[Len(newSelectors) + 1] = name
        /\ \A i \in 1..Len(newSelectors) :
             newSelectors'[i] = newSelectors[i] /\ newSelectors[i] \in DOMAIN selectorNum
        /\ newSelectors' \in Seq(DOMAIN selectorNum')
        /\ Len(newSelectors) \in Nat
    BY <2>1, <2>2 DEF SelectorInv, WaitingInv
  <2>5. WaitingInv'
    BY <2>1, <2>2, <2>4 DEF SelectorInv, WaitingInv
  <2>6. SelectorsAgree'
    BY <2>1, <2>2, <2>4 DEF SelectorInv, SelectorsAgree, HasName, HasNumber
  <2> QED
    BY <2>3, <2>5, <2>6 DEF SelectorInv
<1> QED
  BY <1>1, <1>2

(* The first of those who wait gets a number nobody has.                   *)
LEMMA Assigning ==
  ASSUME SelectorInv, AssignSelector
  PROVE  SelectorInv'
<1> DEFINE first == Head(newSelectors)
<1>1. /\ newSelectors # <<>> /\ nextSelector \notin DOMAIN numMap
      /\ selectorNum' = [selectorNum EXCEPT ![first] = nextSelector]
      /\ numMap' = Emplace(numMap, nextSelector, first)
      /\ newSelectors' = Tail(newSelectors)
      /\ nextSelector' = nextSelector + 1
  BY DEF AssignSelector, HasNumber
<1>2. /\ Len(newSelectors) \in Nat \ {0} /\ newSelectors[1] = first
      /\ first \in DOMAIN selectorNum /\ selectorNum[first] = NoNumber
  BY <1>1 DEF SelectorInv, WaitingInv
<1>3. nextSelector \in Nat /\ nextSelector # NoNumber
  BY SelectorAssumption DEF SelectorInv, MapsInv
<1>4. /\ DOMAIN selectorNum' = DOMAIN selectorNum
      /\ selectorNum' = [z \in DOMAIN selectorNum' |-> selectorNum'[z]]
      /\ selectorNum'[first] = nextSelector
      /\ \A z \in DOMAIN selectorNum : z # first => selectorNum'[z] = selectorNum[z]
  BY <1>1, <1>2 DEF SelectorInv, MapsInv
<1>5. /\ numMap' = [z \in DOMAIN numMap' |-> numMap'[z]]
      /\ DOMAIN numMap' = DOMAIN numMap \cup {nextSelector}
      /\ numMap'[nextSelector] = first
      /\ \A z \in DOMAIN numMap : numMap'[z] = numMap[z]
  BY <1>1 DEF Emplace
<1>6. /\ newSelectors' \in Seq(DOMAIN selectorNum)
      /\ Len(newSelectors') = Len(newSelectors) - 1
      /\ \A i \in 1..Len(newSelectors') : newSelectors'[i] = newSelectors[i + 1]
  BY <1>1, <1>2 DEF SelectorInv, WaitingInv
<1>7. \A i \in 1..Len(newSelectors') : newSelectors'[i] # first
  <2>1. \A i \in 1..Len(newSelectors') : i + 1 \in 1..Len(newSelectors) /\ i + 1 # 1
    BY <1>2, <1>6
  <2>2. 1 \in 1..Len(newSelectors)
    BY <1>2
  <2> QED
    BY <2>1, <2>2, <1>2, <1>6 DEF SelectorInv, WaitingInv
<1>8. MapsInv'
  BY <1>1, <1>3, <1>4, <1>5 DEF SelectorInv, MapsInv
<1>9. WaitingInv'
  <2>1. \A i \in 1..Len(newSelectors') : i + 1 \in 1..Len(newSelectors)
    BY <1>2, <1>6
  <2>2. \A i \in 1..Len(newSelectors') : selectorNum'[newSelectors'[i]] = NoNumber
    BY <2>1, <1>4, <1>6, <1>7 DEF SelectorInv, WaitingInv
  <2>3. \A i, j \in 1..Len(newSelectors') : newSelectors'[i] = newSelectors'[j] => i = j
    <3> SUFFICES ASSUME NEW i \in 1..Len(newSelectors'), NEW j \in 1..Len(newSelectors'),
                        newSelectors'[i] = newSelectors'[j]
                 PROVE  i = j
      OBVIOUS
    <3>1. i + 1 = j + 1
      BY <2>1, <1>6 DEF SelectorInv, WaitingInv
    <3> QED
      BY <3>1, <1>6, <1>2
  <2> QED
    BY <2>2, <2>3, <1>4, <1>6 DEF WaitingInv
<1>10. SelectorsAgree'
  <2>1. \A num \in DOMAIN numMap' :
          numMap'[num] \in DOMAIN selectorNum' /\ selectorNum'[numMap'[num]] = num
    <3>1. \A num \in DOMAIN numMap :
            /\ numMap[num] \in DOMAIN selectorNum /\ selectorNum[numMap[num]] = num
            /\ num # NoNumber
      BY DEF SelectorInv, SelectorsAgree, HasName, MapsInv
    <3> QED
      BY <3>1, <1>2, <1>4, <1>5
  <2>2. ASSUME NEW name \in DOMAIN selectorNum', selectorNum'[name] = NoNumber
        PROVE  \E i \in 1..Len(newSelectors') : newSelectors'[i] = name
    <3>1. name # first /\ selectorNum[name] = NoNumber /\ name \in DOMAIN selectorNum
      BY <2>2, <1>3, <1>4
    <3>2. PICK i \in 1..Len(newSelectors) : newSelectors[i] = name
      BY <3>1 DEF SelectorInv, SelectorsAgree
    <3>3. i # 1
      BY <3>1, <3>2, <1>2
    <3>4. i - 1 \in 1..Len(newSelectors') /\ (i - 1) + 1 = i
      BY <3>2, <3>3, <1>2, <1>6
    <3>5. newSelectors'[i - 1] = newSelectors[(i - 1) + 1]
      BY <3>4, <1>6
    <3> QED
      BY <3>2, <3>4, <3>5
  <2>3. ASSUME NEW name \in DOMAIN selectorNum', selectorNum'[name] # NoNumber
        PROVE  selectorNum'[name] \in DOMAIN numMap' /\ numMap'[selectorNum'[name]] = name
    <3>1. CASE name = first
      BY <3>1, <1>4, <1>5, <1>2
    <3>2. CASE name # first
      <4>1. selectorNum'[name] = selectorNum[name] /\ name \in DOMAIN selectorNum
        BY <3>2, <2>3, <1>4
      <4>2. selectorNum[name] \in DOMAIN numMap /\ numMap[selectorNum[name]] = name
        BY <4>1, <2>3 DEF SelectorInv, SelectorsAgree, HasNumber
      <4> QED
        BY <4>1, <4>2, <1>5
    <3> QED
      BY <3>1, <3>2
  <2> QED
    BY <2>1, <2>2, <2>3 DEF SelectorsAgree, HasName, HasNumber
<1> QED
  BY <1>8, <1>9, <1>10 DEF SelectorInv

-----------------------------------------------------------------------------
(* A step that leaves the selectors alone, or only looks further.          *)
LEMMA Keeping ==
  ASSUME SelectorInv, UNCHANGED <<selectorNum, numMap, newSelectors>>, nextSelector' \in Nat
  PROVE  SelectorInv'
  BY DEF SelectorInv, MapsInv, WaitingInv, SelectorsAgree, HasName, HasNumber

(* Each action of the compilation keeps the tables in agreement.           *)
LEMMA SelectorStep == SelectorInv /\ [Next]_vars => SelectorInv'
<1> SUFFICES ASSUME SelectorInv, [Next]_vars PROVE SelectorInv'
  OBVIOUS
<1>0. nextSelector \in Nat
  BY DEF SelectorInv, MapsInv
<1>1. CASE AddSelector
  <2>1. CASE Item.num = NoNumber /\ AddNewSelector(Item.name)
    BY <2>1, Using
  <2>2. CASE Item.num # NoNumber /\ DeclareSelector(Item.name, Item.num)
    BY <2>2, Declaring
  <2> QED
    BY <1>1, <2>1, <2>2 DEF AddSelector
<1>2. CASE NumberSelectors
  <2>1. CASE SkipSelector
    BY <2>1, <1>0, Keeping DEF SkipSelector
  <2>2. CASE AssignSelector
    BY <2>2, Assigning
  <2> QED
    BY <1>2, <2>1, <2>2 DEF NumberSelectors
<1>3. CASE UNCHANGED selectorVars
  BY <1>0, <1>3, Keeping DEF selectorVars
<1>4. AddDecl => UNCHANGED selectorVars
  BY DEF AddDecl
<1>5. AddDef => UNCHANGED selectorVars
  BY DEF AddDef
<1>6. SetClassSuper => UNCHANGED selectorVars
  BY DEF SetClassSuper
<1>7. ResolveProperties => UNCHANGED selectorVars
  BY DEF ResolveProperties
<1>8. BuildObject => UNCHANGED selectorVars
  BY DEF BuildObject
<1>9. EndPhase => UNCHANGED selectorVars
  BY DEF EndPhase, Tables
<1>10. Fail \/ Crash => UNCHANGED selectorVars
  BY DEF Fail, Crash, Tables
<1>11. Terminated \/ UNCHANGED vars => UNCHANGED selectorVars
  BY DEF Terminated, vars
<1> QED
  BY <1>1, <1>2, <1>3, <1>4, <1>5, <1>6, <1>7, <1>8, <1>9, <1>10, <1>11 DEF Next

(* Whatever the scripts declare and use, in which order and how many of    *)
(* them: no number stands for two selectors, none has two, and only those  *)
(* that wait for Build have none (DeclareSelector, AddNewSelector and      *)
(* Build in selector_table.cpp).                                           *)
THEOREM SelectorAgreement == Spec => []SelectorsAgree
<1>1. Init => SelectorInv
  BY InitialSelectors DEF Init
<1>2. SelectorInv /\ [Next]_vars => SelectorInv'
  BY SelectorStep
<1>3. SelectorInv => SelectorsAgree
  BY DEF SelectorInv
<1> QED
  BY <1>1, <1>2, <1>3, PTL DEF Spec

-----------------------------------------------------------------------------
(* The phases follow one another.                                          *)

PhaseRank(p) ==
  CASE p = "selectors" -> 1 [] p = "numbering" -> 2 [] p = "gather" -> 3
    [] p = "decls" -> 4 [] p = "declSupers" -> 5 [] p = "declProps" -> 6
    [] p = "defs" -> 7 [] p = "copies" -> 8 [] p = "defSupers" -> 9
    [] p = "copySupers" -> 10 [] p = "defProps" -> 11 [] p = "objects" -> 12
    [] p = "done" -> 13

LEMMA OrderIs ==
  /\ Order[1] = "selectors" /\ Order[2] = "numbering" /\ Order[3] = "gather"
  /\ Order[4] = "decls" /\ Order[5] = "declSupers" /\ Order[6] = "declProps"
  /\ Order[7] = "defs" /\ Order[8] = "copies" /\ Order[9] = "defSupers"
  /\ Order[10] = "copySupers" /\ Order[11] = "defProps" /\ Order[12] = "objects"
  /\ Order[13] = "done"
  BY DEF Order

LEMMA RankIs == \A i \in 1..13 : PhaseRank(Order[i]) = i
<1> SUFFICES ASSUME NEW i \in 1..13 PROVE PhaseRank(Order[i]) = i
  OBVIOUS
<1>1. \/ i = 1 \/ i = 2 \/ i = 3 \/ i = 4 \/ i = 5 \/ i = 6 \/ i = 7
      \/ i = 8 \/ i = 9 \/ i = 10 \/ i = 11 \/ i = 12 \/ i = 13
  OBVIOUS
<1> QED
  BY <1>1, OrderIs DEF PhaseRank

LEMMA AfterOrder ==
  ASSUME NEW k \in 1..12
  PROVE  After(Order[k]) = Order[k + 1]
<1>1. k \in 1..13
  OBVIOUS
<1>2. \A i \in 1..13 : Order[i] = Order[k] <=> i = k
  BY <1>1, RankIs
<1>3. (CHOOSE i \in 1..13 : Order[i] = Order[k]) = k
  BY <1>1, <1>2
<1>4. Len(Order) = 13
  BY DEF Order
<1> QED
  BY <1>3, <1>4 DEF After

LEMMA AfterIs ==
  /\ After("selectors") = "numbering" /\ After("numbering") = "gather"
  /\ After("gather") = "decls" /\ After("decls") = "declSupers"
  /\ After("declSupers") = "declProps" /\ After("declProps") = "defs"
  /\ After("defs") = "copies" /\ After("copies") = "defSupers"
  /\ After("defSupers") = "copySupers" /\ After("copySupers") = "defProps"
  /\ After("defProps") = "objects" /\ After("objects") = "done"
<1>1. \A k \in 1..12 : After(Order[k]) = Order[k + 1]
  BY AfterOrder
<1>2. /\ After(Order[1]) = Order[2] /\ After(Order[2]) = Order[3]
      /\ After(Order[3]) = Order[4] /\ After(Order[4]) = Order[5]
      /\ After(Order[5]) = Order[6] /\ After(Order[6]) = Order[7]
      /\ After(Order[7]) = Order[8] /\ After(Order[8]) = Order[9]
      /\ After(Order[9]) = Order[10] /\ After(Order[10]) = Order[11]
      /\ After(Order[11]) = Order[12] /\ After(Order[12]) = Order[13]
  BY <1>1
<1> QED
  BY <1>2, OrderIs

(* Where the compilation is, in the items it was given.                    *)
PhaseInv ==
  /\ IsSource(source)
  /\ cursor \in Nat \ {0}
  /\ phase \in {"selectors", "numbering", "gather", "decls", "declSupers", "declProps",
                "defs", "copies", "defSupers", "copySupers", "defProps", "objects",
                "done", "failed", "crashed"}

LEMMA PhaseBegins == Init => PhaseInv
<1> SUFFICES ASSUME Init PROVE PhaseInv
  OBVIOUS
<1>1. PICK program \in Programs : source = Source(program)
  BY DEF Init
<1>2. IsSource(source)
  BY <1>1, ProgramsAssumption
<1> QED
  BY <1>2 DEF PhaseInv, Init

LEMMA SourceStays ==
  ASSUME [Next]_vars
  PROVE  source' = source
  BY DEF Next, vars, AddSelector, NumberSelectors, AddDecl, AddDef, SetClassSuper,
         ResolveProperties, BuildObject, EndPhase, Fail, Crash, Terminated, Advance, Stay

LEMMA PhaseStep == PhaseInv /\ [Next]_vars => PhaseInv'
<1> SUFFICES ASSUME PhaseInv, [Next]_vars PROVE PhaseInv'
  OBVIOUS
<1>1. IsSource(source')
  BY SourceStays DEF PhaseInv
<1>2. CASE EndPhase
  <2>1. phase' = After(phase) /\ cursor' = 1 /\ Working
    BY <1>2 DEF EndPhase
  <2>2. phase' \in {"selectors", "numbering", "gather", "decls", "declSupers", "declProps",
                    "defs", "copies", "defSupers", "copySupers", "defProps", "objects",
                    "done", "failed", "crashed"}
    BY <2>1, AfterIs DEF PhaseInv, Working
  <2>3. cursor' \in Nat \ {0}
    BY <2>1
  <2> QED
    BY <1>1, <2>2, <2>3 DEF PhaseInv
<1>3. CASE Advance
  <2>1. cursor \in Nat /\ cursor' = cursor + 1 /\ phase' = phase
    BY <1>3 DEF Advance, PhaseInv
  <2>2. cursor' \in Nat \ {0}
    BY <2>1
  <2> QED
    BY <1>1, <2>1, <2>2 DEF PhaseInv
<1>4. CASE Stay \/ UNCHANGED vars
  BY <1>1, <1>4 DEF Stay, PhaseInv, vars
<1>5. CASE Fail \/ Crash
  BY <1>1, <1>5 DEF Fail, Crash, PhaseInv
<1> QED
  BY <1>2, <1>3, <1>4, <1>5
  DEF Next, AddSelector, NumberSelectors, AddDecl, AddDef, SetClassSuper,
      ResolveProperties, BuildObject, Terminated

-----------------------------------------------------------------------------
(* The numbers of new selectors.  While selectors are entered, those that  *)
(* wait are the first uses so far, in their order; while they are numbered *)
(* the first uses up to some have numbers, which grow, and below the next  *)
(* candidate no number is free.                                            *)

WaitInOrder ==
  /\ \A j \in 1..Len(newSelectors) : \E i \in FirstUses : newSelectors[j] = Calls[i].name
  /\ \A j, k \in 1..Len(newSelectors) : \A i, m \in FirstUses :
       newSelectors[j] = Calls[i].name /\ newSelectors[k] = Calls[m].name /\ j < k => i < m

Waits(i) == \E j \in 1..Len(newSelectors) : newSelectors[j] = Calls[i].name

EnteredNames == DOMAIN Standard \cup {Calls[k].name : k \in 1..(cursor - 1)}
EnteredNumbers == Range(Standard) \cup ({Calls[k].num : k \in 1..(cursor - 1)} \ {NoNumber})

Entering ==
  /\ cursor <= Len(Calls) + 1
  /\ DOMAIN selectorNum = EnteredNames
  /\ DOMAIN numMap = EnteredNumbers
  /\ \A i \in FirstUses : Waits(i) <=> i < cursor
  /\ nextSelector = 0

Assigned == {i \in FirstUses : NumberOf(i) # NoNumber}

Numbering ==
  /\ DOMAIN numMap = (Given \ {NoNumber}) \cup {NumberOf(i) : i \in Assigned}
  /\ \A i \in FirstUses : Calls[i].name \in DOMAIN selectorNum /\ (Waits(i) <=> i \notin Assigned)
  /\ \A i \in Assigned : NumberOf(i) \in 0..(nextSelector - 1) /\ NumberOf(i) \notin Given
  /\ \A i \in FirstUses, m \in Assigned :
       i < m => i \in Assigned /\ NumberOf(i) < NumberOf(m)
  /\ 0..(nextSelector - 1) \subseteq DOMAIN numMap

GapsInv ==
  /\ SelectorInv
  /\ PhaseInv
  /\ phase \notin {"failed", "crashed"} => WaitInOrder
  /\ phase = "selectors" => Entering
  /\ phase = "numbering" => cursor = 1
  /\ phase = "numbering" \/ Numbered => Numbering
  /\ Numbered => newSelectors = <<>>

LEMMA CallsAre ==
  ASSUME PhaseInv
  PROVE  /\ Len(Calls) \in Nat /\ FirstUses \subseteq 1..Len(Calls)
         /\ \A i, m \in FirstUses : Calls[i].name = Calls[m].name => i = m
<1>1. Len(Calls) \in Nat
  <2>1. Calls \in Seq(Range(Calls))
    BY DEF PhaseInv, IsSource, IsList, Calls
  <2> QED
    BY <2>1
<1>2. ASSUME NEW i \in FirstUses, NEW m \in FirstUses, Calls[i].name = Calls[m].name, i < m
      PROVE  FALSE
  <2>1. i \in 1..(m - 1)
    BY <1>1, <1>2 DEF FirstUses
  <2> QED
    BY <1>2, <2>1 DEF FirstUses, IsFirstUse
<1>3. FirstUses \subseteq 1..Len(Calls)
  BY DEF FirstUses
<1> QED
  BY <1>1, <1>2, <1>3

LEMMA SameUses ==
  ASSUME source' = source
  PROVE  /\ Calls' = Calls /\ FirstUses' = FirstUses /\ Given' = Given
  BY DEF Calls, FirstUses, IsFirstUse, Given

LEMMA GapsBegin == Init => GapsInv
<1> SUFFICES ASSUME Init PROVE GapsInv
  OBVIOUS
<1>1. SelectorInv /\ PhaseInv
  BY InitialSelectors, PhaseBegins DEF Init
<1>2. /\ phase = "selectors" /\ cursor = 1 /\ newSelectors = <<>> /\ nextSelector = 0
      /\ DOMAIN selectorNum = DOMAIN Standard /\ DOMAIN numMap = Range(Standard)
  BY DEF Init, InitSelectors
<1>3. Len(Calls) \in Nat /\ FirstUses \subseteq 1..Len(Calls)
  BY <1>1, CallsAre
<1>4. 1..(cursor - 1) = {}
  BY <1>2
<1>5. EnteredNames = DOMAIN Standard /\ EnteredNumbers = Range(Standard)
  BY <1>4 DEF EnteredNames, EnteredNumbers
<1>6. \A i \in FirstUses : ~Waits(i) /\ ~(i < cursor)
  BY <1>2, <1>3 DEF Waits
<1>7. Entering
  BY <1>2, <1>3, <1>5, <1>6 DEF Entering
<1>8. WaitInOrder
  BY <1>2 DEF WaitInOrder
<1> QED
  BY <1>1, <1>2, <1>7, <1>8 DEF GapsInv, Numbered

(* A call is entered: the name waits if this is its first use.             *)
LEMMA EnteringGoesOn ==
  ASSUME GapsInv, phase = "selectors", AddSelector
  PROVE  WaitInOrder' /\ Entering'
<1> DEFINE c == cursor
           x == Calls[cursor]
<1>1. /\ Entering /\ WaitInOrder /\ SelectorInv /\ PhaseInv
  BY DEF GapsInv
<1>2. /\ Len(Calls) \in Nat /\ FirstUses \subseteq 1..Len(Calls)
      /\ \A i, m \in FirstUses : Calls[i].name = Calls[m].name => i = m
  BY <1>1, CallsAre
<1>3. cursor \in 1..Len(Calls) /\ cursor' = cursor + 1 /\ source' = source
  <2>1. cursor <= Len(Calls)
    BY DEF AddSelector, At, ListOf
  <2> QED
    BY <1>1, <1>2, <2>1 DEF AddSelector, Advance, PhaseInv
<1>4. Calls' = Calls /\ FirstUses' = FirstUses
  BY <1>3, SameUses
<1>5. Item = x
  BY DEF Item, ListOf
<1>6. 1..(cursor' - 1) = 1..(cursor - 1) \cup {cursor}
  BY <1>3
<1>7. /\ EnteredNames' = EnteredNames \cup {x.name}
      /\ EnteredNumbers' = EnteredNumbers \cup ({x.num} \ {NoNumber})
  BY <1>4, <1>6 DEF EnteredNames, EnteredNumbers
<1>8. c \in FirstUses <=> x.num = NoNumber /\ x.name \notin DOMAIN selectorNum
  BY <1>1, <1>3 DEF FirstUses, IsFirstUse, Entering, EnteredNames
<1>9. \A i \in FirstUses : i < cursor + 1 <=> i < cursor \/ i = cursor
  BY <1>2, <1>3
<1>10. cursor' <= Len(Calls') + 1
  BY <1>2, <1>3, <1>4
<1>11. CASE x.num = NoNumber /\ x.name \notin DOMAIN selectorNum
  <2>1. /\ selectorNum' = Emplace(selectorNum, x.name, NoNumber)
        /\ newSelectors' = Append(newSelectors, x.name)
        /\ UNCHANGED <<numMap, nextSelector>>
    BY <1>5, <1>11 DEF AddSelector, AddNewSelector, HasName, selectorVars
  <2>2. DOMAIN selectorNum' = DOMAIN selectorNum \cup {x.name}
    BY <2>1 DEF Emplace
  <2>3. /\ Len(newSelectors) \in Nat /\ Len(newSelectors') = Len(newSelectors) + 1
        /\ newSelectors'[Len(newSelectors) + 1] = x.name
        /\ \A j \in 1..Len(newSelectors) : newSelectors'[j] = newSelectors[j]
    BY <1>1, <2>1 DEF SelectorInv, WaitingInv
  <2>4. EnteredNumbers' = EnteredNumbers
    BY <1>7, <1>11
  <2>5. c \in FirstUses
    BY <1>8, <1>11
  <2>6. \A j \in 1..Len(newSelectors') :
          j \in 1..Len(newSelectors) \/ j = Len(newSelectors) + 1
    BY <2>3
  <2>7. ASSUME NEW j \in 1..Len(newSelectors), NEW i \in FirstUses,
               newSelectors[j] = Calls[i].name
        PROVE  i < cursor
    BY <1>1, <2>7 DEF Entering, Waits
  <2>8. \A i \in FirstUses : Waits(i)' <=> Waits(i) \/ i = c
    <3> SUFFICES ASSUME NEW i \in FirstUses PROVE Waits(i)' <=> Waits(i) \/ i = c
      OBVIOUS
    <3>1. Waits(i)' => Waits(i) \/ i = c
      BY <1>2, <1>4, <2>3, <2>5, <2>6 DEF Waits
    <3>2. Waits(i) => Waits(i)'
      BY <1>4, <2>3 DEF Waits
    <3>3. Len(newSelectors) + 1 \in 1..Len(newSelectors')
      BY <2>3
    <3>4. i = c => Waits(i)'
      BY <1>4, <2>3, <3>3 DEF Waits
    <3> QED
      BY <3>1, <3>2, <3>4
  <2>9. Entering'
    BY <1>1, <1>3, <1>4, <1>7, <1>9, <1>10, <2>1, <2>2, <2>4, <2>8 DEF Entering
  <2>10. \A j \in 1..Len(newSelectors') : \E i \in FirstUses : newSelectors'[j] = Calls[i].name
    BY <1>1, <2>3, <2>5, <2>6 DEF WaitInOrder
  <2>11. ASSUME NEW j \in 1..Len(newSelectors'), NEW k \in 1..Len(newSelectors'),
                NEW i \in FirstUses, NEW m \in FirstUses, j < k,
                newSelectors'[j] = Calls[i].name, newSelectors'[k] = Calls[m].name
         PROVE  i < m
    <3>1. j \in 1..Len(newSelectors)
      BY <2>3, <2>11
    <3>2. newSelectors[j] = Calls[i].name /\ i < cursor
      BY <2>3, <2>7, <2>11, <3>1
    <3>3. CASE k \in 1..Len(newSelectors)
      BY <1>1, <2>3, <2>11, <3>1, <3>2, <3>3 DEF WaitInOrder
    <3>4. CASE k = Len(newSelectors) + 1
      <4>1. m = c
        BY <1>2, <2>3, <2>5, <2>11, <3>4
      <4> QED
        BY <3>2, <4>1
    <3> QED
      BY <2>6, <3>3, <3>4
  <2>12. WaitInOrder'
    BY <1>4, <2>10, <2>11 DEF WaitInOrder
  <2> QED
    BY <2>9, <2>12
<1>12. CASE ~(x.num = NoNumber /\ x.name \notin DOMAIN selectorNum)
  <2>1. c \notin FirstUses
    BY <1>8, <1>12
  <2>2. newSelectors' = newSelectors /\ nextSelector' = nextSelector
    BY <1>5, <1>12 DEF AddSelector, AddNewSelector, DeclareSelector, HasName, selectorVars
  <2>3. WaitInOrder'
    BY <1>1, <1>4, <2>2 DEF WaitInOrder
  <2>4. \A i \in FirstUses : Waits(i)' <=> Waits(i)
    BY <1>4, <2>2 DEF Waits
  <2>5. \A i \in FirstUses : i < cursor + 1 <=> i < cursor
    BY <1>9, <2>1
  <2>6. /\ DOMAIN selectorNum' = DOMAIN selectorNum \cup {x.name}
        /\ DOMAIN numMap' = DOMAIN numMap \cup ({x.num} \ {NoNumber})
    <3>1. CASE x.num = NoNumber
      BY <1>5, <1>12, <3>1 DEF AddSelector, AddNewSelector, HasName, selectorVars
    <3>2. CASE x.num # NoNumber /\ CanDeclare(x.name, x.num)
      <4>1. /\ selectorNum' = Emplace(selectorNum, x.name, x.num)
            /\ numMap' = Emplace(numMap, x.num, x.name)
        BY <1>5, <3>2 DEF AddSelector, DeclareSelector, CanDeclare, IsDeclared
      <4> QED
        BY <3>2, <4>1 DEF Emplace
    <3>3. CASE x.num # NoNumber /\ ~CanDeclare(x.name, x.num)
      BY <1>5, <3>3 DEF AddSelector, DeclareSelector, IsDeclared, HasName, HasNumber, selectorVars
    <3> QED
      BY <3>1, <3>2, <3>3
  <2>7. Entering'
    BY <1>1, <1>3, <1>4, <1>7, <1>10, <2>2, <2>4, <2>5, <2>6 DEF Entering
  <2> QED
    BY <2>3, <2>7
<1> QED
  BY <1>11, <1>12

(* When all are entered, those that wait are all the first uses.           *)
LEMMA EnteringEnds ==
  ASSUME GapsInv, phase = "selectors", cursor > Len(Calls)
  PROVE  Numbering
<1>1. /\ Entering /\ WaitInOrder /\ SelectorInv /\ PhaseInv
  BY DEF GapsInv
<1>2. /\ Len(Calls) \in Nat /\ FirstUses \subseteq 1..Len(Calls)
  BY <1>1, CallsAre
<1>3. cursor = Len(Calls) + 1
  BY <1>1, <1>2 DEF Entering, PhaseInv
<1>4. cursor - 1 = Len(Calls)
  BY <1>2, <1>3
<1>5. \A i \in FirstUses : Waits(i)
  BY <1>1, <1>2, <1>3 DEF Entering
<1>6. \A i \in FirstUses : Calls[i].name \in DOMAIN selectorNum /\ NumberOf(i) = NoNumber
  BY <1>1, <1>5 DEF Waits, SelectorInv, WaitingInv, NumberOf
<1>7. Assigned = {}
  BY <1>6 DEF Assigned
<1>8. DOMAIN numMap = Given \ {NoNumber}
  <2>1. NoNumber \notin Range(Standard)
    BY SelectorAssumption DEF Range
  <2> QED
    BY <1>1, <1>4, <2>1 DEF Entering, EnteredNumbers, Given
<1>9. 0..(nextSelector - 1) = {}
  BY <1>1 DEF Entering
<1> QED
  BY <1>5, <1>6, <1>7, <1>8, <1>9 DEF Numbering

(* The first of those that wait gets the next number nobody has.           *)
LEMMA NumberingGoesOn ==
  ASSUME GapsInv, phase = "numbering", source' = source, AssignSelector
  PROVE  WaitInOrder' /\ Numbering'
<1>1. /\ Numbering /\ WaitInOrder /\ SelectorInv /\ PhaseInv
  BY DEF GapsInv
<1>2. /\ Len(Calls) \in Nat /\ FirstUses \subseteq 1..Len(Calls)
      /\ \A i, m \in FirstUses : Calls[i].name = Calls[m].name => i = m
  BY <1>1, CallsAre
<1>3. Calls' = Calls /\ FirstUses' = FirstUses /\ Given' = Given
  BY SameUses
<1>4. /\ newSelectors # <<>> /\ nextSelector \notin DOMAIN numMap /\ nextSelector \in Nat
      /\ selectorNum' = [selectorNum EXCEPT ![Head(newSelectors)] = nextSelector]
      /\ numMap' = Emplace(numMap, nextSelector, Head(newSelectors))
      /\ newSelectors' = Tail(newSelectors)
      /\ nextSelector' = nextSelector + 1
  BY <1>1 DEF AssignSelector, HasNumber, SelectorInv, MapsInv
<1>5. /\ Len(newSelectors) \in Nat \ {0} /\ newSelectors[1] = Head(newSelectors)
      /\ Len(newSelectors') = Len(newSelectors) - 1
      /\ \A j \in 1..Len(newSelectors') : newSelectors'[j] = newSelectors[j + 1]
  BY <1>1, <1>4 DEF SelectorInv, WaitingInv
<1>6. PICK p \in FirstUses : newSelectors[1] = Calls[p].name
  BY <1>1, <1>5 DEF WaitInOrder
<1>7. Calls[p].name \in DOMAIN selectorNum /\ p \notin Assigned
  BY <1>1, <1>5, <1>6 DEF Numbering, Waits
<1>8. /\ NumberOf(p)' = nextSelector
      /\ \A i \in FirstUses : i # p => NumberOf(i)' = NumberOf(i)
  BY <1>1, <1>2, <1>3, <1>4, <1>5, <1>6, <1>7 DEF NumberOf, SelectorInv, MapsInv
<1>9. nextSelector # NoNumber
  BY <1>4, SelectorAssumption
<1>10. Assigned' = Assigned \cup {p}
  BY <1>3, <1>6, <1>8, <1>9 DEF Assigned
<1>11. \A j \in 1..Len(newSelectors') : j + 1 \in 1..Len(newSelectors) /\ 1 < j + 1
  BY <1>5
<1>12. \A i \in FirstUses : Waits(i)' <=> Waits(i) /\ i # p
  <2> SUFFICES ASSUME NEW i \in FirstUses PROVE Waits(i)' <=> Waits(i) /\ i # p
    OBVIOUS
  <2>1. ASSUME NEW j \in 1..Len(newSelectors'), newSelectors'[j] = Calls[i].name
        PROVE  Waits(i) /\ p < i
    <3>1. newSelectors[j + 1] = Calls[i].name /\ j + 1 \in 1..Len(newSelectors)
      BY <1>5, <1>11, <2>1
    <3>2. Waits(i)
      BY <3>1 DEF Waits
    <3>3. p < i
      BY <1>1, <1>5, <1>6, <1>11, <3>1 DEF WaitInOrder
    <3> QED
      BY <3>2, <3>3
  <2>2. Waits(i)' => Waits(i) /\ i # p
    BY <1>2, <1>3, <2>1 DEF Waits
  <2>3. ASSUME NEW j \in 1..Len(newSelectors), newSelectors[j] = Calls[i].name, i # p
        PROVE  Waits(i)'
    <3>1. j # 1
      BY <1>2, <1>6, <2>3
    <3>2. j - 1 \in 1..Len(newSelectors') /\ (j - 1) + 1 = j
      BY <1>5, <3>1
    <3>3. newSelectors'[j - 1] = newSelectors[(j - 1) + 1]
      BY <1>5, <3>2
    <3> QED
      BY <1>3, <2>3, <3>2, <3>3 DEF Waits
  <2> QED
    BY <2>2, <2>3 DEF Waits
<1>13. \A i \in FirstUses : i # p /\ i \notin Assigned => p < i
  <2> SUFFICES ASSUME NEW i \in FirstUses, i # p, i \notin Assigned PROVE p < i
    OBVIOUS
  <2>1. PICK j \in 1..Len(newSelectors) : newSelectors[j] = Calls[i].name
    BY <1>1 DEF Numbering, Waits
  <2>2. 1 < j
    BY <1>2, <1>5, <1>6, <2>1
  <2>3. 1 \in 1..Len(newSelectors)
    BY <1>5
  <2> QED
    BY <1>1, <1>6, <2>1, <2>2, <2>3 DEF WaitInOrder
<1>14. \A m \in Assigned : m < p
  <2> SUFFICES ASSUME NEW m \in Assigned, ~(m < p) PROVE FALSE
    OBVIOUS
  <2>1. m \in FirstUses /\ m # p
    BY <1>7 DEF Assigned
  <2>2. p < m
    BY <1>2, <2>1
  <2> QED
    BY <1>1, <1>7, <2>2 DEF Numbering
<1>15. WaitInOrder'
  <2>1. \A j \in 1..Len(newSelectors') : \E i \in FirstUses : newSelectors'[j] = Calls[i].name
    BY <1>1, <1>5, <1>11 DEF WaitInOrder
  <2>2. ASSUME NEW j \in 1..Len(newSelectors'), NEW k \in 1..Len(newSelectors'),
               NEW i \in FirstUses, NEW m \in FirstUses, j < k,
               newSelectors'[j] = Calls[i].name, newSelectors'[k] = Calls[m].name
        PROVE  i < m
    <3>1. j + 1 < k + 1 /\ j + 1 \in 1..Len(newSelectors) /\ k + 1 \in 1..Len(newSelectors)
      BY <1>11, <2>2
    <3> QED
      BY <1>1, <1>5, <2>2, <3>1 DEF WaitInOrder
  <2> QED
    BY <1>3, <2>1, <2>2 DEF WaitInOrder
<1>16. DOMAIN numMap' = DOMAIN numMap \cup {nextSelector}
  BY <1>4 DEF Emplace
<1>17. nextSelector \notin Given
  BY <1>1, <1>4, <1>9 DEF Numbering
<1>18. DOMAIN numMap' = (Given \ {NoNumber}) \cup {NumberOf(i)' : i \in Assigned'}
  <2>1. {NumberOf(i)' : i \in Assigned'} = {NumberOf(i) : i \in Assigned} \cup {nextSelector}
    BY <1>7, <1>8, <1>10 DEF Assigned
  <2> QED
    BY <1>1, <1>16, <2>1 DEF Numbering
<1>19. \A i \in FirstUses : Calls[i].name \in DOMAIN selectorNum' /\ (Waits(i)' <=> i \notin Assigned')
  <2>1. DOMAIN selectorNum' = DOMAIN selectorNum
    BY <1>4
  <2> QED
    BY <1>1, <1>10, <1>12, <2>1 DEF Numbering
<1>20. \A i \in Assigned' : NumberOf(i)' \in 0..(nextSelector' - 1) /\ NumberOf(i)' \notin Given
  <2>1. nextSelector \in 0..(nextSelector' - 1)
        /\ 0..(nextSelector - 1) \subseteq 0..(nextSelector' - 1)
    BY <1>4
  <2> QED
    BY <1>1, <1>7, <1>8, <1>10, <1>17, <2>1 DEF Numbering, Assigned
<1>21. \A i \in FirstUses, m \in Assigned' :
         i < m => i \in Assigned' /\ NumberOf(i)' < NumberOf(m)'
  <2> SUFFICES ASSUME NEW i \in FirstUses, NEW m \in Assigned', i < m
               PROVE  i \in Assigned' /\ NumberOf(i)' < NumberOf(m)'
    OBVIOUS
  <2>1. CASE m = p
    <3>1. i # p /\ i \in Assigned
      BY <1>2, <1>13, <2>1
    <3>2. NumberOf(i) < nextSelector
      BY <1>1, <1>4, <3>1 DEF Numbering
    <3> QED
      BY <1>8, <1>10, <2>1, <3>1, <3>2
  <2>2. CASE m # p
    <3>1. m \in Assigned /\ m \in FirstUses
      BY <1>10, <2>2 DEF Assigned
    <3>2. i \in Assigned /\ NumberOf(i) < NumberOf(m)
      BY <1>1, <3>1 DEF Numbering
    <3> QED
      BY <1>7, <1>8, <1>10, <2>2, <3>1, <3>2
  <2> QED
    BY <2>1, <2>2
<1>22. 0..(nextSelector' - 1) \subseteq DOMAIN numMap'
  <2>1. \A n \in 0..(nextSelector' - 1) : n \in 0..(nextSelector - 1) \/ n = nextSelector
    BY <1>4
  <2> QED
    BY <1>1, <1>16, <2>1 DEF Numbering
<1>23. Numbering'
  BY <1>3, <1>18, <1>19, <1>20, <1>21, <1>22 DEF Numbering
<1> QED
  BY <1>15, <1>23

(* A number that is taken is passed over.                                  *)
LEMMA NumberingLooksOn ==
  ASSUME GapsInv, phase = "numbering", source' = source, SkipSelector
  PROVE  WaitInOrder' /\ Numbering'
<1>1. /\ Numbering /\ WaitInOrder /\ nextSelector \in Nat
  BY DEF GapsInv, SelectorInv, MapsInv
<1>2. Calls' = Calls /\ FirstUses' = FirstUses /\ Given' = Given
  BY SameUses
<1>3. /\ nextSelector \in DOMAIN numMap /\ nextSelector' = nextSelector + 1
      /\ selectorNum' = selectorNum /\ numMap' = numMap /\ newSelectors' = newSelectors
  BY DEF SkipSelector, HasNumber
<1>4. \A i : NumberOf(i)' = NumberOf(i)
  BY <1>2, <1>3 DEF NumberOf
<1>5. Assigned' = Assigned
  BY <1>2, <1>4 DEF Assigned
<1>6. \A i : Waits(i)' <=> Waits(i)
  BY <1>2, <1>3 DEF Waits
<1>7. /\ 0..(nextSelector - 1) \subseteq 0..(nextSelector' - 1)
      /\ \A n \in 0..(nextSelector' - 1) : n \in 0..(nextSelector - 1) \/ n = nextSelector
  BY <1>1, <1>3
<1>8. WaitInOrder'
  BY <1>1, <1>2, <1>3 DEF WaitInOrder
<1>9. /\ DOMAIN numMap' = (Given \ {NoNumber}) \cup {NumberOf(i)' : i \in Assigned}
      /\ \A i \in FirstUses : Calls[i].name \in DOMAIN selectorNum' /\ (Waits(i)' <=> i \notin Assigned)
      /\ \A i \in Assigned : NumberOf(i)' \in 0..(nextSelector' - 1) /\ NumberOf(i)' \notin Given
      /\ \A i \in FirstUses, m \in Assigned :
           i < m => i \in Assigned /\ NumberOf(i)' < NumberOf(m)'
      /\ 0..(nextSelector' - 1) \subseteq DOMAIN numMap'
  BY <1>1, <1>3, <1>4, <1>6, <1>7 DEF Numbering
<1>10. Numbering'
  BY <1>2, <1>5, <1>9 DEF Numbering
<1> QED
  BY <1>8, <1>10

LEMMA NumbersStay ==
  ASSUME source' = source, UNCHANGED selectorVars
  PROVE  /\ WaitInOrder' <=> WaitInOrder
         /\ Numbering' <=> Numbering
         /\ cursor' = cursor => (Entering' <=> Entering)
<1>1. Calls' = Calls /\ FirstUses' = FirstUses /\ Given' = Given
  BY SameUses
<1>2. /\ selectorNum' = selectorNum /\ numMap' = numMap /\ newSelectors' = newSelectors
      /\ nextSelector' = nextSelector
  BY DEF selectorVars
<1>3. \A i : NumberOf(i)' = NumberOf(i)
  BY <1>1, <1>2 DEF NumberOf
<1>4. Assigned' = Assigned
  BY <1>1, <1>3 DEF Assigned
<1>5. \A i : Waits(i)' <=> Waits(i)
  BY <1>1, <1>2 DEF Waits
<1>6. WaitInOrder' <=> WaitInOrder
  BY <1>1, <1>2 DEF WaitInOrder
<1>7. Numbering' <=> Numbering
  <2>1. {NumberOf(i)' : i \in Assigned} = {NumberOf(i) : i \in Assigned}
    BY <1>3
  <2>2. \A i \in FirstUses : (Waits(i)' <=> i \notin Assigned) <=> (Waits(i) <=> i \notin Assigned)
    BY <1>5
  <2>3. numMap' = numMap /\ selectorNum' = selectorNum /\ nextSelector' = nextSelector
    BY <1>2
  <2> QED
    BY <1>1, <1>3, <1>4, <2>1, <2>2, <2>3, Zenon DEF Numbering
<1>8. ASSUME cursor' = cursor PROVE Entering' <=> Entering
  <2>1. EnteredNames' = EnteredNames /\ EnteredNumbers' = EnteredNumbers
    BY <1>1, <1>8 DEF EnteredNames, EnteredNumbers
  <2> QED
    BY <1>1, <1>2, <1>5, <1>8, <2>1 DEF Entering
<1> QED
  BY <1>6, <1>7, <1>8

LEMMA GapsStep == GapsInv /\ [Next]_vars => GapsInv'
<1> SUFFICES ASSUME GapsInv, [Next]_vars PROVE GapsInv'
  OBVIOUS
<1>1. SelectorInv' /\ PhaseInv'
  BY SelectorStep, PhaseStep DEF GapsInv
<1>2. source' = source
  BY SourceStays
<1>3. SelectorInv /\ PhaseInv
  BY DEF GapsInv
<1>4. CASE AddSelector
  <2>1. phase = "selectors" /\ phase' = phase
    BY <1>4 DEF AddSelector, At, Advance
  <2>2. WaitInOrder' /\ Entering'
    BY <1>4, <2>1, EnteringGoesOn
  <2> QED
    BY <1>1, <2>1, <2>2 DEF GapsInv, Numbered
<1>5. CASE NumberSelectors
  <2>1. phase = "numbering" /\ phase' = phase
    BY <1>5 DEF NumberSelectors, At, Stay
  <2>2. cursor' = cursor
    BY <1>5 DEF NumberSelectors, Stay
  <2>3. WaitInOrder' /\ Numbering'
    BY <1>2, <1>5, <2>1, NumberingGoesOn, NumberingLooksOn DEF NumberSelectors
  <2> QED
    BY <1>1, <2>1, <2>2, <2>3 DEF GapsInv, Numbered
<1>6. CASE EndPhase
  <2>1. /\ Working /\ cursor > Len(ListOf(phase)) /\ phase' = After(phase)
        /\ UNCHANGED selectorVars
    BY <1>6 DEF EndPhase, Tables
  <2>2. (WaitInOrder' <=> WaitInOrder) /\ (Numbering' <=> Numbering)
    BY <1>2, <2>1, NumbersStay
  <2>3. CASE phase = "selectors"
    <3>1. cursor > Len(Calls)
      BY <2>1, <2>3 DEF ListOf
    <3>2. Numbering /\ WaitInOrder
      BY <2>3, <3>1, EnteringEnds DEF GapsInv
    <3>3. phase' = "numbering" /\ cursor' = 1
      BY <1>6, <2>1, <2>3, AfterIs DEF EndPhase
    <3> QED
      BY <1>1, <2>2, <3>2, <3>3 DEF GapsInv, Numbered
  <2>4. CASE phase = "numbering"
    <3>1. 1 > Len(newSelectors)
      BY <2>1, <2>4 DEF ListOf, GapsInv
    <3>2. newSelectors = <<>>
      BY <1>3, <3>1 DEF SelectorInv, WaitingInv
    <3>3. phase' = "gather" /\ Numbering /\ WaitInOrder
      BY <2>1, <2>4, AfterIs DEF GapsInv
    <3>4. newSelectors' = <<>>
      BY <2>1, <3>2 DEF selectorVars
    <3> QED
      BY <1>1, <2>2, <3>3, <3>4 DEF GapsInv, Numbered
  <2>5. CASE phase \notin {"selectors", "numbering"}
    <3>1. Numbered
      BY <2>1, <2>5 DEF Working, Numbered
    <3>2. phase' \notin {"selectors", "numbering"}
      BY <1>3, <2>1, <2>5, AfterIs DEF PhaseInv, Working
    <3>3. newSelectors' = <<>>
      BY <2>1, <3>1 DEF GapsInv, selectorVars
    <3> QED
      BY <1>1, <2>2, <3>1, <3>2, <3>3 DEF GapsInv, Numbered
  <2> QED
    BY <2>3, <2>4, <2>5
<1>7. CASE Fail \/ Crash
  BY <1>1, <1>7 DEF Fail, Crash, GapsInv, Numbered
<1>8. ASSUME UNCHANGED selectorVars, phase' = phase,
             phase \in {"selectors", "numbering"} => cursor' = cursor
      PROVE  GapsInv'
  <2>1. /\ WaitInOrder' <=> WaitInOrder
        /\ Numbering' <=> Numbering
        /\ phase = "selectors" => (Entering' <=> Entering)
    BY <1>2, <1>8, NumbersStay
  <2> QED
    BY <1>1, <1>8, <2>1 DEF GapsInv, Numbered, selectorVars
<1>9. CASE AddDecl \/ AddDef \/ SetClassSuper \/ ResolveProperties \/ BuildObject
  BY <1>8, <1>9
  DEF AddDecl, AddDef, SetClassSuper, ResolveProperties, BuildObject, At, Advance, Stay
<1>10. CASE Terminated \/ UNCHANGED vars
  BY <1>8, <1>10 DEF Terminated, vars
<1> QED
  BY <1>4, <1>5, <1>6, <1>7, <1>9, <1>10 DEF Next

(* Whatever the scripts declare and use, and in which order: when the      *)
(* table is built, the selectors nobody declared have the smallest free    *)
(* numbers, in the order of their first uses (Build in                     *)
(* selector_table.cpp).                                                    *)
THEOREM NewSelectorsFillTheGaps == Spec => []SelectorsFillTheGaps
<1>1. Spec => []GapsInv
  BY GapsBegin, GapsStep, PTL DEF Spec
<1>2. GapsInv => SelectorsFillTheGaps
  <2> SUFFICES ASSUME GapsInv, Numbered PROVE SelectorsFillTheGaps
    BY DEF SelectorsFillTheGaps
  <2>1. Numbering /\ newSelectors = <<>> /\ nextSelector \in Nat
    BY DEF GapsInv, SelectorInv, MapsInv
  <2>2. FirstUses \subseteq Nat
    BY CallsAre DEF GapsInv
  <2>3. \A i \in FirstUses : i \in Assigned
    BY <2>1 DEF Numbering, Waits
  <2> SUFFICES ASSUME NEW i \in FirstUses
               PROVE  /\ NumberOf(i) \in Nat /\ NumberOf(i) \notin Given
                      /\ \A k \in FirstUses : k < i => NumberOf(k) < NumberOf(i)
                      /\ \A num \in 0..(NumberOf(i) - 1) :
                           num \in Given \/ \E k \in FirstUses : k < i /\ NumberOf(k) = num
    BY DEF SelectorsFillTheGaps
  <2>4. NumberOf(i) \in 0..(nextSelector - 1) /\ NumberOf(i) \notin Given
    BY <2>1, <2>3 DEF Numbering
  <2>5. \A k \in FirstUses : k < i => NumberOf(k) < NumberOf(i)
    BY <2>1, <2>3 DEF Numbering
  <2>6. ASSUME NEW num \in 0..(NumberOf(i) - 1), num \notin Given
        PROVE  \E k \in FirstUses : k < i /\ NumberOf(k) = num
    <3>1. num \in 0..(nextSelector - 1) /\ num < NumberOf(i)
      BY <2>1, <2>4
    <3>2. num \in DOMAIN numMap
      BY <2>1, <3>1 DEF Numbering
    <3>3. PICK k \in Assigned : NumberOf(k) = num
      BY <2>1, <2>6, <3>2 DEF Numbering
    <3>4. k \in FirstUses /\ k # i
      BY <2>4, <3>1, <3>3 DEF Assigned
    <3>5. ~(i < k)
      BY <2>1, <2>4, <3>1, <3>3 DEF Numbering
    <3> QED
      BY <2>2, <3>3, <3>4, <3>5
  <2> QED
    BY <2>4, <2>5, <2>6
<1> QED
  BY <1>1, <1>2, PTL

-----------------------------------------------------------------------------
(* Lists of properties: what one update does, and what many of them do.    *)

PropSet(S, V) == [sel : S, value : V]

IsDistinct(list) == \A i, j \in 1..Len(list) : list[i].sel = list[j].sel => i = j

LEMMA OneUpdate ==
  ASSUME NEW S, NEW V, NEW list \in Seq(PropSet(S, V)), IsDistinct(list),
         NEW sel \in S, NEW value \in V
  PROVE  LET u == UpdatePropertyDef(list, sel, value)
         IN  /\ u \in Seq(PropSet(S, V)) /\ IsDistinct(u)
             /\ Len(list) <= Len(u) /\ Len(u) <= Len(list) + 1
             /\ HasProp(list, sel) => Len(u) = Len(list)
             /\ \A i \in 1..Len(list) : u[i].sel = list[i].sel
             /\ \A i \in 1..Len(u) : i \in 1..Len(list) \/ u[i].sel = sel
             /\ \E i \in 1..Len(u) : u[i].sel = sel
             /\ \A i \in 1..Len(u) :
                  u[i].value = IF u[i].sel = sel THEN value ELSE list[i].value
<1> DEFINE u == UpdatePropertyDef(list, sel, value)
           Claim(v) ==
             /\ v \in Seq(PropSet(S, V)) /\ IsDistinct(v)
             /\ Len(list) <= Len(v) /\ Len(v) <= Len(list) + 1
             /\ HasProp(list, sel) => Len(v) = Len(list)
             /\ \A i \in 1..Len(list) : v[i].sel = list[i].sel
             /\ \A i \in 1..Len(v) : i \in 1..Len(list) \/ v[i].sel = sel
             /\ \E i \in 1..Len(v) : v[i].sel = sel
             /\ \A i \in 1..Len(v) :
                  v[i].value = IF v[i].sel = sel THEN value ELSE list[i].value
<1>1. CASE HasProp(list, sel)
  <2> DEFINE k == IndexOf(list, sel)
             new == [list[k] EXCEPT !.value = value]
             v == [list EXCEPT ![k] = new]
  <2>1. k \in 1..Len(list) /\ list[k].sel = sel
    BY <1>1 DEF HasProp, IndexOf
  <2>2. u = v
    BY <1>1 DEF UpdatePropertyDef
  <2>3. list[k] \in PropSet(S, V)
    BY <2>1
  <2>4. new \in PropSet(S, V) /\ new.sel = sel /\ new.value = value
    BY <2>1, <2>3 DEF PropSet
  <2> HIDE DEF new, k
  <2>5. /\ v \in Seq(PropSet(S, V)) /\ Len(v) = Len(list) /\ Len(list) \in Nat
        /\ v[k] = new /\ \A i \in 1..Len(list) : i # k => v[i] = list[i]
    BY <2>1, <2>4
  <2> HIDE DEF v
  <2>6. \A i \in 1..Len(list) : v[i].sel = list[i].sel
    BY <2>1, <2>4, <2>5
  <2>7. IsDistinct(v)
    BY <2>5, <2>6 DEF IsDistinct
  <2>8. \A i \in 1..Len(v) :
          v[i].value = IF v[i].sel = sel THEN value ELSE list[i].value
    BY <2>1, <2>4, <2>5 DEF IsDistinct
  <2>9. Claim(v)
    BY <2>1, <2>5, <2>6, <2>7, <2>8
  <2> QED
    BY <2>2, <2>9
<1>2. CASE ~HasProp(list, sel)
  <2> DEFINE v == Append(list, Prop(sel, value))
             n == Len(list) + 1
  <2>1. u = v
    BY <1>2 DEF UpdatePropertyDef
  <2>2. /\ Prop(sel, value) \in PropSet(S, V)
        /\ Prop(sel, value).sel = sel /\ Prop(sel, value).value = value
    BY DEF Prop, PropSet
  <2>3. /\ v \in Seq(PropSet(S, V)) /\ Len(list) \in Nat /\ Len(v) = n
        /\ v[n] = Prop(sel, value) /\ \A i \in 1..Len(list) : v[i] = list[i]
    BY <2>2
  <2>4. \A i \in 1..Len(list) : list[i].sel # sel
    BY <1>2 DEF HasProp
  <2> HIDE DEF v
  <2>5. \A i \in 1..Len(v) : i \in 1..Len(list) \/ i = n
    BY <2>3
  <2>6. IsDistinct(v)
    BY <2>2, <2>3, <2>4, <2>5 DEF IsDistinct
  <2>7. n \in 1..Len(v) /\ v[n].sel = sel
    BY <2>2, <2>3
  <2>8. \A i \in 1..Len(v) :
          v[i].value = IF v[i].sel = sel THEN value ELSE list[i].value
    BY <2>2, <2>3, <2>4, <2>5
  <2>9. Claim(v)
    BY <1>2, <2>2, <2>3, <2>5, <2>6, <2>7, <2>8
  <2> QED
    BY <2>1, <2>9
<1> QED
  BY <1>1, <1>2

(* u is list after the first n of the updates more.                        *)
IsLastMention(m, more, n, sel) ==
  more[m].sel = sel /\ \A k \in (m + 1)..n : more[k].sel # sel

IsUpdated(u, list, more, n) ==
  /\ IsDistinct(u) /\ Len(list) <= Len(u)
  /\ \A i \in 1..Len(list) : u[i].sel = list[i].sel
  /\ \A i \in 1..Len(u) : i \in 1..Len(list) \/ \E m \in 1..n : more[m].sel = u[i].sel
  /\ \A m \in 1..n : \E i \in 1..Len(u) : u[i].sel = more[m].sel
  /\ \A i \in 1..Len(u) :
       \/ \E m \in 1..n : IsLastMention(m, more, n, u[i].sel) /\ u[i].value = more[m].value
       \/ /\ i \in 1..Len(list) /\ u[i].value = list[i].value
          /\ \A m \in 1..n : more[m].sel # u[i].sel

LEMMA UpdateGoesOn ==
  ASSUME NEW S, NEW V, NEW list \in Seq(PropSet(S, V)), NEW more \in Seq(PropSet(S, V)),
         NEW n \in Nat, n < Len(more),
         NEW u \in Seq(PropSet(S, V)), IsUpdated(u, list, more, n)
  PROVE  LET v == UpdatePropertyDef(u, more[n + 1].sel, more[n + 1].value)
         IN  v \in Seq(PropSet(S, V)) /\ IsUpdated(v, list, more, n + 1)
<1> DEFINE p == more[n + 1]
           v == UpdatePropertyDef(u, p.sel, p.value)
<1>1. Len(list) \in Nat /\ Len(more) \in Nat /\ Len(u) \in Nat
  OBVIOUS
<1>2. p \in PropSet(S, V) /\ p.sel \in S /\ p.value \in V
  <2>1. n + 1 \in 1..Len(more)
    BY <1>1
  <2>2. p \in PropSet(S, V)
    BY <2>1
  <2> HIDE DEF p
  <2> QED
    BY <2>2 DEF PropSet
<1> HIDE DEF p
<1>3. IsDistinct(u)
  BY DEF IsUpdated
<1>4. /\ v \in Seq(PropSet(S, V)) /\ IsDistinct(v)
      /\ Len(u) <= Len(v)
      /\ \A i \in 1..Len(u) : v[i].sel = u[i].sel
      /\ \A i \in 1..Len(v) : i \in 1..Len(u) \/ v[i].sel = p.sel
      /\ \E i \in 1..Len(v) : v[i].sel = p.sel
      /\ \A i \in 1..Len(v) : v[i].value = IF v[i].sel = p.sel THEN p.value ELSE u[i].value
  BY <1>2, <1>3, OneUpdate, SMTT(60)
<1> HIDE DEF v
<1>5. Len(v) \in Nat
  BY <1>4
<1>6. /\ \A m \in 1..(n + 1) : m \in 1..n \/ m = n + 1
      /\ 1..n \subseteq 1..(n + 1) /\ n + 1 \in 1..(n + 1)
  OBVIOUS
<1>7. /\ 1..Len(list) \subseteq 1..Len(u) /\ 1..Len(u) \subseteq 1..Len(v)
      /\ Len(list) <= Len(v)
  BY <1>1, <1>4, <1>5 DEF IsUpdated
<1>8. \A i \in 1..Len(list) : v[i].sel = list[i].sel
  BY <1>4, <1>7 DEF IsUpdated
<1>9. \A i \in 1..Len(v) : i \in 1..Len(list) \/ \E m \in 1..(n + 1) : more[m].sel = v[i].sel
  <2> SUFFICES ASSUME NEW i \in 1..Len(v)
               PROVE  i \in 1..Len(list) \/ \E m \in 1..(n + 1) : more[m].sel = v[i].sel
    OBVIOUS
  <2>1. CASE i \in 1..Len(u)
    BY <1>4, <1>6, <2>1 DEF IsUpdated
  <2>2. CASE v[i].sel = p.sel
    BY <1>6, <2>2 DEF p
  <2> QED
    BY <1>4, <2>1, <2>2
<1>10. \A m \in 1..(n + 1) : \E i \in 1..Len(v) : v[i].sel = more[m].sel
  <2> SUFFICES ASSUME NEW m \in 1..(n + 1) PROVE \E i \in 1..Len(v) : v[i].sel = more[m].sel
    OBVIOUS
  <2>1. CASE m \in 1..n
    BY <1>4, <1>7, <2>1, SMTT(30) DEF IsUpdated
  <2>2. CASE m = n + 1
    BY <1>4, <2>2 DEF p
  <2> QED
    BY <1>6, <2>1, <2>2
<1>11. ASSUME NEW i \in 1..Len(v)
       PROVE  \/ \E m \in 1..(n + 1) : /\ IsLastMention(m, more, n + 1, v[i].sel)
                                       /\ v[i].value = more[m].value
              \/ /\ i \in 1..Len(list) /\ v[i].value = list[i].value
                 /\ \A m \in 1..(n + 1) : more[m].sel # v[i].sel
  <2>1. CASE v[i].sel = p.sel
    <3>1. IsLastMention(n + 1, more, n + 1, v[i].sel)
      BY <2>1 DEF IsLastMention, p
    <3>2. v[i].value = more[n + 1].value
      BY <1>4, <2>1 DEF p
    <3> QED
      BY <1>6, <3>1, <3>2
  <2>2. CASE v[i].sel # p.sel
    <3>1. i \in 1..Len(u) /\ v[i].sel = u[i].sel /\ v[i].value = u[i].value
      BY <1>4, <2>2
    <3>2. CASE \E m \in 1..n : IsLastMention(m, more, n, u[i].sel) /\ u[i].value = more[m].value
      <4>1. PICK m \in 1..n : IsLastMention(m, more, n, u[i].sel) /\ u[i].value = more[m].value
        BY <3>2
      <4>2. \A k \in (m + 1)..(n + 1) : k \in (m + 1)..n \/ k = n + 1
        OBVIOUS
      <4>3. IsLastMention(m, more, n + 1, v[i].sel)
        BY <2>2, <3>1, <4>1, <4>2 DEF IsLastMention, p
      <4> QED
        BY <1>6, <3>1, <4>1, <4>3
    <3>3. CASE /\ i \in 1..Len(list) /\ u[i].value = list[i].value
               /\ \A m \in 1..n : more[m].sel # u[i].sel
      BY <1>6, <2>2, <3>1, <3>3 DEF p
    <3> QED
      BY <3>1, <3>2, <3>3 DEF IsUpdated
  <2> QED
    BY <2>1, <2>2
<1>12. IsUpdated(v, list, more, n + 1)
  BY <1>4, <1>7, <1>8, <1>9, <1>10, <1>11 DEF IsUpdated
<1> QED
  BY <1>4, <1>12 DEF v, p

LEMMA UpdateIs ==
  ASSUME NEW S, NEW V, NEW list \in Seq(PropSet(S, V)), NEW more \in Seq(PropSet(S, V)),
         IsDistinct(list)
  PROVE  /\ Update(list, more) \in Seq(PropSet(S, V))
         /\ IsUpdated(Update(list, more), list, more, Len(more))
<1> DEFINE T == Seq(PropSet(S, V))
           n == Len(more)
           W == {l \in T : IsDistinct(l)}
           next(i, l) == UpdatePropertyDef(l, more[i].sel, more[i].value)
           D == [x \in (1..n) \X W |-> next(x[1], x[2])]
<1>1. n \in Nat
  OBVIOUS
<1>2. \A i \in 1..n : more[i].sel \in S /\ more[i].value \in V
  <2>1. \A i \in 1..n : more[i] \in PropSet(S, V)
    OBVIOUS
  <2> QED
    BY <2>1 DEF PropSet
<1>3. ASSUME NEW i \in 1..n, NEW l \in W PROVE next(i, l) \in W
  <2>1. l \in Seq(PropSet(S, V)) /\ IsDistinct(l) /\ more[i].sel \in S /\ more[i].value \in V
    BY <1>2
  <2> QED
    BY <2>1, OneUpdate, SMTT(30)
<1> HIDE DEF W, next, n
<1>4. D \in [(1..n) \X W -> W]
  BY <1>3
<1>5. \A i \in 1..n : \A l \in W : D[<<i, l>>] = next(i, l)
  OBVIOUS
<1>6. list \in W
  BY DEF W
<1> HIDE DEF D
<1>7. PICK f : IsIteration(f, n, W, list, D)
  BY <1>1, <1>4, <1>6, IterationExists
<1> DEFINE first(h) == [k \in 0..n |-> IF k = 0 THEN list ELSE next(k, h[k - 1])]
           F == CHOOSE h : h = first(h)
<1>8. f = first(f)
  <2>1. f = [k \in 0..n |-> f[k]] /\ f[0] = list
    BY <1>7 DEF IsIteration
  <2>2. ASSUME NEW k \in 0..n, k # 0 PROVE f[k] = next(k, f[k - 1])
    <3>1. k \in 1..n /\ k - 1 \in 0..n
      BY <1>1, <2>2
    <3>2. f[k] = D[<<k, f[k - 1]>>] /\ f[k - 1] \in W
      BY <1>7, <3>1 DEF IsIteration
    <3> QED
      BY <1>5, <3>1, <3>2
  <2>3. \A k \in 0..n : f[k] = IF k = 0 THEN list ELSE next(k, f[k - 1])
    BY <2>1, <2>2
  <2> QED
    BY <2>1, <2>3
<1>9. F = first(F)
  <2> HIDE DEF first
  <2> QED
    BY <1>8
<1>10. Update(list, more) = F[n]
  BY DEF Update, next, n
<1>11. F[0] = list /\ \A k \in 1..n : F[k] = next(k, F[k - 1])
  <2> HIDE DEF F
  <2>1. \A k \in 0..n : F[k] = IF k = 0 THEN list ELSE next(k, F[k - 1])
    BY <1>9
  <2> QED
    BY <1>1, <2>1
<1> HIDE DEF F
<1> DEFINE G == {k \in 0..n : F[k] \in T /\ IsUpdated(F[k], list, more, k)}
<1>12. 0 \in G
  <2>1. IsUpdated(list, list, more, 0)
    BY DEF IsUpdated
  <2> QED
    BY <1>1, <1>11, <2>1
<1>13. ASSUME NEW k \in 0..n, k < n, k \in G PROVE k + 1 \in G
  <2>1. k + 1 \in 1..n /\ k \in Nat /\ k < Len(more) /\ (k + 1) - 1 = k /\ k + 1 \in 0..n
    BY <1>1, <1>13 DEF n
  <2>2. F[k + 1] = UpdatePropertyDef(F[k], more[k + 1].sel, more[k + 1].value)
    BY <1>11, <2>1 DEF next
  <2>3. F[k] \in Seq(PropSet(S, V)) /\ IsUpdated(F[k], list, more, k)
    BY <1>13
  <2>4. F[k + 1] \in Seq(PropSet(S, V)) /\ IsUpdated(F[k + 1], list, more, k + 1)
    BY <2>1, <2>2, <2>3, UpdateGoesOn
  <2> QED
    BY <2>1, <2>4
<1>14. 0..n \subseteq G
  <2> HIDE DEF G
  <2>1. 0 \in Int /\ n \in Int
    BY <1>1
  <2>2. \A k \in 0..n : k < n /\ k \in G => k + 1 \in G
    BY <1>13
  <2> QED
    BY <1>12, <2>1, <2>2, IntervalInduction
<1>15. n \in G
  BY <1>1, <1>14
<1> QED
  BY <1>10, <1>15 DEF n

(* The lists of items and classes are lists of properties, of whatever     *)
(* names and values.                                                       *)
IsPropList(list) == \E S, V : list \in Seq(PropSet(S, V))

LEMMA IsSeqOver ==
  ASSUME NEW l, NEW n \in Nat, l = [i \in 1..n |-> l[i]], NEW Q, \A i \in 1..n : l[i] \in Q
  PROVE  l \in Seq(Q)
OBVIOUS

LEMMA BothLists ==
  ASSUME NEW l, IsPropList(l), NEW m, IsPropList(m)
  PROVE  \E S, V : l \in Seq(PropSet(S, V)) /\ m \in Seq(PropSet(S, V))
<1>1. PICK S, V : l \in Seq(PropSet(S, V))
  BY DEF IsPropList
<1>2. PICK S2, V2 : m \in Seq(PropSet(S2, V2))
  BY DEF IsPropList
<1> DEFINE Q == PropSet(S \cup S2, V \cup V2)
<1>3. PropSet(S, V) \subseteq Q /\ PropSet(S2, V2) \subseteq Q
  BY DEF PropSet
<1>4. l \in Seq(Q)
  <2>1. Len(l) \in Nat /\ l = [i \in 1..Len(l) |-> l[i]] /\ \A i \in 1..Len(l) : l[i] \in PropSet(S, V)
    <3> HIDE DEF Q
    <3> QED
      BY <1>1
  <2> HIDE DEF Q
  <2>2. \A i \in 1..Len(l) : l[i] \in Q
    BY <1>3, <2>1
  <2> QED
    BY <2>1, <2>2, IsSeqOver
<1>5. m \in Seq(Q)
  <2> HIDE DEF Q
  <2>1. Len(m) \in Nat /\ m = [i \in 1..Len(m) |-> m[i]] /\ \A i \in 1..Len(m) : m[i] \in PropSet(S2, V2)
    BY <1>2
  <2>2. \A i \in 1..Len(m) : m[i] \in Q
    BY <1>3, <2>1
  <2> QED
    BY <2>1, <2>2, IsSeqOver
<1> QED
  BY <1>4, <1>5

LEMMA UpdateOfLists ==
  ASSUME NEW list, IsPropList(list), IsDistinct(list), NEW more, IsPropList(more)
  PROVE  /\ IsPropList(Update(list, more))
         /\ IsUpdated(Update(list, more), list, more, Len(more))
<1>1. PICK S, V : list \in Seq(PropSet(S, V)) /\ more \in Seq(PropSet(S, V))
  BY BothLists
<1>2. /\ Update(list, more) \in Seq(PropSet(S, V))
      /\ IsUpdated(Update(list, more), list, more, Len(more))
  BY <1>1, UpdateIs
<1> QED
  BY <1>2 DEF IsPropList

(* In terms of what a list says last.                                      *)
IsSaid(u, list, more, i) ==
  /\ Mentions(more, u[i].sel) # {} => u[i].value = LastSaid(more, u[i].sel)
  /\ Mentions(more, u[i].sel) = {} => i \in 1..Len(list) /\ u[i].value = list[i].value

LEMMA SaidLast ==
  ASSUME NEW list, NEW more, IsPropList(more), NEW u, Len(u) \in Nat,
         IsUpdated(u, list, more, Len(more)), NEW i \in 1..Len(u)
  PROVE  IsSaid(u, list, more, i)
<1>1. Len(more) \in Nat
  BY DEF IsPropList
<1>2. CASE \E m \in 1..Len(more) : /\ IsLastMention(m, more, Len(more), u[i].sel)
                                   /\ u[i].value = more[m].value
  <2>1. PICK m \in 1..Len(more) : /\ IsLastMention(m, more, Len(more), u[i].sel)
                                  /\ u[i].value = more[m].value
    BY <1>2
  <2>2. m \in Mentions(more, u[i].sel)
    BY <2>1 DEF Mentions, IsLastMention
  <2>3. \A k \in Mentions(more, u[i].sel) : k <= m
    <3> SUFFICES ASSUME NEW k \in Mentions(more, u[i].sel), ~(k <= m) PROVE FALSE
      OBVIOUS
    <3>1. k \in (m + 1)..Len(more) /\ more[k].sel = u[i].sel
      BY <1>1 DEF Mentions
    <3> QED
      BY <2>1, <3>1 DEF IsLastMention
  <2>4. \A k \in Mentions(more, u[i].sel) : k \in Int
    BY DEF Mentions
  <2>5. (CHOOSE x \in Mentions(more, u[i].sel) :
           \A k \in Mentions(more, u[i].sel) : k <= x) = m
    <3> DEFINE M == Mentions(more, u[i].sel)
               Greatest(x) == \A k \in M : k <= x
    <3>1. ASSUME NEW x \in M, Greatest(x) PROVE x = m
      <4>1. x <= m /\ m <= x /\ x \in Int /\ m \in Int
        BY <2>2, <2>3, <2>4, <3>1
      <4> QED
        BY <4>1
    <3>2. m \in M /\ Greatest(m)
      BY <2>2, <2>3
    <3> HIDE DEF M
    <3>3. (CHOOSE x \in M : Greatest(x)) = m
      <4> HIDE DEF Greatest
      <4> QED
        BY <3>1, <3>2
    <3> QED
      BY <3>3 DEF M
  <2> QED
    BY <2>1, <2>2, <2>5 DEF LastSaid, IsSaid
<1>3. CASE /\ i \in 1..Len(list) /\ u[i].value = list[i].value
           /\ \A m \in 1..Len(more) : more[m].sel # u[i].sel
  BY <1>3 DEF Mentions, IsSaid
<1> QED
  BY <1>2, <1>3 DEF IsUpdated

(* An update of nothing but properties that are there.                     *)
LEMMA SamePlaces ==
  ASSUME NEW list, IsPropList(list), IsDistinct(list), NEW more, IsPropList(more),
         \A m \in 1..Len(more) : \E i \in 1..Len(list) : list[i].sel = more[m].sel,
         NEW u, IsPropList(u), IsUpdated(u, list, more, Len(more))
  PROVE  Len(u) = Len(list) /\ \A i \in 1..Len(u) : u[i].sel = list[i].sel
<1>1. Len(u) \in Nat /\ Len(list) \in Nat
  BY DEF IsPropList
<1>2. ASSUME NEW i \in 1..Len(u), i \notin 1..Len(list) PROVE FALSE
  <2>1. PICK j \in 1..Len(list) : list[j].sel = u[i].sel
    BY <1>2 DEF IsUpdated
  <2>2. j \in 1..Len(u) /\ u[j].sel = u[i].sel /\ i # j
    BY <1>1, <1>2, <2>1 DEF IsUpdated
  <2> QED
    BY <2>2 DEF IsUpdated, IsDistinct
<1>3. Len(u) = Len(list)
  BY <1>1, <1>2 DEF IsUpdated
<1> QED
  BY <1>3 DEF IsUpdated

-----------------------------------------------------------------------------
(* The table of classes.  How far the compilation is tells what is in it:  *)
(* which items have their classes, which classes their supers and lists.   *)

Alive == phase \notin {"failed", "crashed"}

(* Of the n items of a phase p, those it is through with: at an item of    *)
(* another phase it is all of them or none.                                *)
Reached(here, item, p, n) ==
  IF here = p THEN item - 1 ELSE IF PhaseRank(p) < PhaseRank(here) THEN n ELSE 0

Progress(p, n) == Reached(phase, cursor, p, n)

DeclsDone == Progress("decls", Len(Decls))
DeclSupersDone == Progress("declSupers", Len(Decls))
DefsDone == Progress("defs", Len(Defs))
CopiesDone == Progress("copies", Len(Copies))
DefSupersDone == Progress("defSupers", Len(Defs))
CopySupersDone == Progress("copySupers", Len(Copies))
PropsDone == Progress("defProps", Len(layers.def))

ClassPhases == {"decls", "declSupers", "declProps", "defs", "copies", "defSupers",
                "copySupers", "defProps"}

CursorInv == phase \in ClassPhases \cup {"objects"} => cursor <= Len(ListOf(phase)) + 1

(* The layers are lists of classes, no two of a name or a number.          *)
IsClassRecord(c) ==
  c \in [name : {c.name}, species : Nat, own : {c.own}, super : {c.super}, props : {c.props}]

IsLayer(layer) == IsList(layer) /\ \A i \in 1..Len(layer) : IsClassRecord(layer[i])

NoTwins(layer) ==
  \A i, j \in 1..Len(layer) :
    layer[i].name = layer[j].name \/ layer[i].species = layer[j].species => i = j

(* A list that is made: it has the basic properties and tells its size.    *)
HasBasics(list) ==
  /\ IsPropList(list) /\ IsDistinct(list)
  /\ \A b \in 1..Len(Basic) : HasProp(list, Basic[b])

IsWhole(list) ==
  /\ HasBasics(list)
  /\ \A i \in 1..Len(list) : list[i].sel = "-size-" => list[i].value = Number(Len(list))

HasLists(c) == IsPropList(c.own) /\ (c.props = <<>> \/ IsWhole(c.props))

TablesInv ==
  /\ layers \in [decl : {layers.decl}, def : {layers.def}]
  /\ IsLayer(layers.decl) /\ IsLayer(layers.def)
  /\ NoTwins(layers.decl) /\ NoTwins(layers.def)
  /\ \A i \in 1..Len(layers.decl) : HasLists(layers.decl[i])
  /\ \A i \in 1..Len(layers.def) : HasLists(layers.def[i])
  /\ currSpecies \in Nat

IsMadeFrom(c, item) == c.name = item.name /\ c.own = item.props

SuperHasNumber(layer, i, super) ==
  IF super = NoSuper THEN layer[i].super = NoSuper
  ELSE layer[i].super \in 1..Len(layer) /\ layer[layer[i].super].species = super

SuperHasName(layer, i, super) ==
  IF super = NoSuper THEN layer[i].super = NoSuper
  ELSE layer[i].super \in 1..Len(layer) /\ layer[layer[i].super].name = super

DeclInv ==
  /\ Len(layers.decl) = DeclsDone
  /\ \A i \in 1..DeclsDone : /\ IsMadeFrom(layers.decl[i], Decls[i])
                             /\ layers.decl[i].species = Decls[i].species
  /\ \A i \in 1..DeclSupersDone : SuperHasNumber(layers.decl, i, Decls[i].super)

(* A class that is defined anew has the number it was declared with.       *)
IsDefined(i) ==
  /\ IsMadeFrom(layers.def[i], Defs[i])
  /\ \A k \in 1..Len(Decls) :
       Decls[k].name = Defs[i].name => layers.def[i].species = Decls[k].species

IsCopied(j) ==
  /\ IsMadeFrom(layers.def[Len(Defs) + j], Copies[j])
  /\ layers.def[Len(Defs) + j].species = Copies[j].species

DefInv ==
  /\ Len(layers.def) = DefsDone + CopiesDone
  /\ \A i \in 1..DefsDone : IsDefined(i)
  /\ \A j \in 1..CopiesDone : IsCopied(j)
  /\ defSpecies = {layers.def[i].species : i \in 1..DefsDone}
  /\ \A i \in 1..DefSupersDone : SuperHasName(layers.def, i, Defs[i].super)
  /\ \A j \in 1..CopySupersDone : SuperHasNumber(layers.def, Len(Defs) + j, Copies[j].super)

(* list is made of the inherited one and what the class says itself.       *)
ListValue(list, inherited, own, species, super, k) ==
  LET sel == list[k].sel
      says == Mentions(own, sel) # {}
  IN  CASE sel = "-size-" -> Number(Len(list))
        [] sel # "-size-" /\ says -> LastSaid(own, sel)
        [] ~says /\ sel = "-script-" -> species
        [] ~says /\ sel = "-info-" -> IsClass
        [] ~says /\ sel = "-super-" -> super
        [] OTHER -> inherited[k].value

IsMadeOf(list, inherited, own, species, super) ==
  /\ Len(inherited) <= Len(list)
  /\ \A k \in 1..Len(inherited) : list[k].sel = inherited[k].sel
  /\ \A k \in 1..Len(list) : k \in 1..Len(inherited) \/ \E m \in 1..Len(own) : own[m].sel = list[k].sel
  /\ \A m \in 1..Len(own) : \E k \in 1..Len(list) : list[k].sel = own[m].sel
  /\ \A k \in 1..Len(list) : list[k].value = ListValue(list, inherited, own, species, super, k)

InheritedIn(layer, c) == IF c.super = NoSuper THEN BasicProps ELSE layer[c.super].props

SuperIn(layer, c) == IF c.super = NoSuper THEN NoSpecies ELSE Number(layer[c.super].species)

IsMadeIn(layer, c) ==
  IsMadeOf(c.props, InheritedIn(layer, c), c.own, Number(c.species), SuperIn(layer, c))

(* Who waits for a list is a class, the first of them the one the loop is  *)
(* at; a list that is made came after the one of the super.                *)
ResolvingInv ==
  /\ phase \notin {"declProps", "defProps"} => resolving = <<>>
  /\ phase \in {"declProps", "defProps"} =>
       /\ resolving \in Seq(1..Len(layers[Layer(phase)]))
       /\ resolving # <<>> => resolving[1] = cursor

ListsInv ==
  /\ PhaseRank(phase) < 11 => \A i \in 1..Len(layers.def) : ~IsResolved(layers.def, i)
  /\ \A i \in 1..PropsDone : IsResolved(layers.def, i)
  /\ \A i \in 1..Len(layers.def) :
       IsResolved(layers.def, i) =>
         /\ IsMadeIn(layers.def, layers.def[i])
         /\ layers.def[i].super # NoSuper => IsResolved(layers.def, layers.def[i].super)

ClassInv ==
  /\ PhaseInv /\ TablesInv
  /\ Alive => CursorInv /\ DeclInv /\ DefInv /\ ResolvingInv /\ ListsInv

-----------------------------------------------------------------------------
(* How far a phase is.                                                     *)

PhaseNames == {Order[i] : i \in 1..13}

LEMMA PhaseNamesAre ==
  PhaseNames = {"selectors", "numbering", "gather", "decls", "declSupers", "declProps",
                "defs", "copies", "defSupers", "copySupers", "defProps", "objects", "done"}
<1>1. 1..13 = {1, 2, 3, 4, 5, 6, 7, 8, 9, 10, 11, 12, 13}
  OBVIOUS
<1>2. PhaseNames = {Order[i] : i \in {1, 2, 3, 4, 5, 6, 7, 8, 9, 10, 11, 12, 13}}
  BY <1>1 DEF PhaseNames
<1>3. PhaseNames = {Order[1], Order[2], Order[3], Order[4], Order[5], Order[6], Order[7],
                    Order[8], Order[9], Order[10], Order[11], Order[12], Order[13]}
  BY <1>2
<1> QED
  BY <1>3, OrderIs

LEMMA RankOf ==
  /\ PhaseRank("selectors") = 1 /\ PhaseRank("numbering") = 2 /\ PhaseRank("gather") = 3
  /\ PhaseRank("decls") = 4 /\ PhaseRank("declSupers") = 5 /\ PhaseRank("declProps") = 6
  /\ PhaseRank("defs") = 7 /\ PhaseRank("copies") = 8 /\ PhaseRank("defSupers") = 9
  /\ PhaseRank("copySupers") = 10 /\ PhaseRank("defProps") = 11
  /\ PhaseRank("objects") = 12 /\ PhaseRank("done") = 13
BY DEF PhaseRank

LEMMA RanksDiffer ==
  ASSUME NEW p \in PhaseNames, NEW q \in PhaseNames
  PROVE  PhaseRank(p) \in 1..13 /\ (PhaseRank(p) = PhaseRank(q) => p = q)
<1>1. PICK i \in 1..13 : p = Order[i]
  BY DEF PhaseNames
<1>2. PICK j \in 1..13 : q = Order[j]
  BY DEF PhaseNames
<1>3. PhaseRank(p) = i /\ PhaseRank(q) = j
  BY <1>1, <1>2, RankIs
<1> QED
  BY <1>1, <1>2, <1>3

LEMMA RankAfter ==
  ASSUME NEW p \in PhaseNames, p # "done"
  PROVE  After(p) \in PhaseNames /\ PhaseRank(After(p)) = PhaseRank(p) + 1
<1>1. PICK i \in 1..13 : p = Order[i]
  BY DEF PhaseNames
<1>2. i \in 1..12 /\ i + 1 \in 1..13
  <2>1. i # 13
    BY <1>1, OrderIs
  <2> QED
    BY <2>1
<1>3. After(p) = Order[i + 1]
  BY <1>1, <1>2, AfterOrder
<1>4. PhaseRank(Order[i]) = i /\ PhaseRank(Order[i + 1]) = i + 1
  BY <1>2, RankIs
<1>5. After(p) \in PhaseNames
  BY <1>2, <1>3 DEF PhaseNames
<1> QED
  BY <1>1, <1>3, <1>4, <1>5

(* An earlier phase is through with all its items, a later one with none.  *)
LEMMA ReachedIs ==
  ASSUME NEW i, NEW n
  PROVE  /\ Reached("decls", i, "decls", n) = i - 1
         /\ \A p \in {"declSupers", "defs", "copies", "defSupers", "copySupers", "defProps"} :
              Reached("decls", i, p, n) = 0
         /\ Reached("declSupers", i, "declSupers", n) = i - 1
         /\ \A p \in {"decls"} : Reached("declSupers", i, p, n) = n
         /\ \A p \in {"defs", "copies", "defSupers", "copySupers", "defProps"} :
              Reached("declSupers", i, p, n) = 0
         /\ \A p \in {"decls", "declSupers"} : Reached("declProps", i, p, n) = n
         /\ \A p \in {"defs", "copies", "defSupers", "copySupers", "defProps"} :
              Reached("declProps", i, p, n) = 0
         /\ Reached("defs", i, "defs", n) = i - 1
         /\ \A p \in {"decls", "declSupers"} : Reached("defs", i, p, n) = n
         /\ \A p \in {"copies", "defSupers", "copySupers", "defProps"} :
              Reached("defs", i, p, n) = 0
         /\ Reached("copies", i, "copies", n) = i - 1
         /\ \A p \in {"decls", "declSupers", "defs"} : Reached("copies", i, p, n) = n
         /\ \A p \in {"defSupers", "copySupers", "defProps"} : Reached("copies", i, p, n) = 0
         /\ Reached("defSupers", i, "defSupers", n) = i - 1
         /\ \A p \in {"decls", "declSupers", "defs", "copies"} : Reached("defSupers", i, p, n) = n
         /\ \A p \in {"copySupers", "defProps"} : Reached("defSupers", i, p, n) = 0
         /\ Reached("copySupers", i, "copySupers", n) = i - 1
         /\ \A p \in {"decls", "declSupers", "defs", "copies", "defSupers"} :
              Reached("copySupers", i, p, n) = n
         /\ \A p \in {"defProps"} : Reached("copySupers", i, p, n) = 0
         /\ Reached("defProps", i, "defProps", n) = i - 1
         /\ \A p \in {"decls", "declSupers", "defs", "copies", "defSupers", "copySupers"} :
              Reached("defProps", i, p, n) = n
         /\ \A p \in {"decls", "declSupers", "defs", "copies", "defSupers", "copySupers", "defProps"} :
              Reached("objects", i, p, n) = n
         /\ \A p \in {"decls", "declSupers", "defs", "copies", "defSupers", "copySupers", "defProps"} :
              Reached("done", i, p, n) = n
<1>1. /\ Reached("decls", i, "decls", n) = i - 1
      /\ \A p \in {"declSupers", "defs", "copies", "defSupers", "copySupers", "defProps"} :
           Reached("decls", i, p, n) = 0
  BY RankOf DEF Reached
<1>2. /\ Reached("declSupers", i, "declSupers", n) = i - 1
      /\ \A p \in {"decls"} : Reached("declSupers", i, p, n) = n
      /\ \A p \in {"defs", "copies", "defSupers", "copySupers", "defProps"} :
           Reached("declSupers", i, p, n) = 0
  BY RankOf DEF Reached
<1>3. /\ \A p \in {"decls", "declSupers"} : Reached("declProps", i, p, n) = n
      /\ \A p \in {"defs", "copies", "defSupers", "copySupers", "defProps"} :
           Reached("declProps", i, p, n) = 0
  BY RankOf DEF Reached
<1>4. /\ Reached("defs", i, "defs", n) = i - 1
      /\ \A p \in {"decls", "declSupers"} : Reached("defs", i, p, n) = n
      /\ \A p \in {"copies", "defSupers", "copySupers", "defProps"} :
           Reached("defs", i, p, n) = 0
  BY RankOf DEF Reached
<1>5. /\ Reached("copies", i, "copies", n) = i - 1
      /\ \A p \in {"decls", "declSupers", "defs"} : Reached("copies", i, p, n) = n
      /\ \A p \in {"defSupers", "copySupers", "defProps"} : Reached("copies", i, p, n) = 0
  BY RankOf DEF Reached
<1>6. /\ Reached("defSupers", i, "defSupers", n) = i - 1
      /\ \A p \in {"decls", "declSupers", "defs", "copies"} : Reached("defSupers", i, p, n) = n
      /\ \A p \in {"copySupers", "defProps"} : Reached("defSupers", i, p, n) = 0
  BY RankOf DEF Reached
<1>7. /\ Reached("copySupers", i, "copySupers", n) = i - 1
      /\ \A p \in {"decls", "declSupers", "defs", "copies", "defSupers"} :
           Reached("copySupers", i, p, n) = n
      /\ \A p \in {"defProps"} : Reached("copySupers", i, p, n) = 0
  BY RankOf DEF Reached
<1>8. /\ Reached("defProps", i, "defProps", n) = i - 1
      /\ \A p \in {"decls", "declSupers", "defs", "copies", "defSupers", "copySupers"} :
           Reached("defProps", i, p, n) = n
  BY RankOf DEF Reached
<1>9. /\ \A p \in {"decls", "declSupers", "defs", "copies", "defSupers", "copySupers", "defProps"} :
           Reached("objects", i, p, n) = n
  BY RankOf DEF Reached
<1>10. /\ \A p \in {"decls", "declSupers", "defs", "copies", "defSupers", "copySupers", "defProps"} :
           Reached("done", i, p, n) = n
  BY RankOf DEF Reached
<1> QED
  BY <1>1, <1>2, <1>3, <1>4, <1>5, <1>6, <1>7, <1>8, <1>9, <1>10

LEMMA ReachedType ==
  ASSUME NEW here \in PhaseNames, NEW p \in PhaseNames, NEW item \in Nat \ {0}, NEW n \in Nat,
         here = p => item <= n + 1
  PROVE  Reached(here, item, p, n) \in 0..n
BY DEF Reached

(* The next phase begins where the one before it is through.               *)
LEMMA ReachedNext ==
  ASSUME NEW here \in PhaseNames, NEW next \in PhaseNames, PhaseRank(next) = PhaseRank(here) + 1,
         NEW p \in PhaseNames, NEW item \in Nat, NEW n \in Nat, here = p => item = n + 1
  PROVE  Reached(next, 1, p, n) = Reached(here, item, p, n)
<1>1. /\ PhaseRank(here) \in Int /\ PhaseRank(p) \in Int /\ PhaseRank(next) \in Int
      /\ PhaseRank(p) = PhaseRank(here) => p = here
      /\ PhaseRank(p) = PhaseRank(next) => p = next
  BY RanksDiffer
<1>2. CASE here = p
  <2>1. PhaseRank(p) < PhaseRank(next) /\ next # p
    BY <1>1, <1>2
  <2> QED
    BY <1>2, <2>1 DEF Reached
<1>3. CASE here # p /\ next = p
  <2>1. ~(PhaseRank(p) < PhaseRank(here))
    BY <1>1, <1>3
  <2> QED
    BY <1>3, <2>1 DEF Reached
<1>4. CASE here # p /\ next # p
  <2>1. PhaseRank(p) < PhaseRank(next) <=> PhaseRank(p) < PhaseRank(here)
    BY <1>1, <1>4
  <2> QED
    BY <1>4, <2>1 DEF Reached
<1> QED
  BY <1>2, <1>3, <1>4

-----------------------------------------------------------------------------
(* The copies are the declarations whose numbers nobody has.               *)
LEMMA CopiesAre ==
  ASSUME IsSource(source)
  PROVE  /\ Copies \in Seq(Range(Decls))
         /\ \A j \in 1..Len(Copies) :
              \E k \in 1..Len(Decls) : Copies[j] = Decls[k] /\ Decls[k].species \notin defSpecies
         /\ \A k \in 1..Len(Decls) :
              Decls[k].species \notin defSpecies => \E j \in 1..Len(Copies) : Copies[j] = Decls[k]
<1> DEFINE R == Range(Decls)
           n == Len(Decls)
           W == Seq(R)
           next(i, l) == IF Decls[i].species \in defSpecies THEN l ELSE Append(l, Decls[i])
           D == [x \in (1..n) \X W |-> next(x[1], x[2])]
<1>0. Decls \in Seq(R)
  BY DEF IsSource, IsList, Decls
<1>1. n \in Nat /\ \A i \in 1..n : Decls[i] \in R
  <2> HIDE DEF R
  <2> QED
    BY <1>0
<1>2. ASSUME NEW i \in 1..n, NEW l \in W PROVE next(i, l) \in W
  <2> HIDE DEF R, n
  <2> QED
    BY <1>1
<1> HIDE DEF R, n, W, next
<1>3. D \in [(1..n) \X W -> W]
  BY <1>2
<1>4. \A i \in 1..n : \A l \in W : D[<<i, l>>] = next(i, l)
  OBVIOUS
<1>5. <<>> \in W
  BY DEF W
<1> HIDE DEF D
<1>6. PICK f : IsIteration(f, n, W, <<>>, D)
  BY <1>1, <1>3, <1>5, IterationExists
<1> DEFINE first(h) == [k \in 0..n |-> IF k = 0 THEN <<>> ELSE next(k, h[k - 1])]
           F == CHOOSE h : h = first(h)
<1>7. f = first(f)
  <2>1. f = [k \in 0..n |-> f[k]] /\ f[0] = <<>>
    BY <1>6 DEF IsIteration
  <2>2. ASSUME NEW k \in 0..n, k # 0 PROVE f[k] = next(k, f[k - 1])
    <3>1. k \in 1..n /\ k - 1 \in 0..n
      BY <1>1, <2>2
    <3>2. f[k] = D[<<k, f[k - 1]>>] /\ f[k - 1] \in W
      BY <1>6, <3>1 DEF IsIteration
    <3> QED
      BY <1>4, <3>1, <3>2
  <2>3. \A k \in 0..n : f[k] = IF k = 0 THEN <<>> ELSE next(k, f[k - 1])
    BY <2>1, <2>2
  <2> QED
    BY <2>1, <2>3
<1>8. F = first(F)
  <2> HIDE DEF first
  <2> QED
    BY <1>7
<1>9. Copies = F[n]
  BY DEF Copies, next, n
<1>10. F[0] = <<>> /\ \A k \in 1..n : F[k] = next(k, F[k - 1])
  <2> HIDE DEF F
  <2>1. \A k \in 0..n : F[k] = IF k = 0 THEN <<>> ELSE next(k, F[k - 1])
    BY <1>8
  <2> QED
    BY <1>1, <2>1
<1> HIDE DEF F
<1> DEFINE Kept(k) == Decls[k].species \notin defSpecies
           UpTo(l, m) ==
             /\ l \in W
             /\ \A j \in 1..Len(l) : \E k \in 1..m : l[j] = Decls[k] /\ Kept(k)
             /\ \A k \in 1..m : Kept(k) => \E j \in 1..Len(l) : l[j] = Decls[k]
           G == {m \in 0..n : UpTo(F[m], m)}
<1>11. 0 \in G
  <2>1. UpTo(<<>>, 0)
    BY <1>5
  <2> HIDE DEF UpTo
  <2> QED
    BY <1>1, <1>10, <2>1
<1>12. ASSUME NEW m \in 0..n, m < n, m \in G PROVE m + 1 \in G
  <2> DEFINE l == F[m]
             u == F[m + 1]
  <2>1. /\ m + 1 \in 1..n /\ (m + 1) - 1 = m /\ m + 1 \in 0..n
        /\ \A k \in 1..(m + 1) : k \in 1..m \/ k = m + 1
        /\ \A k \in 1..m : k \in 1..(m + 1)
    BY <1>1, <1>12
  <2>2. u = next(m + 1, l)
    BY <1>10, <2>1
  <2>3. UpTo(l, m)
    BY <1>12
  <2> HIDE DEF l, u
  <2>4. CASE ~Kept(m + 1)
    <3>1. u = l
      BY <2>2, <2>4 DEF next
    <3> HIDE DEF Kept
    <3>2. \A j \in 1..Len(l) : \E k \in 1..(m + 1) : l[j] = Decls[k] /\ Kept(k)
      BY <2>1, <2>3
    <3>3. \A k \in 1..(m + 1) : Kept(k) => \E j \in 1..Len(l) : l[j] = Decls[k]
      BY <2>1, <2>3, <2>4
    <3>4. UpTo(l, m + 1)
      BY <2>3, <3>2, <3>3
    <3> QED
      BY <2>1, <3>1, <3>4 DEF u
  <2>5. CASE Kept(m + 1)
    <3> HIDE DEF Kept
    <3>1. u = Append(l, Decls[m + 1]) /\ l \in Seq(R) /\ Decls[m + 1] \in R
      BY <1>1, <2>1, <2>2, <2>3, <2>5 DEF next, W, Kept
    <3>2. /\ u \in W /\ Len(l) \in Nat /\ Len(u) = Len(l) + 1 /\ u[Len(l) + 1] = Decls[m + 1]
          /\ \A j \in 1..Len(l) : u[j] = l[j]
      BY <3>1 DEF W
    <3> HIDE DEF W
    <3>3. \A j \in 1..Len(u) : j \in 1..Len(l) \/ j = Len(l) + 1
      BY <3>2
    <3>4. \A j \in 1..Len(u) : \E k \in 1..(m + 1) : u[j] = Decls[k] /\ Kept(k)
      <4>1. m + 1 \in 1..(m + 1)
        BY <2>1
      <4> QED
        BY <2>1, <2>3, <2>5, <3>2, <3>3, <4>1
    <3>5. \A k \in 1..(m + 1) : Kept(k) => \E j \in 1..Len(u) : u[j] = Decls[k]
      <4>1. Len(l) + 1 \in 1..Len(u) /\ \A j \in 1..Len(l) : j \in 1..Len(u)
        BY <3>2
      <4> QED
        BY <2>1, <2>3, <3>2, <4>1
    <3>6. UpTo(u, m + 1)
      BY <3>2, <3>4, <3>5
    <3> QED
      BY <2>1, <3>6 DEF u
  <2> QED
    BY <2>4, <2>5
<1>13. 0..n \subseteq G
  <2> HIDE DEF G
  <2>1. 0 \in Int /\ n \in Int
    BY <1>1
  <2>2. \A k \in 0..n : k < n /\ k \in G => k + 1 \in G
    BY <1>12
  <2> QED
    BY <1>11, <2>1, <2>2, IntervalInduction
<1>14. UpTo(F[n], n)
  <2>1. n \in 0..n
    BY <1>1
  <2> HIDE DEF UpTo
  <2> QED
    BY <1>13, <2>1
<1> QED
  BY <1>9, <1>14 DEF n, W, R

-----------------------------------------------------------------------------
(* What the steps do to the layers.                                        *)

IsTables(t) == t \in [decl : {t.decl}, def : {t.def}] /\ IsLayer(t.decl) /\ IsLayer(t.def)

Others(t, u, which) == \A other \in {"decl", "def"} : other # which => u[other] = t[other]

Adds(t, u, which, c) ==
  /\ IsTables(u) /\ Others(t, u, which)
  /\ Len(t[which]) \in Nat /\ Len(u[which]) = Len(t[which]) + 1
  /\ u[which][Len(t[which]) + 1] = c
  /\ \A i \in 1..Len(t[which]) : u[which][i] = t[which][i]

SetsSuper(t, u, which, i, super) ==
  /\ IsTables(u) /\ Others(t, u, which)
  /\ Len(u[which]) = Len(t[which])
  /\ \A k \in 1..Len(t[which]) : k # i => u[which][k] = t[which][k]
  /\ u[which][i].super = super /\ u[which][i].props = t[which][i].props
  /\ u[which][i].name = t[which][i].name /\ u[which][i].species = t[which][i].species
  /\ u[which][i].own = t[which][i].own

SetsProps(t, u, which, i, props) ==
  /\ IsTables(u) /\ Others(t, u, which)
  /\ Len(u[which]) = Len(t[which])
  /\ \A k \in 1..Len(t[which]) : k # i => u[which][k] = t[which][k]
  /\ u[which][i].super = t[which][i].super /\ u[which][i].props = props
  /\ u[which][i].name = t[which][i].name /\ u[which][i].species = t[which][i].species
  /\ u[which][i].own = t[which][i].own

LEMMA LayerChange ==
  ASSUME NEW t, IsTables(t), NEW which \in {"decl", "def"}, NEW layer, IsLayer(layer)
  PROVE  LET u == [t EXCEPT ![which] = layer]
         IN  IsTables(u) /\ u[which] = layer /\ Others(t, u, which)
<1> DEFINE u == [t EXCEPT ![which] = layer]
<1>1. CASE which = "decl"
  <2>1. u \in [decl : {layer}, def : {t.def}]
    BY <1>1 DEF IsTables
  <2>2. u.decl = layer /\ u.def = t.def
    BY <2>1
  <2> HIDE DEF u
  <2> QED
    BY <1>1, <2>1, <2>2 DEF IsTables, Others
<1>2. CASE which = "def"
  <2>1. u \in [decl : {t.decl}, def : {layer}]
    BY <1>2 DEF IsTables
  <2>2. u.def = layer /\ u.decl = t.decl
    BY <2>1
  <2> HIDE DEF u
  <2> QED
    BY <1>2, <2>1, <2>2 DEF IsTables, Others
<1> QED
  BY <1>1, <1>2

LEMMA ListAppend ==
  ASSUME NEW l, IsList(l), NEW x
  PROVE  LET u == Append(l, x)
         IN  /\ IsList(u) /\ Len(l) \in Nat /\ Len(u) = Len(l) + 1 /\ u[Len(l) + 1] = x
             /\ \A i \in 1..Len(l) : u[i] = l[i]
<1> DEFINE R == Range(l)
           u == Append(l, x)
           n == Len(l) + 1
<1>1. l \in Seq(R \cup {x})
  <2> HIDE DEF R
  <2>1. l \in Seq(R)
    BY DEF IsList, R
  <2>2. Len(l) \in Nat /\ l = [i \in 1..Len(l) |-> l[i]] /\ \A i \in 1..Len(l) : l[i] \in R \cup {x}
    BY <2>1
  <2> QED
    BY <2>2, IsSeqOver
<1>2. /\ Len(l) \in Nat /\ Len(u) = n /\ u[n] = x /\ \A i \in 1..Len(l) : u[i] = l[i]
      /\ u \in Seq(R \cup {x})
  <2> HIDE DEF R
  <2> QED
    BY <1>1
<1>3. IsList(u)
  <2> HIDE DEF u
  <2>1. Len(u) \in Nat /\ u = [i \in 1..Len(u) |-> u[i]] /\ DOMAIN u = 1..Len(u)
    BY <1>2
  <2>2. \A i \in 1..Len(u) : u[i] \in Range(u)
    BY <2>1 DEF Range
  <2> QED
    BY <2>1, <2>2, IsSeqOver DEF IsList
<1> QED
  BY <1>2, <1>3

LEMMA ListChange ==
  ASSUME NEW l, IsList(l), NEW k \in 1..Len(l), NEW x
  PROVE  LET u == [l EXCEPT ![k] = x]
         IN  /\ IsList(u) /\ Len(u) = Len(l) /\ u[k] = x
             /\ \A i \in 1..Len(l) : i # k => u[i] = l[i]
<1> DEFINE R == Range(l)
           u == [l EXCEPT ![k] = x]
<1>1. Len(l) \in Nat /\ l = [i \in 1..Len(l) |-> l[i]]
  <2> HIDE DEF R
  <2>1. l \in Seq(R)
    BY DEF IsList, R
  <2> QED
    BY <2>1
<1>2. /\ u = [i \in 1..Len(l) |-> u[i]] /\ u[k] = x /\ DOMAIN u = 1..Len(l)
      /\ \A i \in 1..Len(l) : i # k => u[i] = l[i]
  BY <1>1
<1>3. IsList(u) /\ Len(u) = Len(l)
  <2> HIDE DEF u
  <2>1. \A i \in 1..Len(l) : u[i] \in Range(u)
    BY <1>2 DEF Range
  <2>2. u \in Seq(Range(u))
    BY <1>1, <1>2, <2>1, IsSeqOver
  <2>3. Len(u) \in Nat /\ DOMAIN u = 1..Len(u)
    <3> DEFINE S == Range(u)
    <3>1. u \in Seq(S)
      BY <2>2
    <3> HIDE DEF S
    <3> QED
      BY <3>1
  <2> QED
    BY <1>1, <1>2, <2>2, <2>3 DEF IsList
<1> QED
  BY <1>2, <1>3

LEMMA AddsClass ==
  ASSUME NEW t, IsTables(t), NEW which \in {"decl", "def"}, NEW c, IsClassRecord(c)
  PROVE  Adds(t, [t EXCEPT ![which] = Append(@, c)], which, c)
<1> DEFINE layer == Append(t[which], c)
           u == [t EXCEPT ![which] = Append(@, c)]
<1>1. u = [t EXCEPT ![which] = layer]
  OBVIOUS
<1>2. IsLayer(t[which])
  BY DEF IsTables
<1>3. /\ IsList(layer) /\ Len(t[which]) \in Nat /\ Len(layer) = Len(t[which]) + 1
      /\ layer[Len(t[which]) + 1] = c /\ \A i \in 1..Len(t[which]) : layer[i] = t[which][i]
  BY <1>2, ListAppend DEF IsLayer
<1> HIDE DEF layer
<1>4. \A i \in 1..Len(layer) : i \in 1..Len(t[which]) \/ i = Len(t[which]) + 1
  BY <1>3
<1>5. IsLayer(layer)
  BY <1>2, <1>3, <1>4 DEF IsLayer
<1>6. IsTables(u) /\ u[which] = layer /\ Others(t, u, which)
  BY <1>1, <1>5, LayerChange
<1> HIDE DEF u
<1>7. Adds(t, u, which, c)
  BY <1>3, <1>6 DEF Adds
<1> QED
  BY <1>7 DEF u

LEMMA SuperChange ==
  ASSUME NEW c, IsClassRecord(c), NEW v, NEW d, d = [c EXCEPT !.super = v]
  PROVE  /\ IsClassRecord(d) /\ d.super = v /\ d.props = c.props
         /\ d.name = c.name /\ d.species = c.species /\ d.own = c.own
<1>1. /\ d \in [name : {c.name}, species : Nat, own : {c.own}, super : {v}, props : {c.props}]
      /\ d.species = c.species
  BY DEF IsClassRecord
<1>2. d.name = c.name /\ d.own = c.own /\ d.super = v /\ d.props = c.props
  BY <1>1
<1> QED
  BY <1>1, <1>2 DEF IsClassRecord

LEMMA PropsChange ==
  ASSUME NEW c, IsClassRecord(c), NEW v, NEW d, d = [c EXCEPT !.props = v]
  PROVE  /\ IsClassRecord(d) /\ d.props = v /\ d.super = c.super
         /\ d.name = c.name /\ d.species = c.species /\ d.own = c.own
<1>1. /\ d \in [name : {c.name}, species : Nat, own : {c.own}, super : {c.super}, props : {v}]
      /\ d.species = c.species
  BY DEF IsClassRecord
<1>2. d.name = c.name /\ d.own = c.own /\ d.super = c.super /\ d.props = v
  BY <1>1
<1> QED
  BY <1>1, <1>2 DEF IsClassRecord

LEMMA SetsClass ==
  ASSUME NEW t, IsTables(t), NEW which \in {"decl", "def"}, NEW k \in 1..Len(t[which]), NEW v
  PROVE  /\ SetsSuper(t, [t EXCEPT ![which][k].super = v], which, k, v)
         /\ SetsProps(t, [t EXCEPT ![which][k].props = v], which, k, v)
<1> DEFINE l == t[which]
           c == l[k]
           d == [c EXCEPT !.super = v]
           e == [c EXCEPT !.props = v]
<1>1. IsLayer(l) /\ IsClassRecord(c)
  BY DEF IsTables, IsLayer
<1>2. ASSUME NEW x, IsClassRecord(x)
      PROVE  LET m == [l EXCEPT ![k] = x]
                 u == [t EXCEPT ![which] = m]
             IN  /\ IsTables(u) /\ Others(t, u, which) /\ Len(u[which]) = Len(l)
                 /\ u[which][k] = x /\ \A i \in 1..Len(l) : i # k => u[which][i] = l[i]
  <2> DEFINE m == [l EXCEPT ![k] = x]
             u == [t EXCEPT ![which] = m]
  <2> HIDE DEF l, c, d, e
  <2>1. IsList(l) /\ k \in 1..Len(l)
    BY <1>1 DEF IsLayer, l
  <2>2. IsList(m) /\ Len(m) = Len(l) /\ m[k] = x /\ \A i \in 1..Len(l) : i # k => m[i] = l[i]
    BY <2>1, ListChange
  <2> HIDE DEF m
  <2>3. IsLayer(m)
    BY <1>1, <1>2, <2>1, <2>2 DEF IsLayer
  <2>4. IsTables(u) /\ u[which] = m /\ Others(t, u, which)
    BY <2>3, LayerChange
  <2> HIDE DEF u
  <2>5. Len(u[which]) = Len(l) /\ u[which][k] = x /\ \A i \in 1..Len(l) : i # k => u[which][i] = l[i]
    BY <2>2, <2>4
  <2> QED
    BY <2>4, <2>5 DEF u, m
<1>3. [t EXCEPT ![which][k].super = v] = [t EXCEPT ![which] = [l EXCEPT ![k] = d]]
  OBVIOUS
<1>4. [t EXCEPT ![which][k].props = v] = [t EXCEPT ![which] = [l EXCEPT ![k] = e]]
  OBVIOUS
<1>5. /\ IsClassRecord(d) /\ d.super = v /\ d.props = c.props
      /\ d.name = c.name /\ d.species = c.species /\ d.own = c.own
  <2> HIDE DEF c, l, d
  <2> QED
    BY <1>1, SuperChange DEF d
<1>6. /\ IsClassRecord(e) /\ e.props = v /\ e.super = c.super
      /\ e.name = c.name /\ e.species = c.species /\ e.own = c.own
  <2> HIDE DEF c, l, e
  <2> QED
    BY <1>1, PropsChange DEF e
<1>7. SetsSuper(t, [t EXCEPT ![which] = [l EXCEPT ![k] = d]], which, k, v)
  <2> HIDE DEF d, l, c
  <2> DEFINE u == [t EXCEPT ![which] = [l EXCEPT ![k] = d]]
  <2>1. /\ IsTables(u) /\ Others(t, u, which) /\ Len(u[which]) = Len(l)
        /\ u[which][k] = d /\ \A i \in 1..Len(l) : i # k => u[which][i] = l[i]
    BY <1>2, <1>5
  <2> HIDE DEF u
  <2>2. SetsSuper(t, u, which, k, v)
    BY <1>5, <2>1 DEF SetsSuper, l, c
  <2> QED
    BY <2>2 DEF u
<1>8. SetsProps(t, [t EXCEPT ![which] = [l EXCEPT ![k] = e]], which, k, v)
  <2> HIDE DEF e, l, c
  <2> DEFINE u == [t EXCEPT ![which] = [l EXCEPT ![k] = e]]
  <2>1. /\ IsTables(u) /\ Others(t, u, which) /\ Len(u[which]) = Len(l)
        /\ u[which][k] = e /\ \A i \in 1..Len(l) : i # k => u[which][i] = l[i]
    BY <1>2, <1>6
  <2> HIDE DEF u
  <2>2. SetsProps(t, u, which, k, v)
    BY <1>6, <2>1 DEF SetsProps, l, c
  <2> QED
    BY <2>2 DEF u
<1> QED
  BY <1>3, <1>4, <1>7, <1>8

(* What a lookup finds, if anything.                                       *)
LEMMA LookupName ==
  ASSUME NEW layer, NEW name
  PROVE  /\ LookupByName(layer, name) # 0 =>
              /\ LookupByName(layer, name) \in 1..Len(layer)
              /\ layer[LookupByName(layer, name)].name = name
         /\ LookupByName(layer, name) = 0 => \A i \in 1..Len(layer) : layer[i].name # name
<1>1. CASE \E i \in 1..Len(layer) : layer[i].name = name
  <2>1. LookupByName(layer, name) = CHOOSE i \in 1..Len(layer) : layer[i].name = name
    BY <1>1 DEF LookupByName, Find
  <2>2. /\ LookupByName(layer, name) \in 1..Len(layer)
        /\ layer[LookupByName(layer, name)].name = name
    BY <1>1, <2>1
  <2> QED
    BY <2>2
<1>2. CASE ~\E i \in 1..Len(layer) : layer[i].name = name
  BY <1>2 DEF LookupByName, Find
<1> QED
  BY <1>1, <1>2

LEMMA LookupNumber ==
  ASSUME NEW layer, NEW species
  PROVE  /\ LookupBySpecies(layer, species) # 0 =>
              /\ LookupBySpecies(layer, species) \in 1..Len(layer)
              /\ layer[LookupBySpecies(layer, species)].species = species
         /\ LookupBySpecies(layer, species) = 0 =>
              \A i \in 1..Len(layer) : layer[i].species # species
<1>1. CASE \E i \in 1..Len(layer) : layer[i].species = species
  <2>1. LookupBySpecies(layer, species) = CHOOSE i \in 1..Len(layer) : layer[i].species = species
    BY <1>1 DEF LookupBySpecies, Find
  <2>2. /\ LookupBySpecies(layer, species) \in 1..Len(layer)
        /\ layer[LookupBySpecies(layer, species)].species = species
    BY <1>1, <2>1
  <2> QED
    BY <2>2
<1>2. CASE ~\E i \in 1..Len(layer) : layer[i].species = species
  BY <1>2 DEF LookupBySpecies, Find
<1> QED
  BY <1>1, <1>2

-----------------------------------------------------------------------------
(* The list of a class, from the one it inherits.                          *)

LEMMA SaidOnce ==
  ASSUME NEW list, NEW i \in 1..Len(list),
         \A k \in 1..Len(list) : list[k].sel = list[i].sel => k = i
  PROVE  Mentions(list, list[i].sel) = {i} /\ LastSaid(list, list[i].sel) = list[i].value
<1>1. Mentions(list, list[i].sel) = {i}
  BY DEF Mentions
<1>2. (CHOOSE x \in {i} : \A k \in {i} : k <= x) = i
  OBVIOUS
<1> QED
  BY <1>1, <1>2 DEF LastSaid

StandardProps(species, super) ==
  <<Prop("-script-", species), Prop("-super-", super), Prop("-info-", IsClass)>>

LEMMA StandardSays ==
  ASSUME NEW species, NEW super
  PROVE  LET list == StandardProps(species, super)
         IN  /\ IsPropList(list) /\ Len(list) = 3
             /\ list[1].sel = "-script-" /\ list[2].sel = "-super-" /\ list[3].sel = "-info-"
             /\ Mentions(list, "-script-") # {} /\ LastSaid(list, "-script-") = species
             /\ Mentions(list, "-super-") # {} /\ LastSaid(list, "-super-") = super
             /\ Mentions(list, "-info-") # {} /\ LastSaid(list, "-info-") = IsClass
             /\ \A sel : sel \notin {"-script-", "-super-", "-info-"} => Mentions(list, sel) = {}
<1> DEFINE list == StandardProps(species, super)
           S == {"-script-", "-super-", "-info-"}
           V == {species, super, IsClass}
<1>1. /\ Prop("-script-", species) \in PropSet(S, V)
      /\ Prop("-super-", super) \in PropSet(S, V)
      /\ Prop("-info-", IsClass) \in PropSet(S, V)
  BY DEF PropSet, Prop
<1>2. list \in Seq(PropSet(S, V)) /\ Len(list) = 3
  <2> HIDE DEF S, V
  <2> QED
    BY <1>1 DEF StandardProps
<1>3. IsPropList(list)
  <2> HIDE DEF S, V, list
  <2> QED
    BY <1>2 DEF IsPropList
<1>4. /\ list[1].sel = "-script-" /\ list[2].sel = "-super-" /\ list[3].sel = "-info-"
      /\ list[1].value = species /\ list[2].value = super /\ list[3].value = IsClass
  BY DEF StandardProps, Prop
<1> HIDE DEF list
<1>5. \A k \in 1..Len(list) : k = 1 \/ k = 2 \/ k = 3
  BY <1>2
<1>6. 1 \in 1..Len(list) /\ 2 \in 1..Len(list) /\ 3 \in 1..Len(list)
  BY <1>2
<1>7. /\ \A k \in 1..Len(list) : list[k].sel = list[1].sel => k = 1
      /\ \A k \in 1..Len(list) : list[k].sel = list[2].sel => k = 2
      /\ \A k \in 1..Len(list) : list[k].sel = list[3].sel => k = 3
  BY <1>4, <1>5
<1>8. Mentions(list, "-script-") = {1} /\ LastSaid(list, "-script-") = species
  <2>1. Mentions(list, list[1].sel) = {1} /\ LastSaid(list, list[1].sel) = list[1].value
    BY <1>6, <1>7, SaidOnce
  <2> QED
    BY <1>4, <2>1
<1>9. Mentions(list, "-super-") = {2} /\ LastSaid(list, "-super-") = super
  <2>1. Mentions(list, list[2].sel) = {2} /\ LastSaid(list, list[2].sel) = list[2].value
    BY <1>6, <1>7, SaidOnce
  <2> QED
    BY <1>4, <2>1
<1>10. Mentions(list, "-info-") = {3} /\ LastSaid(list, "-info-") = IsClass
  <2>1. Mentions(list, list[3].sel) = {3} /\ LastSaid(list, list[3].sel) = list[3].value
    BY <1>6, <1>7, SaidOnce
  <2> QED
    BY <1>4, <2>1
<1>11. ASSUME NEW sel, sel \notin S PROVE Mentions(list, sel) = {}
  BY <1>4, <1>5, <1>11 DEF Mentions
<1> QED
  BY <1>2, <1>3, <1>4, <1>8, <1>9, <1>10, <1>11 DEF list

LEMMA BasicIs ==
  /\ HasBasics(BasicProps) /\ Len(Basic) \in Nat
  /\ \A sel \in {"-size-", "-script-", "-super-", "-info-", "name"} :
       \E b \in 1..Len(Basic) : Basic[b] = sel
<1> DEFINE R == Range(Basic)
           V == {Number(4660), Number(0)}
<1>1. Basic \in Seq(R) /\ DOMAIN Basic = 1..Len(Basic) /\ Len(Basic) \in Nat
  <2>1. Basic \in Seq(R)
    BY ClassAssumption
  <2> HIDE DEF R
  <2> QED
    BY <2>1
<1>2. \A i \in 1..Len(Basic) :
        /\ Prop(Basic[i], Number(IF Basic[i] = "-objID-" THEN 4660 ELSE 0)) \in PropSet(R, V)
        /\ Prop(Basic[i], Number(IF Basic[i] = "-objID-" THEN 4660 ELSE 0)).sel = Basic[i]
  <2> HIDE DEF R, V
  <2> TAKE i \in 1..Len(Basic)
  <2> USE DEF R, V
  <2>1. Basic[i] \in R
    <3> HIDE DEF R
    <3> QED
      BY <1>1
  <2> HIDE DEF R
  <2> QED
    BY <2>1 DEF Prop, PropSet
<1>3. /\ BasicProps \in Seq(PropSet(R, V)) /\ Len(BasicProps) = Len(Basic)
      /\ \A i \in 1..Len(Basic) : BasicProps[i].sel = Basic[i]
  <2> HIDE DEF R, V
  <2> QED
    BY <1>1, <1>2 DEF BasicProps
<1>4. IsPropList(BasicProps)
  BY <1>3 DEF IsPropList
<1>5. \A i, j \in 1..Len(Basic) : Basic[i] = Basic[j] => i = j
  BY <1>1, ClassAssumption DEF IsInjective
<1>6. HasBasics(BasicProps)
  BY <1>1, <1>3, <1>4, <1>5 DEF HasBasics, IsDistinct, HasProp
<1>7. \A sel \in {"-size-", "-script-", "-super-", "-info-", "name"} :
        \E b \in 1..Len(Basic) : Basic[b] = sel
  BY <1>1, ClassAssumption DEF Range
<1> QED
  BY <1>1, <1>6, <1>7

LEMMA ListIsMade ==
  ASSUME NEW inherited, HasBasics(inherited), NEW own, IsPropList(own), NEW species, NEW super
  PROVE  LET list == SizeProps(Update(Update(inherited, StandardProps(species, super)), own))
         IN  IsWhole(list) /\ IsMadeOf(list, inherited, own, species, super)
<1> DEFINE std == StandardProps(species, super)
           u == Update(inherited, std)
           v == Update(u, own)
           w == UpdatePropertyDef(v, "-size-", Number(Len(v)))
<1>1. IsPropList(inherited) /\ IsDistinct(inherited) /\ Len(inherited) \in Nat
  BY DEF HasBasics, IsPropList
<1>2. \A sel \in {"-size-", "-script-", "-super-", "-info-", "name"} :
        \E i \in 1..Len(inherited) : inherited[i].sel = sel
  <2> TAKE sel \in {"-size-", "-script-", "-super-", "-info-", "name"}
  <2>1. PICK b \in 1..Len(Basic) : Basic[b] = sel
    BY BasicIs
  <2>2. HasProp(inherited, Basic[b])
    BY DEF HasBasics
  <2> QED
    BY <2>1, <2>2 DEF HasProp
<1>3. IsPropList(std) /\ Len(std) = 3
  BY StandardSays
<1>4. /\ \A m \in 1..Len(std) : std[m].sel \in {"-script-", "-super-", "-info-"}
  <2>1. std[1].sel = "-script-" /\ std[2].sel = "-super-" /\ std[3].sel = "-info-"
    BY StandardSays
  <2>2. \A m \in 1..Len(std) : m = 1 \/ m = 2 \/ m = 3
    BY <1>3
  <2> HIDE DEF std
  <2> QED
    BY <2>1, <2>2
<1> HIDE DEF std
<1>5. \A m \in 1..Len(std) : \E i \in 1..Len(inherited) : inherited[i].sel = std[m].sel
  BY <1>2, <1>4
<1>6. IsPropList(u) /\ IsUpdated(u, inherited, std, Len(std))
  BY <1>1, <1>3, UpdateOfLists
<1> HIDE DEF u
<1>7. Len(u) = Len(inherited) /\ \A i \in 1..Len(u) : u[i].sel = inherited[i].sel
  <2>1. IsPropList(inherited) /\ IsDistinct(inherited)
    BY <1>1
  <2>2. IsPropList(std)
    BY <1>3
  <2>3. IsPropList(u) /\ IsUpdated(u, inherited, std, Len(std))
    BY <1>6
  <2> QED
    BY <1>5, <2>1, <2>2, <2>3, SamePlaces
<1>8. IsDistinct(u)
  BY <1>6 DEF IsUpdated
<1>9. IsPropList(v) /\ IsUpdated(v, u, own, Len(own)) /\ IsDistinct(v) /\ Len(v) \in Nat
  <2>1. IsPropList(v) /\ IsUpdated(v, u, own, Len(own))
    BY <1>6, <1>8, UpdateOfLists
  <2> HIDE DEF v
  <2>2. Len(v) \in Nat
    BY <2>1 DEF IsPropList
  <2> QED
    BY <2>1, <2>2 DEF IsUpdated
<1> HIDE DEF v
<1>10. \A i \in 1..Len(u) : i \in 1..Len(v) /\ v[i].sel = inherited[i].sel
  BY <1>1, <1>7, <1>9 DEF IsUpdated
<1>11. HasProp(v, "-size-")
  BY <1>2, <1>7, <1>10 DEF HasProp
<1>12. /\ IsPropList(w) /\ IsDistinct(w) /\ Len(w) = Len(v)
       /\ \A i \in 1..Len(v) : w[i].sel = v[i].sel
       /\ \A i \in 1..Len(w) :
            w[i].value = IF w[i].sel = "-size-" THEN Number(Len(v)) ELSE v[i].value
  <2>1. PICK S, V : v \in Seq(PropSet(S, V))
    BY <1>9 DEF IsPropList
  <2> DEFINE S2 == S \cup {"-size-"}
             V2 == V \cup {Number(Len(v))}
  <2>2. v \in Seq(PropSet(S2, V2))
    <3>1. PropSet(S, V) \subseteq PropSet(S2, V2)
      BY DEF PropSet
    <3> HIDE DEF S2, V2
    <3>2. Len(v) \in Nat /\ v = [i \in 1..Len(v) |-> v[i]] /\ \A i \in 1..Len(v) : v[i] \in PropSet(S, V)
      BY <2>1
    <3> QED
      BY <3>1, <3>2, IsSeqOver
  <2>3. "-size-" \in S2 /\ Number(Len(v)) \in V2
    OBVIOUS
  <2> HIDE DEF S2, V2
  <2>4. /\ w \in Seq(PropSet(S2, V2)) /\ IsDistinct(w)
        /\ Len(w) = Len(v)
        /\ \A i \in 1..Len(v) : w[i].sel = v[i].sel
        /\ \A i \in 1..Len(w) :
             w[i].value = IF w[i].sel = "-size-" THEN Number(Len(v)) ELSE v[i].value
    BY <1>9, <1>11, <2>2, <2>3, OneUpdate
  <2>5. IsPropList(w)
    <3> HIDE DEF w
    <3> QED
      BY <2>4 DEF IsPropList
  <2> QED
    BY <2>4, <2>5
<1>13. SizeProps(v) = w
  BY DEF SizeProps
<1> HIDE DEF w
<1>14. \A i \in 1..Len(inherited) : i \in 1..Len(w) /\ w[i].sel = inherited[i].sel
  BY <1>7, <1>10, <1>12
<1>15. IsWhole(w)
  <2>1. \A b \in 1..Len(Basic) : HasProp(w, Basic[b])
    BY <1>14 DEF HasBasics, HasProp
  <2> QED
    BY <1>12, <2>1 DEF IsWhole, HasBasics
<1>16. Len(inherited) <= Len(w) /\ \A k \in 1..Len(inherited) : w[k].sel = inherited[k].sel
  BY <1>7, <1>9, <1>12, <1>14 DEF IsUpdated
<1>17. \A k \in 1..Len(w) : k \in 1..Len(inherited) \/ \E m \in 1..Len(own) : own[m].sel = w[k].sel
  BY <1>7, <1>9, <1>12 DEF IsUpdated
<1>18. \A m \in 1..Len(own) : \E k \in 1..Len(w) : w[k].sel = own[m].sel
  BY <1>9, <1>12, SMTT(30) DEF IsUpdated
<1>19. ASSUME NEW k \in 1..Len(w), w[k].sel # "-size-"
       PROVE  IF Mentions(own, w[k].sel) # {} THEN w[k].value = LastSaid(own, w[k].sel)
              ELSE /\ k \in 1..Len(u)
                   /\ w[k].value = IF Mentions(std, w[k].sel) # {} THEN LastSaid(std, w[k].sel)
                                   ELSE inherited[k].value
  <2>1. k \in 1..Len(v) /\ w[k].sel = v[k].sel /\ w[k].value = v[k].value
    BY <1>12, <1>19
  <2>2. /\ Mentions(own, v[k].sel) # {} => v[k].value = LastSaid(own, v[k].sel)
        /\ Mentions(own, v[k].sel) = {} => k \in 1..Len(u) /\ v[k].value = u[k].value
    <3>1. Len(v) \in Nat /\ IsUpdated(v, u, own, Len(own)) /\ k \in 1..Len(v)
      BY <1>9, <2>1
    <3>2. IsSaid(v, u, own, k)
      BY <3>1, SaidLast
    <3> QED
      BY <3>2 DEF IsSaid
  <2>3. CASE Mentions(own, v[k].sel) # {}
    BY <2>1, <2>2, <2>3
  <2>4. CASE Mentions(own, v[k].sel) = {}
    <3>1. k \in 1..Len(u) /\ v[k].value = u[k].value /\ Len(u) \in Nat
      BY <1>1, <1>7, <2>2, <2>4
    <3>2. u[k].sel = v[k].sel
      BY <1>7, <1>10, <3>1
    <3>3. /\ Mentions(std, u[k].sel) # {} => u[k].value = LastSaid(std, u[k].sel)
          /\ Mentions(std, u[k].sel) = {} =>
               k \in 1..Len(inherited) /\ u[k].value = inherited[k].value
      <4>1. IsPropList(std)
        BY <1>3
      <4>2. Len(u) \in Nat /\ IsUpdated(u, inherited, std, Len(std)) /\ k \in 1..Len(u)
        BY <1>6, <3>1
      <4>3. IsSaid(u, inherited, std, k)
        BY <4>1, <4>2, SaidLast
      <4> QED
        BY <4>3 DEF IsSaid
    <3> QED
      BY <2>1, <2>4, <3>1, <3>2, <3>3
  <2> QED
    BY <2>3, <2>4
<1>20. /\ Mentions(std, "-script-") # {} /\ LastSaid(std, "-script-") = species
       /\ Mentions(std, "-super-") # {} /\ LastSaid(std, "-super-") = super
       /\ Mentions(std, "-info-") # {} /\ LastSaid(std, "-info-") = IsClass
       /\ \A sel : sel \notin {"-script-", "-super-", "-info-"} => Mentions(std, sel) = {}
  BY StandardSays DEF std
<1>21. ASSUME NEW k \in 1..Len(w)
       PROVE  w[k].value = ListValue(w, inherited, own, species, super, k)
  <2>1. CASE w[k].sel = "-size-"
    BY <1>12, <2>1 DEF ListValue
  <2>2. CASE w[k].sel # "-size-" /\ Mentions(own, w[k].sel) # {}
    BY <1>19, <2>2 DEF ListValue
  <2>3. CASE w[k].sel # "-size-" /\ Mentions(own, w[k].sel) = {}
    <3>1. w[k].value = IF Mentions(std, w[k].sel) # {} THEN LastSaid(std, w[k].sel)
                       ELSE inherited[k].value
      BY <1>19, <2>3
    <3>2. CASE w[k].sel = "-script-"
      BY <1>20, <2>3, <3>1, <3>2 DEF ListValue
    <3>3. CASE w[k].sel = "-super-"
      BY <1>20, <2>3, <3>1, <3>3 DEF ListValue
    <3>4. CASE w[k].sel = "-info-"
      BY <1>20, <2>3, <3>1, <3>4 DEF ListValue
    <3>5. CASE w[k].sel \notin {"-script-", "-super-", "-info-"}
      BY <1>20, <2>3, <3>1, <3>5 DEF ListValue
    <3> QED
      BY <3>2, <3>3, <3>4, <3>5
  <2> QED
    BY <2>1, <2>2, <2>3
<1>22. IsMadeOf(w, inherited, own, species, super)
  BY <1>16, <1>17, <1>18, <1>21 DEF IsMadeOf
<1> QED
  BY <1>13, <1>15, <1>22 DEF v, u, std

(* ResolveProperties makes such a list, once that of the super is made.    *)
LEMMA ResolvedList ==
  ASSUME NEW layer, NEW c \in 1..Len(layer), IsPropList(layer[c].own),
         \/ layer[c].super = NoSuper
         \/ IsWhole(layer[layer[c].super].props)
  PROVE  LET list == PropertiesOf(layer, c)
             cls == layer[c]
         IN  /\ IsWhole(list) /\ list # <<>>
             /\ IsMadeOf(list, InheritedIn(layer, cls), cls.own, Number(cls.species), SuperIn(layer, cls))
<1> DEFINE cls == layer[c]
           inherited == InheritedIn(layer, cls)
           list == PropertiesOf(layer, c)
           made == SizeProps(Update(Update(inherited,
                     StandardProps(Number(cls.species), SuperIn(layer, cls))), cls.own))
<1>1. list = made
  BY DEF PropertiesOf, InheritedIn, SuperIn, StandardProps
<1>2. HasBasics(inherited)
  <2>1. CASE cls.super = NoSuper
    BY <2>1, BasicIs DEF InheritedIn
  <2>2. CASE cls.super # NoSuper
    BY <2>2 DEF InheritedIn, IsWhole
  <2> QED
    BY <2>1, <2>2
<1>3. /\ IsWhole(made)
      /\ IsMadeOf(made, inherited, cls.own, Number(cls.species), SuperIn(layer, cls))
  <2> DEFINE own == cls.own
             species == Number(cls.species)
             super == SuperIn(layer, cls)
  <2>1. IsPropList(own)
    OBVIOUS
  <2> HIDE DEF own, species, super, inherited
  <2>2. LET l == SizeProps(Update(Update(inherited, StandardProps(species, super)), own))
        IN  IsWhole(l) /\ IsMadeOf(l, inherited, own, species, super)
    BY <1>2, <2>1, ListIsMade
  <2> QED
    BY <2>2 DEF own, species, super, inherited
<1> HIDE DEF made, list
<1>4. list # <<>>
  <2>1. PICK b \in 1..Len(Basic) : Basic[b] = "name"
    BY BasicIs
  <2>2. HasProp(list, Basic[b])
    BY <1>1, <1>3 DEF IsWhole, HasBasics
  <2>3. Len(list) # 0
    <3>1. PICK i \in 1..Len(list) : list[i].sel = Basic[b]
      BY <2>2 DEF HasProp
    <3> QED
      BY <3>1
  <2> QED
    BY <2>3
<1> QED
  BY <1>1, <1>3, <1>4 DEF list

-----------------------------------------------------------------------------
(* A number is free for a new class: there are fewer classes than          *)
(* candidates.                                                             *)
LEMMA NextSpeciesIs ==
  ASSUME TablesInv
  PROVE  NextSpecies \in Nat
<1> DEFINE layer == layers.def
           L == Len(layer)
           A == currSpecies..(currSpecies + L)
           Free == {n \in A : LookupBySpecies(layer, n) = 0}
<1>1. L \in Nat /\ currSpecies \in Nat
  <2>1. IsList(layer) /\ currSpecies \in Nat
    BY DEF TablesInv, IsLayer
  <2> HIDE DEF layer
  <2>2. Len(layer) \in Nat
    BY <2>1, ListAppend
  <2> QED
    BY <2>1, <2>2
<1> HIDE DEF L
<1>2. Free # {}
  <2> SUFFICES ASSUME Free = {} PROVE FALSE
    OBVIOUS
  <2> DEFINE f == [n \in A |-> LookupBySpecies(layer, n)]
  <2>1. \A n \in A : LookupBySpecies(layer, n) # 0
    OBVIOUS
  <2> HIDE DEF layer
  <2>2. \A n \in A : LookupBySpecies(layer, n) \in 1..L /\ layer[LookupBySpecies(layer, n)].species = n
    BY <2>1, LookupNumber DEF L
  <2>3. f \in [A -> 1..L] /\ \A n \in A : layer[f[n]].species = n
    BY <2>2
  <2>4. IsFiniteSet(A) /\ Cardinality(A) = L + 1
    <3>1. currSpecies \in Int /\ currSpecies + L \in Int
      BY <1>1
    <3>2. /\ IsFiniteSet(currSpecies..(currSpecies + L))
          /\ Cardinality(currSpecies..(currSpecies + L)) =
               IF currSpecies > currSpecies + L THEN 0 ELSE (currSpecies + L) - currSpecies + 1
      BY <3>1, FS_Interval
    <3> QED
      BY <1>1, <3>2
  <2>5. IsFiniteSet(1..L) /\ Cardinality(1..L) = L
    <3>1. IsFiniteSet(1..L) /\ Cardinality(1..L) = IF 1 > L THEN 0 ELSE L - 1 + 1
      BY <1>1, FS_Interval
    <3> QED
      BY <1>1, <3>1
  <2>6. Cardinality(1..L) < Cardinality(A)
    BY <1>1, <2>4, <2>5
  <2> DEFINE B == 1..L
  <2> HIDE DEF A, f, B
  <2>7. \E x, y \in A : x # y /\ f[x] = f[y]
    <3>1. f \in [A -> B] /\ IsFiniteSet(B) /\ Cardinality(B) < Cardinality(A)
      BY <2>3, <2>5, <2>6 DEF B
    <3> QED
      BY <2>4, <3>1, FS_PigeonHole
  <2> QED
    BY <2>3, <2>7
<1>3. Free \subseteq Nat
  BY <1>1
<1>4. PICK n \in Free : \A y \in Free : n <= y
  <2> HIDE DEF Free
  <2> QED
    BY <1>2, <1>3, LeastNatural
<1>5. \A k \in currSpecies..(n - 1) : LookupBySpecies(layer, k) # 0
  <2> SUFFICES ASSUME NEW k \in currSpecies..(n - 1), LookupBySpecies(layer, k) = 0 PROVE FALSE
    OBVIOUS
  <2>1. n \in currSpecies..(currSpecies + L)
    BY <1>4
  <2>2. k \in A /\ k < n
    BY <1>1, <2>1
  <2>3. n <= k
    BY <1>4, <2>2
  <2> QED
    BY <1>1, <2>1, <2>2, <2>3
<1>6. n \in A /\ LookupBySpecies(layer, n) = 0
  BY <1>4
<1>7. NextSpecies \in A
  <2> HIDE DEF A
  <2>1. \E m \in A : /\ LookupBySpecies(layer, m) = 0
                     /\ \A k \in currSpecies..(m - 1) : LookupBySpecies(layer, k) # 0
    BY <1>5, <1>6
  <2>2. NextSpecies = CHOOSE m \in A :
                        /\ LookupBySpecies(layer, m) = 0
                        /\ \A k \in currSpecies..(m - 1) : LookupBySpecies(layer, k) # 0
    BY DEF NextSpecies, A, L
  <2> QED
    BY <2>1, <2>2
<1> QED
  BY <1>1, <1>7

-----------------------------------------------------------------------------
(* What a step that leaves a table alone keeps.                            *)

LEMMA ListsOfPhases ==
  /\ ListOf("decls") = Decls /\ ListOf("declSupers") = Decls
  /\ ListOf("declProps") = layers.decl
  /\ ListOf("defs") = Defs /\ ListOf("defSupers") = Defs
  /\ ListOf("copies") = Copies /\ ListOf("copySupers") = Copies
  /\ ListOf("defProps") = layers.def /\ ListOf("objects") = Objects
BY DEF ListOf

LEMMA LengthsAre ==
  ASSUME PhaseInv
  PROVE  /\ Len(Decls) \in Nat /\ Len(Defs) \in Nat /\ Len(Objects) \in Nat /\ Len(Copies) \in Nat
         /\ \A i \in 1..Len(Decls) :
              Decls[i].kind = "classdef" /\ Decls[i].species \in Nat /\ IsPropList(Decls[i].props)
         /\ \A i \in 1..Len(Defs) : Defs[i].kind = "class" /\ IsPropList(Defs[i].props)
         /\ \A i \in 1..Len(Objects) : IsPropList(Objects[i].props)
<1>1. IsSource(source)
  BY DEF PhaseInv
<1>2. ASSUME NEW l, IsList(l) PROVE Len(l) \in Nat /\ \A i \in 1..Len(l) : l[i] \in Range(l)
  <2> DEFINE R == Range(l)
  <2>1. l \in Seq(R)
    BY <1>2 DEF IsList
  <2> HIDE DEF R
  <2>2. Len(l) \in Nat /\ \A i \in 1..Len(l) : l[i] \in R
    BY <2>1
  <2> QED
    BY <2>2 DEF R
<1>3. IsList(Decls) /\ IsList(Defs) /\ IsList(Objects)
  BY <1>1 DEF IsSource, Decls, Defs, Objects
<1>4. \A props : IsProps(props) => IsPropList(props)
  <2> TAKE props
  <2> DEFINE S == {props[i].sel : i \in 1..Len(props)}
             V == {props[i].value : i \in 1..Len(props)}
  <2>1. IsProps(props) => props \in Seq(PropSet(S, V))
    BY DEF IsProps, PropSet
  <2> HIDE DEF S, V
  <2> QED
    BY <2>1 DEF IsPropList
<1>5. Len(Copies) \in Nat
  <2> DEFINE R == Range(Decls)
  <2>1. Copies \in Seq(R)
    BY <1>1, CopiesAre
  <2> HIDE DEF R
  <2> QED
    BY <2>1
<1>6. /\ \A item \in Range(Decls) : item.kind = "classdef" /\ item.species \in Nat /\ IsProps(item.props)
      /\ \A item \in Range(Defs) : item.kind = "class" /\ IsProps(item.props)
      /\ \A item \in Range(Objects) : IsProps(item.props)
  BY <1>1 DEF IsSource, Decls, Defs, Objects
<1> HIDE DEF IsProps, IsPropList
<1>7. \A i \in 1..Len(Decls) : Decls[i] \in Range(Decls)
  BY <1>2, <1>3
<1>8. \A i \in 1..Len(Defs) : Defs[i] \in Range(Defs)
  BY <1>2, <1>3
<1>9. \A i \in 1..Len(Objects) : Objects[i] \in Range(Objects)
  BY <1>2, <1>3
<1>10. Len(Decls) \in Nat /\ Len(Defs) \in Nat /\ Len(Objects) \in Nat
  BY <1>2, <1>3
<1> QED
  BY <1>4, <1>5, <1>6, <1>7, <1>8, <1>9, <1>10

LEMMA DeclsKept ==
  ASSUME DeclInv, source' = source, layers'.decl = layers.decl,
         DeclsDone' = DeclsDone, DeclSupersDone' = DeclSupersDone
  PROVE  DeclInv'
BY DEF DeclInv, Decls, SuperHasNumber, IsMadeFrom

SameDefProgress ==
  /\ DefsDone' = DefsDone /\ CopiesDone' = CopiesDone
  /\ DefSupersDone' = DefSupersDone /\ CopySupersDone' = CopySupersDone

LEMMA DefsKept ==
  ASSUME DefInv, source' = source, layers'.def = layers.def, defSpecies' = defSpecies,
         SameDefProgress
  PROVE  DefInv'
<1>1. Copies' = Copies /\ Defs' = Defs /\ Decls' = Decls
  BY DEF Copies, Decls, Defs
<1> QED
  BY <1>1 DEF DefInv, SameDefProgress, SuperHasNumber, SuperHasName, IsDefined, IsCopied, IsMadeFrom

LEMMA ListsKept ==
  ASSUME ListsInv, layers'.def = layers.def, PropsDone' = PropsDone,
         PhaseRank(phase') < 11 => PhaseRank(phase) < 11
  PROVE  ListsInv'
BY DEF ListsInv, IsResolved

LEMMA TablesKept ==
  ASSUME TablesInv, layers' = layers, currSpecies' = currSpecies
  PROVE  TablesInv'
BY DEF TablesInv

LEMMA TablesAre ==
  ASSUME TablesInv
  PROVE  /\ IsTables(layers) /\ Len(layers.decl) \in Nat /\ Len(layers.def) \in Nat
         /\ layers["decl"] = layers.decl /\ layers["def"] = layers.def
<1>1. IsTables(layers) /\ IsList(layers.decl) /\ IsList(layers.def)
  BY DEF TablesInv, IsTables, IsLayer
<1>2. Len(layers.decl) \in Nat /\ Len(layers.def) \in Nat
  BY <1>1, ListAppend
<1> QED
  BY <1>1, <1>2

SameProgress ==
  /\ DeclsDone' = DeclsDone /\ DeclSupersDone' = DeclSupersDone /\ PropsDone' = PropsDone
  /\ SameDefProgress

LEMMA ProgressAtEnd ==
  ASSUME PhaseInv, TablesInv, CursorInv, EndPhase
  PROVE  SameProgress
<1>1. /\ phase \in PhaseNames /\ phase # "done" /\ phase' = After(phase) /\ cursor' = 1
      /\ source' = source /\ layers' = layers /\ defSpecies' = defSpecies
      /\ cursor > Len(ListOf(phase)) /\ cursor \in Nat
  BY PhaseNamesAre DEF EndPhase, Working, PhaseInv, Tables, classVars
<1>2. phase' \in PhaseNames /\ PhaseRank(phase') = PhaseRank(phase) + 1
  BY <1>1, RankAfter
<1>3. /\ Len(Decls) \in Nat /\ Len(Defs) \in Nat /\ Len(Copies) \in Nat /\ Len(layers.def) \in Nat
  BY LengthsAre, TablesAre
<1>4. Decls' = Decls /\ Defs' = Defs /\ Copies' = Copies
  BY <1>1 DEF Decls, Defs, Copies
<1>5. ASSUME NEW p \in ClassPhases, phase = p, Len(ListOf(p)) \in Nat
      PROVE  cursor = Len(ListOf(p)) + 1
  <2>1. cursor <= Len(ListOf(p)) + 1 /\ cursor > Len(ListOf(p))
    BY <1>1, <1>5 DEF CursorInv
  <2> QED
    BY <1>1, <1>5, <2>1
<1>6. ASSUME NEW p \in ClassPhases, NEW n \in Nat, phase = p => cursor = n + 1
      PROVE  Reached(phase', 1, p, n) = Reached(phase, cursor, p, n)
  <2>1. p \in PhaseNames
    BY PhaseNamesAre DEF ClassPhases
  <2> QED
    BY <1>1, <1>2, <1>6, <2>1, ReachedNext
<1>7. /\ phase = "decls" => cursor = Len(Decls) + 1
      /\ phase = "declSupers" => cursor = Len(Decls) + 1
      /\ phase = "defs" => cursor = Len(Defs) + 1
      /\ phase = "copies" => cursor = Len(Copies) + 1
      /\ phase = "defSupers" => cursor = Len(Defs) + 1
      /\ phase = "copySupers" => cursor = Len(Copies) + 1
      /\ phase = "defProps" => cursor = Len(layers.def) + 1
  BY <1>3, <1>5, ListsOfPhases DEF ClassPhases
<1>8. DeclsDone' = DeclsDone
  BY <1>1, <1>3, <1>4, <1>6, <1>7 DEF DeclsDone, Progress, ClassPhases
<1>9. DeclSupersDone' = DeclSupersDone
  BY <1>1, <1>3, <1>4, <1>6, <1>7 DEF DeclSupersDone, Progress, ClassPhases
<1>10. DefsDone' = DefsDone
  BY <1>1, <1>3, <1>4, <1>6, <1>7 DEF DefsDone, Progress, ClassPhases
<1>11. CopiesDone' = CopiesDone
  BY <1>1, <1>3, <1>4, <1>6, <1>7 DEF CopiesDone, Progress, ClassPhases
<1>12. DefSupersDone' = DefSupersDone
  BY <1>1, <1>3, <1>4, <1>6, <1>7 DEF DefSupersDone, Progress, ClassPhases
<1>13. CopySupersDone' = CopySupersDone
  BY <1>1, <1>3, <1>4, <1>6, <1>7 DEF CopySupersDone, Progress, ClassPhases
<1>14. PropsDone' = PropsDone
  BY <1>1, <1>3, <1>4, <1>6, <1>7 DEF PropsDone, Progress, ClassPhases
<1> QED
  BY <1>8, <1>9, <1>10, <1>11, <1>12, <1>13, <1>14 DEF SameProgress, SameDefProgress

LEMMA ClassesAtEnd ==
  ASSUME ClassInv, PhaseInv', EndPhase
  PROVE  ClassInv'
<1>1. /\ phase \in PhaseNames /\ phase # "done" /\ phase' = After(phase) /\ cursor' = 1
      /\ source' = source /\ UNCHANGED classVars /\ resolving = <<>>
      /\ Alive /\ PhaseInv /\ TablesInv
  BY PhaseNamesAre DEF EndPhase, Working, PhaseInv, Tables, Alive, ClassInv
<1>2. CursorInv /\ DeclInv /\ DefInv /\ ResolvingInv /\ ListsInv
  BY <1>1 DEF ClassInv
<1>3. SameProgress
  BY <1>1, <1>2, ProgressAtEnd
<1>4. TablesInv'
  BY <1>1, TablesKept DEF classVars
<1>5. DeclInv'
  BY <1>1, <1>2, <1>3, DeclsKept DEF classVars, SameProgress
<1>6. DefInv'
  BY <1>1, <1>2, <1>3, DefsKept DEF classVars, SameProgress
<1>7. PhaseRank(phase') = PhaseRank(phase) + 1 /\ PhaseRank(phase) \in Int
  BY <1>1, RankAfter, RanksDiffer
<1>8. ListsInv'
  <2>1. PhaseRank(phase') < 11 => PhaseRank(phase) < 11
    BY <1>7
  <2> QED
    BY <1>1, <1>2, <1>3, <2>1, ListsKept DEF classVars, SameProgress
<1>9. ResolvingInv'
  <2>1. resolving' = <<>>
    BY <1>1 DEF classVars
  <2> QED
    BY <2>1 DEF ResolvingInv
<1>10. CursorInv'
  <2>1. /\ (Len(Decls) \in Nat)' /\ (Len(Defs) \in Nat)' /\ (Len(Copies) \in Nat)'
        /\ (Len(Objects) \in Nat)' /\ (Len(layers.decl) \in Nat)' /\ (Len(layers.def) \in Nat)'
    <3>1. /\ Len(Decls) \in Nat /\ Len(Defs) \in Nat /\ Len(Copies) \in Nat
          /\ Len(Objects) \in Nat /\ Len(layers.decl) \in Nat /\ Len(layers.def) \in Nat
      BY <1>1, LengthsAre, TablesAre
    <3>2. Decls' = Decls /\ Defs' = Defs /\ Copies' = Copies /\ Objects' = Objects /\ layers' = layers
      BY <1>1 DEF Decls, Defs, Copies, Objects, classVars
    <3> QED
      BY <3>1, <3>2
  <2>2. phase' \in ClassPhases \cup {"objects"} => Len(ListOf(phase))' \in Nat
    <3>1. CASE phase' = "decls"
      BY <2>1, <3>1 DEF ListOf
    <3>2. CASE phase' = "declSupers"
      BY <2>1, <3>2 DEF ListOf
    <3>3. CASE phase' = "declProps"
      BY <2>1, <3>3 DEF ListOf
    <3>4. CASE phase' = "defs"
      BY <2>1, <3>4 DEF ListOf
    <3>5. CASE phase' = "copies"
      BY <2>1, <3>5 DEF ListOf
    <3>6. CASE phase' = "defSupers"
      BY <2>1, <3>6 DEF ListOf
    <3>7. CASE phase' = "copySupers"
      BY <2>1, <3>7 DEF ListOf
    <3>8. CASE phase' = "defProps"
      BY <2>1, <3>8 DEF ListOf
    <3>9. CASE phase' = "objects"
      BY <2>1, <3>9 DEF ListOf
    <3> QED
      BY <3>1, <3>2, <3>3, <3>4, <3>5, <3>6, <3>7, <3>8, <3>9 DEF ClassPhases
  <2> QED
    BY <1>1, <2>2 DEF CursorInv
<1> QED
  BY <1>4, <1>5, <1>6, <1>8, <1>9, <1>10 DEF ClassInv

(* A step that leaves the classes alone.                                   *)
LEMMA ClassesStay ==
  ASSUME ClassInv, PhaseInv', phase' = phase, source' = source,
         UNCHANGED <<layers, currSpecies, defSpecies>>,
         cursor' = cursor \/ phase \notin ClassPhases, CursorInv', Alive => ResolvingInv'
  PROVE  ClassInv'
<1>1. SameProgress
  <2>1. ASSUME NEW p \in ClassPhases, NEW n
        PROVE  Reached(phase, cursor', p, n) = Reached(phase, cursor, p, n)
    BY <2>1 DEF Reached
  <2>2. Decls' = Decls /\ Defs' = Defs /\ Copies' = Copies
    BY DEF Decls, Defs, Copies
  <2>3. DeclsDone' = DeclsDone /\ DeclSupersDone' = DeclSupersDone
    BY <2>1, <2>2 DEF DeclsDone, DeclSupersDone, Progress, ClassPhases
  <2>4. DefsDone' = DefsDone /\ CopiesDone' = CopiesDone
    BY <2>1, <2>2 DEF DefsDone, CopiesDone, Progress, ClassPhases
  <2>5. DefSupersDone' = DefSupersDone /\ CopySupersDone' = CopySupersDone
    BY <2>1, <2>2 DEF DefSupersDone, CopySupersDone, Progress, ClassPhases
  <2>6. PropsDone' = PropsDone
    BY <2>1 DEF PropsDone, Progress, ClassPhases
  <2> QED
    BY <2>3, <2>4, <2>5, <2>6 DEF SameProgress, SameDefProgress
<1>2. TablesInv'
  BY TablesKept DEF ClassInv
<1>3. CASE Alive
  <2>1. DeclInv /\ DefInv /\ ResolvingInv /\ ListsInv
    BY <1>3 DEF ClassInv
  <2>2. DeclInv'
    BY <1>1, <2>1, DeclsKept DEF SameProgress
  <2>3. DefInv'
    BY <1>1, <2>1, DefsKept DEF SameProgress
  <2>4. ListsInv'
    BY <1>1, <2>1, ListsKept DEF SameProgress
  <2> QED
    BY <1>2, <1>3, <2>2, <2>3, <2>4 DEF ClassInv
<1>4. CASE ~Alive
  BY <1>2, <1>4 DEF ClassInv, Alive
<1> QED
  BY <1>3, <1>4

-----------------------------------------------------------------------------
(* A class that is added.                                                  *)

LEMMA AddedTables ==
  ASSUME TablesInv, NEW which \in {"decl", "def"}, NEW base, NEW species \in Nat,
         CanAdd(layers[which], base, species), IsPropList(base.props),
         layers' = [layers EXCEPT ![which] = Append(@, NewClass(base, species))],
         currSpecies' \in Nat
  PROVE  TablesInv' /\ Adds(layers, layers', which, NewClass(base, species))
<1> DEFINE c == NewClass(base, species)
           n == Len(layers[which])
<1>1. IsClassRecord(c) /\ c.name = base.name /\ c.species = species /\ c.own = base.props /\ c.props = <<>>
  BY DEF IsClassRecord, NewClass
<1> HIDE DEF c
<1>2. IsTables(layers)
  BY TablesAre
<1>3. Adds(layers, [layers EXCEPT ![which] = Append(@, c)], which, c)
  BY <1>1, <1>2, AddsClass
<1>4. Adds(layers, layers', which, c)
  BY <1>3 DEF c
<1>5. /\ IsTables(layers') /\ Others(layers, layers', which) /\ n \in Nat
      /\ Len(layers'[which]) = n + 1 /\ layers'[which][n + 1] = c
      /\ \A i \in 1..n : layers'[which][i] = layers[which][i]
  BY <1>4 DEF Adds
<1>6. /\ NoTwins(layers["decl"]) /\ NoTwins(layers["def"])
      /\ \A i \in 1..Len(layers["decl"]) : HasLists(layers["decl"][i])
      /\ \A i \in 1..Len(layers["def"]) : HasLists(layers["def"][i])
  BY TablesAre DEF TablesInv
<1>7. \A i \in 1..n : layers[which][i].name # c.name /\ layers[which][i].species # c.species
  BY <1>1, LookupName, LookupNumber DEF CanAdd
<1>8. \A i \in 1..(n + 1) : i \in 1..n \/ i = n + 1
  BY <1>5
<1>9. NoTwins(layers[which]) /\ \A i \in 1..n : HasLists(layers[which][i])
  BY <1>6
<1> HIDE DEF n
<1>10. NoTwins(layers'[which])
  <2> SUFFICES ASSUME NEW i \in 1..(n + 1), NEW j \in 1..(n + 1),
                      \/ layers'[which][i].name = layers'[which][j].name
                      \/ layers'[which][i].species = layers'[which][j].species
               PROVE  i = j
    BY <1>5 DEF NoTwins
  <2>1. CASE i \in 1..n /\ j \in 1..n
    BY <1>5, <1>9, <2>1 DEF NoTwins, n
  <2>2. CASE i \in 1..n /\ j = n + 1
    BY <1>5, <1>7, <2>2
  <2>3. CASE i = n + 1 /\ j \in 1..n
    BY <1>5, <1>7, <2>3
  <2> QED
    BY <1>8, <2>1, <2>2, <2>3
<1>11. HasLists(c)
  BY <1>1 DEF HasLists
<1>12. \A i \in 1..(n + 1) : HasLists(layers'[which][i])
  BY <1>5, <1>8, <1>9, <1>11
<1>13. \A other \in {"decl", "def"} :
         /\ NoTwins(layers'[other])
         /\ \A i \in 1..Len(layers'[other]) : HasLists(layers'[other][i])
  <2> TAKE other \in {"decl", "def"}
  <2>1. CASE other = which
    BY <1>5, <1>10, <1>12, <2>1
  <2>2. CASE other # which
    <3>1. layers'[other] = layers[other]
      BY <1>5, <2>2 DEF Others
    <3> QED
      BY <1>6, <3>1
  <2> QED
    BY <2>1, <2>2
<1>14. layers'["decl"] = layers'.decl /\ layers'["def"] = layers'.def
  OBVIOUS
<1>15. TablesInv'
  BY <1>5, <1>13, <1>14 DEF TablesInv, IsTables
<1> QED
  BY <1>4, <1>15 DEF c

LEMMA CursorGoesOn ==
  ASSUME PhaseInv, phase' = phase, cursor' = cursor + 1,
         NEW n \in Nat, cursor <= n, Len(ListOf(phase))' = n
  PROVE  CursorInv'
<1>1. cursor' <= n + 1
  BY DEF PhaseInv
<1> QED
  BY <1>1 DEF CursorInv

LEMMA AddsDecl ==
  ASSUME ClassInv, PhaseInv', AddDecl, phase = "decls"
  PROVE  ClassInv'
<1> DEFINE c == NewClass(Item, Item.species)
           n == Len(Decls)
<1>1. /\ phase' = "decls" /\ cursor' = cursor + 1 /\ source' = source
      /\ currSpecies' = currSpecies /\ defSpecies' = defSpecies /\ resolving' = resolving
      /\ layers' = [layers EXCEPT !["decl"] = Append(@, c)]
      /\ CanAdd(layers["decl"], Item, Item.species)
  BY DEF AddDecl, Advance, WriteDecl
<1>2. Item = Decls[cursor] /\ cursor <= n
  BY ListsOfPhases DEF AddDecl, At, Item
<1>3. Alive /\ PhaseInv /\ TablesInv /\ CursorInv /\ DeclInv /\ DefInv /\ ResolvingInv /\ ListsInv
  BY DEF ClassInv, Alive
<1>4. n \in Nat /\ cursor \in 1..n /\ Item.species \in Nat /\ IsPropList(Item.props)
  <2>1. cursor \in Nat \ {0} /\ n \in Nat
    BY <1>3, LengthsAre DEF PhaseInv
  <2>2. cursor \in 1..n
    BY <1>2, <2>1
  <2> QED
    BY <1>2, <1>3, <2>1, <2>2, LengthsAre
<1>5. /\ DeclsDone = cursor - 1 /\ DeclSupersDone = 0 /\ DefsDone = 0 /\ CopiesDone = 0
      /\ DefSupersDone = 0 /\ CopySupersDone = 0 /\ PropsDone = 0
  BY ReachedIs DEF DeclsDone, DeclSupersDone, DefsDone, CopiesDone, DefSupersDone,
     CopySupersDone, PropsDone, Progress
<1>6. /\ DeclsDone' = cursor /\ DeclSupersDone' = 0 /\ DefsDone' = 0 /\ CopiesDone' = 0
      /\ DefSupersDone' = 0 /\ CopySupersDone' = 0 /\ PropsDone' = 0
  BY <1>1, <1>4, ReachedIs DEF DeclsDone, DeclSupersDone, DefsDone, CopiesDone, DefSupersDone,
     CopySupersDone, PropsDone, Progress
<1>7. TablesInv' /\ Adds(layers, layers', "decl", c)
  <2>1. currSpecies' \in Nat
    BY <1>1, <1>3 DEF TablesInv
  <2> QED
    BY <1>1, <1>3, <1>4, <2>1, AddedTables
<1>8. /\ layers'.def = layers.def /\ Len(layers.decl) = cursor - 1
      /\ Len(layers'.decl) = cursor /\ layers'.decl[cursor] = c
      /\ \A i \in 1..(cursor - 1) : layers'.decl[i] = layers.decl[i]
  <2>1. Len(layers.decl) = cursor - 1
    BY <1>3, <1>5 DEF DeclInv
  <2> HIDE DEF c
  <2> QED
    BY <1>4, <1>7, <2>1 DEF Adds, Others
<1>9. c.name = Item.name /\ c.own = Item.props /\ c.species = Item.species
  BY DEF NewClass
<1> HIDE DEF c
<1>10. DeclInv'
  <2>1. Decls' = Decls
    BY <1>1 DEF Decls
  <2>2. \A i \in 1..cursor : i \in 1..(cursor - 1) \/ i = cursor
    BY <1>4
  <2>3. ASSUME NEW i \in 1..cursor
        PROVE  /\ IsMadeFrom(layers'.decl[i], Decls[i])
               /\ layers'.decl[i].species = Decls[i].species
    <3>1. CASE i \in 1..(cursor - 1)
      BY <1>3, <1>5, <1>8, <3>1 DEF DeclInv
    <3>2. CASE i = cursor
      BY <1>2, <1>8, <1>9, <3>2 DEF IsMadeFrom
    <3> QED
      BY <2>2, <3>1, <3>2
  <2> QED
    BY <1>6, <1>8, <2>1, <2>3 DEF DeclInv, IsMadeFrom
<1>11. DefInv'
  BY <1>1, <1>3, <1>5, <1>6, <1>8, DefsKept DEF SameDefProgress
<1>12. ListsInv'
  BY <1>1, <1>3, <1>5, <1>6, <1>8, ListsKept
<1>13. ResolvingInv'
  BY <1>1, <1>3 DEF ResolvingInv
<1>14. CursorInv'
  <2>1. Len(ListOf(phase)) = n /\ Len(ListOf(phase))' = n
    BY <1>1 DEF ListOf, Decls
  <2> QED
    BY <1>1, <1>2, <1>3, <1>4, <2>1, CursorGoesOn
<1> QED
  BY <1>7, <1>10, <1>11, <1>12, <1>13, <1>14 DEF ClassInv

LEMMA ListsAdded ==
  ASSUME TablesInv, ListsInv, NEW c, c.props = <<>>, Adds(layers, layers', "def", c),
         PropsDone' = 0, PhaseRank(phase) < 11
  PROVE  ListsInv'
<1>1. /\ Len(layers.def) \in Nat /\ Len(layers'.def) = Len(layers.def) + 1
      /\ layers'.def[Len(layers.def) + 1] = c
      /\ \A i \in 1..Len(layers.def) : layers'.def[i] = layers.def[i]
  BY DEF Adds
<1>2. \A i \in 1..Len(layers'.def) : i \in 1..Len(layers.def) \/ i = Len(layers.def) + 1
  BY <1>1
<1>3. \A i \in 1..Len(layers.def) : layers.def[i].props = <<>>
  BY DEF ListsInv, IsResolved
<1>4. \A i \in 1..Len(layers'.def) : layers'.def[i].props = <<>>
  BY <1>1, <1>2, <1>3
<1> QED
  BY <1>4 DEF ListsInv, IsResolved

LEMMA AddsCopy ==
  ASSUME ClassInv, PhaseInv', AddDecl, phase = "copies"
  PROVE  ClassInv'
<1> DEFINE c == NewClass(Item, Item.species)
           n == Len(Copies)
           d == Len(Defs)
<1>1. /\ phase' = "copies" /\ cursor' = cursor + 1 /\ source' = source
      /\ currSpecies' = currSpecies /\ defSpecies' = defSpecies /\ resolving' = resolving
      /\ layers' = [layers EXCEPT !["def"] = Append(@, c)]
      /\ CanAdd(layers["def"], Item, Item.species)
  BY DEF AddDecl, Advance, WriteDecl
<1>2. Item = Copies[cursor] /\ cursor <= n
  BY ListsOfPhases DEF AddDecl, At, Item
<1>3. Alive /\ PhaseInv /\ TablesInv /\ CursorInv /\ DeclInv /\ DefInv /\ ResolvingInv /\ ListsInv
  BY DEF ClassInv, Alive
<1>4. n \in Nat /\ d \in Nat /\ cursor \in 1..n /\ Item.species \in Nat /\ IsPropList(Item.props)
  <2>1. cursor \in Nat \ {0} /\ n \in Nat /\ d \in Nat
    BY <1>3, LengthsAre DEF PhaseInv
  <2>2. cursor \in 1..n
    BY <1>2, <2>1
  <2>3. PICK k \in 1..Len(Decls) : Copies[cursor] = Decls[k]
    BY <1>3, <2>2, CopiesAre DEF PhaseInv
  <2> QED
    BY <1>2, <1>3, <2>1, <2>2, <2>3, LengthsAre
<1>5. /\ DeclsDone = Len(Decls) /\ DeclSupersDone = Len(Decls) /\ DefsDone = d
      /\ CopiesDone = cursor - 1 /\ DefSupersDone = 0 /\ CopySupersDone = 0 /\ PropsDone = 0
  BY ReachedIs DEF DeclsDone, DeclSupersDone, DefsDone, CopiesDone, DefSupersDone,
     CopySupersDone, PropsDone, Progress
<1>6. Copies' = Copies /\ Defs' = Defs /\ Decls' = Decls
  BY <1>1 DEF Copies, Defs, Decls
<1>7. /\ DeclsDone' = Len(Decls) /\ DeclSupersDone' = Len(Decls) /\ DefsDone' = d
      /\ CopiesDone' = cursor /\ DefSupersDone' = 0 /\ CopySupersDone' = 0 /\ PropsDone' = 0
  BY <1>1, <1>4, <1>6, ReachedIs DEF DeclsDone, DeclSupersDone, DefsDone, CopiesDone, DefSupersDone,
     CopySupersDone, PropsDone, Progress
<1>8. TablesInv' /\ Adds(layers, layers', "def", c)
  <2>1. currSpecies' \in Nat
    BY <1>1, <1>3 DEF TablesInv
  <2> QED
    BY <1>1, <1>3, <1>4, <2>1, AddedTables
<1>9. c.name = Item.name /\ c.own = Item.props /\ c.species = Item.species /\ c.props = <<>>
  BY DEF NewClass
<1> HIDE DEF c
<1>10. /\ layers'.decl = layers.decl /\ Len(layers.def) = d + cursor - 1
       /\ Len(layers'.def) = d + cursor /\ layers'.def[d + cursor] = c
       /\ \A i \in 1..(d + cursor - 1) : layers'.def[i] = layers.def[i]
  <2>1. Len(layers.def) = d + (cursor - 1)
    BY <1>3, <1>5 DEF DefInv
  <2>2. d + (cursor - 1) = d + cursor - 1 /\ (d + cursor - 1) + 1 = d + cursor
    BY <1>4
  <2> QED
    BY <1>4, <1>8, <2>1, <2>2 DEF Adds, Others
<1>11. DeclInv'
  BY <1>1, <1>3, <1>5, <1>7, <1>10, DeclsKept
<1>12. ListsInv'
  <2>1. PhaseRank(phase) < 11
    <3>1. PhaseRank(phase) = 8
      BY RankOf
    <3> QED
      BY <3>1
  <2> QED
    BY <1>3, <1>7, <1>8, <1>9, <2>1, ListsAdded
<1>13. DefInv'
  <2>1. \A i \in 1..d : i \in 1..(d + cursor - 1)
    BY <1>4
  <2>2. \A i \in 1..d : layers'.def[i] = layers.def[i]
    BY <1>10, <2>1
  <2>3. \A i \in 1..d : IsDefined(i)'
    <3>1. \A i \in 1..d : IsDefined(i)
      BY <1>3, <1>5 DEF DefInv
    <3> QED
      BY <1>6, <2>2, <3>1 DEF IsDefined, IsMadeFrom
  <2>4. ASSUME NEW j \in 1..cursor PROVE IsCopied(j)'
    <3>1. CASE j \in 1..(cursor - 1)
      <4>1. IsCopied(j)
        BY <1>3, <1>5, <3>1 DEF DefInv
      <4>2. d + j \in 1..(d + cursor - 1)
        BY <1>4, <3>1
      <4> QED
        BY <1>6, <1>10, <4>1, <4>2 DEF IsCopied, IsMadeFrom
    <3>2. CASE j = cursor
      BY <1>2, <1>6, <1>9, <1>10, <3>2 DEF IsCopied, IsMadeFrom
    <3> QED
      BY <1>4, <3>1, <3>2
  <2>5. defSpecies' = {layers'.def[i].species : i \in 1..d}
    <3>1. defSpecies = {layers.def[i].species : i \in 1..d}
      BY <1>3, <1>5 DEF DefInv
    <3> QED
      BY <1>1, <2>2, <3>1
  <2> QED
    BY <1>7, <1>10, <2>3, <2>4, <2>5 DEF DefInv
<1>14. ResolvingInv'
  BY <1>1, <1>3 DEF ResolvingInv
<1>15. CursorInv'
  <2>1. Len(ListOf(phase)) = n /\ Len(ListOf(phase))' = n
    BY <1>1, <1>6 DEF ListOf
  <2> QED
    BY <1>1, <1>2, <1>3, <1>4, <2>1, CursorGoesOn
<1> QED
  BY <1>8, <1>11, <1>12, <1>13, <1>14, <1>15 DEF ClassInv

LEMMA AddsDef ==
  ASSUME ClassInv, PhaseInv', AddDef
  PROVE  ClassInv'
<1> DEFINE species == SpeciesFor(Item)
           c == NewClass(Item, species)
           n == Len(Defs)
<1>1. /\ phase = "defs" /\ phase' = "defs" /\ cursor' = cursor + 1 /\ source' = source
      /\ defSpecies' = defSpecies \cup {species} /\ resolving' = resolving
      /\ layers' = [layers EXCEPT !["def"] = Append(@, c)]
      /\ CanAdd(layers["def"], Item, species)
      /\ currSpecies' = IF PrevDecl(Item.name) # 0 THEN currSpecies ELSE NextSpecies + 1
  BY DEF AddDef, At, Advance, WriteDef
<1>2. Item = Defs[cursor] /\ cursor <= n
  BY ListsOfPhases DEF AddDef, At, Item
<1>3. Alive /\ PhaseInv /\ TablesInv /\ CursorInv /\ DeclInv /\ DefInv /\ ResolvingInv /\ ListsInv
  BY <1>1 DEF ClassInv, Alive
<1>4. n \in Nat /\ Len(Decls) \in Nat /\ cursor \in 1..n /\ IsPropList(Item.props)
  <2>1. cursor \in Nat \ {0} /\ n \in Nat /\ Len(Decls) \in Nat
    BY <1>3, LengthsAre DEF PhaseInv
  <2>2. cursor \in 1..n
    BY <1>2, <2>1
  <2> QED
    BY <1>2, <1>3, <2>1, <2>2, LengthsAre
<1>5. /\ DeclsDone = Len(Decls) /\ DeclSupersDone = Len(Decls) /\ DefsDone = cursor - 1
      /\ CopiesDone = 0 /\ DefSupersDone = 0 /\ CopySupersDone = 0 /\ PropsDone = 0
  BY <1>1, ReachedIs DEF DeclsDone, DeclSupersDone, DefsDone, CopiesDone, DefSupersDone,
     CopySupersDone, PropsDone, Progress
<1>6. Defs' = Defs /\ Decls' = Decls
  BY <1>1 DEF Defs, Decls
<1>7. /\ DeclsDone' = Len(Decls) /\ DeclSupersDone' = Len(Decls) /\ DefsDone' = cursor
      /\ CopiesDone' = 0 /\ DefSupersDone' = 0 /\ CopySupersDone' = 0 /\ PropsDone' = 0
  BY <1>1, <1>4, <1>6, ReachedIs DEF DeclsDone, DeclSupersDone, DefsDone, CopiesDone, DefSupersDone,
     CopySupersDone, PropsDone, Progress
<1>8. NextSpecies \in Nat /\ currSpecies \in Nat
  BY <1>3, NextSpeciesIs DEF TablesInv
<1>9. /\ Len(layers.decl) = Len(Decls)
      /\ \A k \in 1..Len(Decls) : /\ layers.decl[k].name = Decls[k].name
                                  /\ layers.decl[k].species = Decls[k].species
      /\ \A k \in 1..Len(Decls) : Decls[k].species \in Nat
  BY <1>3, <1>5, LengthsAre DEF DeclInv, IsMadeFrom
<1>10. species \in Nat
  <2>1. CASE PrevDecl(Item.name) # 0
    <3>1. PrevDecl(Item.name) \in 1..Len(layers.decl)
      BY <2>1, LookupName DEF PrevDecl
    <3> QED
      BY <1>9, <2>1, <3>1 DEF SpeciesFor
  <2>2. CASE PrevDecl(Item.name) = 0
    BY <1>8, <2>2 DEF SpeciesFor
  <2> QED
    BY <2>1, <2>2
<1>11. ASSUME NEW k \in 1..Len(Decls), Decls[k].name = Item.name
       PROVE  species = Decls[k].species
  <2> DEFINE p == PrevDecl(Item.name)
  <2>1. p # 0 /\ p \in 1..Len(layers.decl) /\ layers.decl[p].name = Item.name
    BY <1>9, <1>11, LookupName DEF PrevDecl
  <2>2. p = k
    BY <1>3, <1>9, <1>11, <2>1 DEF TablesInv, NoTwins
  <2> QED
    BY <1>9, <2>1, <2>2 DEF SpeciesFor
<1> HIDE DEF species
<1>12. TablesInv' /\ Adds(layers, layers', "def", c)
  <2>1. currSpecies' \in Nat
    BY <1>1, <1>8
  <2> QED
    BY <1>1, <1>3, <1>4, <1>10, <2>1, AddedTables
<1>13. c.name = Item.name /\ c.own = Item.props /\ c.species = species /\ c.props = <<>>
  BY DEF NewClass
<1> HIDE DEF c
<1>14. /\ layers'.decl = layers.decl /\ Len(layers.def) = cursor - 1
       /\ Len(layers'.def) = cursor /\ layers'.def[cursor] = c
       /\ \A i \in 1..(cursor - 1) : layers'.def[i] = layers.def[i]
  <2>1. Len(layers.def) = cursor - 1
    BY <1>3, <1>4, <1>5 DEF DefInv
  <2> QED
    BY <1>4, <1>12, <2>1, SMTT(30) DEF Adds, Others
<1>15. DeclInv'
  BY <1>1, <1>3, <1>5, <1>7, <1>14, DeclsKept
<1>16. ListsInv'
  <2>1. PhaseRank(phase) < 11
    BY <1>1, RankOf
  <2> QED
    BY <1>3, <1>7, <1>12, <1>13, <2>1, ListsAdded
<1>17. \A i \in 1..cursor : i \in 1..(cursor - 1) \/ i = cursor
  BY <1>4
<1>18. DefInv'
  <2>1. ASSUME NEW i \in 1..cursor PROVE IsDefined(i)'
    <3>1. CASE i \in 1..(cursor - 1)
      <4>1. IsDefined(i)
        BY <1>3, <1>5, <3>1 DEF DefInv
      <4> QED
        BY <1>6, <1>14, <3>1, <4>1 DEF IsDefined, IsMadeFrom
    <3>2. CASE i = cursor
      BY <1>2, <1>6, <1>11, <1>13, <1>14, <3>2 DEF IsDefined, IsMadeFrom
    <3> QED
      BY <1>17, <3>1, <3>2
  <2>2. defSpecies' = {layers'.def[i].species : i \in 1..cursor}
    <3>1. defSpecies = {layers.def[i].species : i \in 1..(cursor - 1)}
      BY <1>3, <1>5 DEF DefInv
    <3>2. cursor \in 1..cursor /\ \A i \in 1..(cursor - 1) : i \in 1..cursor
      BY <1>4
    <3> QED
      BY <1>1, <1>13, <1>14, <1>17, <3>1, <3>2
  <2>3. Len(layers'.def) = cursor + 0
    BY <1>4, <1>14
  <2> QED
    BY <1>7, <2>1, <2>2, <2>3 DEF DefInv
<1>19. ResolvingInv'
  BY <1>1, <1>3 DEF ResolvingInv
<1>20. CursorInv'
  <2>1. Len(ListOf(phase))' = n
    BY <1>1, <1>6 DEF ListOf
  <2> QED
    BY <1>1, <1>2, <1>3, <1>4, <2>1, CursorGoesOn
<1> QED
  BY <1>12, <1>15, <1>16, <1>18, <1>19, <1>20 DEF ClassInv

-----------------------------------------------------------------------------
(* A super that is set.                                                    *)

LEMMA SuperTables ==
  ASSUME TablesInv, NEW which \in {"decl", "def"}, NEW i \in 1..Len(layers[which]), NEW super,
         layers' = [layers EXCEPT ![which][i].super = super], currSpecies' = currSpecies
  PROVE  /\ TablesInv' /\ SetsSuper(layers, layers', which, i, super)
         /\ \A k \in 1..Len(layers[which]) :
              /\ layers'[which][k].name = layers[which][k].name
              /\ layers'[which][k].species = layers[which][k].species
              /\ layers'[which][k].own = layers[which][k].own
              /\ layers'[which][k].props = layers[which][k].props
<1> DEFINE t == layers[which]
           u == layers'[which]
<1>1. IsTables(layers)
  BY TablesAre
<1>2. SetsSuper(layers, [layers EXCEPT ![which][i].super = super], which, i, super)
  BY <1>1, SetsClass
<1>3. SetsSuper(layers, layers', which, i, super)
  BY <1>2
<1>4. /\ IsTables(layers') /\ Others(layers, layers', which) /\ Len(u) = Len(t)
      /\ \A k \in 1..Len(t) : k # i => u[k] = t[k]
      /\ u[i].name = t[i].name /\ u[i].species = t[i].species
      /\ u[i].own = t[i].own /\ u[i].props = t[i].props
  BY <1>3 DEF SetsSuper
<1>5. \A k \in 1..Len(t) : /\ u[k].name = t[k].name /\ u[k].species = t[k].species
                           /\ u[k].own = t[k].own /\ u[k].props = t[k].props
  BY <1>4
<1>6. /\ NoTwins(layers["decl"]) /\ NoTwins(layers["def"])
      /\ \A k \in 1..Len(layers["decl"]) : HasLists(layers["decl"][k])
      /\ \A k \in 1..Len(layers["def"]) : HasLists(layers["def"][k])
  BY TablesAre DEF TablesInv
<1>7. NoTwins(t) /\ \A k \in 1..Len(t) : HasLists(t[k])
  BY <1>6
<1> HIDE DEF t, u
<1>8. NoTwins(u) /\ \A k \in 1..Len(u) : HasLists(u[k])
  BY <1>4, <1>5, <1>7 DEF NoTwins, HasLists
<1>9. \A other \in {"decl", "def"} :
        /\ NoTwins(layers'[other])
        /\ \A k \in 1..Len(layers'[other]) : HasLists(layers'[other][k])
  <2> TAKE other \in {"decl", "def"}
  <2>1. CASE other = which
    BY <1>8, <2>1 DEF u
  <2>2. CASE other # which
    <3>1. layers'[other] = layers[other]
      BY <1>4, <2>2 DEF Others
    <3> QED
      BY <1>6, <3>1
  <2> QED
    BY <2>1, <2>2
<1>10. layers'["decl"] = layers'.decl /\ layers'["def"] = layers'.def
  OBVIOUS
<1>11. TablesInv'
  BY <1>4, <1>9, <1>10 DEF TablesInv, IsTables
<1> QED
  BY <1>3, <1>5, <1>11 DEF t, u

(* The supers of the other classes are what they were.                     *)
LEMMA SupersKept ==
  ASSUME NEW t, NEW u, Len(u) = Len(t),
         \A k \in 1..Len(t) : u[k].name = t[k].name /\ u[k].species = t[k].species,
         NEW i \in 1..Len(t), u[i].super = t[i].super, NEW super
  PROVE  /\ SuperHasNumber(t, i, super) => SuperHasNumber(u, i, super)
         /\ SuperHasName(t, i, super) => SuperHasName(u, i, super)
BY DEF SuperHasNumber, SuperHasName

LEMMA ListsEmpty ==
  ASSUME ListsInv, PhaseRank(phase) < 11, PropsDone' = 0, Len(layers'.def) = Len(layers.def),
         \A k \in 1..Len(layers.def) : layers'.def[k].props = layers.def[k].props
  PROVE  ListsInv'
<1>1. \A i \in 1..Len(layers.def) : layers.def[i].props = <<>>
  BY DEF ListsInv, IsResolved
<1>2. \A i \in 1..Len(layers'.def) : layers'.def[i].props = <<>>
  BY <1>1
<1> QED
  BY <1>2 DEF ListsInv, IsResolved

LEMMA SetsDeclSuper ==
  ASSUME ClassInv, PhaseInv', SetClassSuper, phase = "declSupers"
  PROVE  ClassInv'
<1> DEFINE n == Len(Decls)
           i == LookupBySpecies(layers["decl"], Item.species)
           super == IF Item.super = NoSuper THEN NoSuper
                    ELSE LookupBySpecies(layers["decl"], Item.super)
<1>1. /\ phase' = "declSupers" /\ cursor' = cursor + 1 /\ source' = source
      /\ defSpecies' = defSpecies /\ resolving' = resolving /\ currSpecies' = currSpecies
      /\ layers' = [layers EXCEPT !["decl"][i].super = super] /\ super # 0
  BY DEF SetClassSuper, At, Advance, SetSuper
<1>2. Item = Decls[cursor] /\ cursor <= n
  BY ListsOfPhases DEF SetClassSuper, At, Item
<1>3. Alive /\ PhaseInv /\ TablesInv /\ CursorInv /\ DeclInv /\ DefInv /\ ResolvingInv /\ ListsInv
  BY DEF ClassInv, Alive
<1>4. n \in Nat /\ cursor \in 1..n
  <2>1. cursor \in Nat \ {0} /\ n \in Nat
    BY <1>3, LengthsAre DEF PhaseInv
  <2> QED
    BY <1>2, <2>1
<1>5. /\ DeclsDone = n /\ DeclSupersDone = cursor - 1 /\ DefsDone = 0
      /\ CopiesDone = 0 /\ DefSupersDone = 0 /\ CopySupersDone = 0 /\ PropsDone = 0
  BY ReachedIs DEF DeclsDone, DeclSupersDone, DefsDone, CopiesDone, DefSupersDone,
     CopySupersDone, PropsDone, Progress
<1>6. Decls' = Decls
  BY <1>1 DEF Decls
<1>7. /\ DeclsDone' = n /\ DeclSupersDone' = cursor /\ DefsDone' = 0
      /\ CopiesDone' = 0 /\ DefSupersDone' = 0 /\ CopySupersDone' = 0 /\ PropsDone' = 0
  BY <1>1, <1>4, <1>6, ReachedIs DEF DeclsDone, DeclSupersDone, DefsDone, CopiesDone, DefSupersDone,
     CopySupersDone, PropsDone, Progress
<1>8. /\ Len(layers["decl"]) = n /\ NoTwins(layers["decl"])
      /\ \A k \in 1..n : /\ IsMadeFrom(layers["decl"][k], Decls[k])
                         /\ layers["decl"][k].species = Decls[k].species
  <2>1. layers["decl"] = layers.decl
    OBVIOUS
  <2> QED
    BY <1>3, <1>5, <2>1 DEF DeclInv, TablesInv
<1>9. i = cursor
  <2>1. i # 0 /\ i \in 1..n /\ layers["decl"][i].species = Item.species
    BY <1>2, <1>4, <1>8, LookupNumber
  <2> QED
    BY <1>2, <1>4, <1>8, <2>1 DEF NoTwins
<1>10. \/ Item.super = NoSuper /\ super = NoSuper
       \/ /\ Item.super # NoSuper /\ super \in 1..n
          /\ layers["decl"][super].species = Item.super
  BY <1>1, <1>8, LookupNumber
<1> HIDE DEF i, super
<1>11. TablesInv' /\ SetsSuper(layers, layers', "decl", i, super)
       /\ \A k \in 1..n :
            /\ layers'["decl"][k].name = layers["decl"][k].name
            /\ layers'["decl"][k].species = layers["decl"][k].species
            /\ layers'["decl"][k].own = layers["decl"][k].own
  BY <1>1, <1>3, <1>4, <1>8, <1>9, SuperTables
<1>12. /\ layers'.def = layers.def /\ Len(layers'["decl"]) = n
       /\ layers'["decl"][cursor].super = super
       /\ \A k \in 1..n : k # cursor => layers'["decl"][k] = layers["decl"][k]
  BY <1>8, <1>9, <1>11 DEF SetsSuper, Others
<1>13. \A k \in 1..cursor : SuperHasNumber(layers'["decl"], k, Decls[k].super)
  <2> TAKE k \in 1..cursor
  <2>1. k \in 1..n /\ (k \in 1..(cursor - 1) \/ k = cursor)
    BY <1>4
  <2>2. CASE k \in 1..(cursor - 1)
    <3>1. k # cursor /\ SuperHasNumber(layers.decl, k, Decls[k].super)
      BY <1>3, <1>4, <1>5, <2>2 DEF DeclInv
    <3>2. SuperHasNumber(layers["decl"], k, Decls[k].super)
      BY <3>1
    <3> QED
      BY <1>8, <1>11, <1>12, <2>1, <3>1, <3>2, SupersKept, ZenonT(30)
  <2>3. CASE k = cursor
    <3>1. CASE Item.super = NoSuper
      BY <1>2, <1>10, <1>12, <2>3, <3>1 DEF SuperHasNumber
    <3>2. CASE Item.super # NoSuper
      <4>1. super \in 1..n /\ layers'["decl"][super].species = Item.super
        BY <1>10, <1>11, <3>2
      <4> QED
        BY <1>2, <1>12, <2>3, <3>2, <4>1 DEF SuperHasNumber
    <3> QED
      BY <3>1, <3>2
  <2> QED
    BY <2>1, <2>2, <2>3
<1>14. DeclInv'
  <2>1. layers'["decl"] = layers'.decl
    OBVIOUS
  <2> QED
    BY <1>6, <1>7, <1>8, <1>11, <1>12, <1>13, <2>1 DEF DeclInv, IsMadeFrom
<1>15. DefInv'
  BY <1>1, <1>3, <1>5, <1>7, <1>12, DefsKept DEF SameDefProgress
<1>16. ListsInv'
  BY <1>1, <1>3, <1>5, <1>7, <1>12, ListsKept
<1>17. ResolvingInv'
  BY <1>1, <1>3 DEF ResolvingInv
<1>18. CursorInv'
  <2>1. Len(ListOf(phase))' = n
    BY <1>1, <1>6 DEF ListOf
  <2> QED
    BY <1>1, <1>2, <1>3, <1>4, <2>1, CursorGoesOn
<1> QED
  BY <1>11, <1>14, <1>15, <1>16, <1>17, <1>18 DEF ClassInv

(* What stays of the defined classes when a super is set.                  *)
LEMMA SuperOfDef ==
  ASSUME ClassInv, PhaseInv', NEW n \in Nat, cursor <= n, Len(ListOf(phase))' = n,
         phase \in {"defSupers", "copySupers"}, phase' = phase, cursor' = cursor + 1,
         source' = source, defSpecies' = defSpecies, resolving' = resolving,
         currSpecies' = currSpecies,
         NEW i \in 1..Len(layers["def"]), NEW super,
         layers' = [layers EXCEPT !["def"][i].super = super],
         /\ \A k \in 1..DefSupersDone' : SuperHasName(layers'["def"], k, Defs[k].super)
         /\ \A j \in 1..CopySupersDone' :
              SuperHasNumber(layers'["def"], Len(Defs) + j, Copies[j].super)
  PROVE  ClassInv'
<1>1. Alive /\ PhaseInv /\ TablesInv /\ CursorInv /\ DeclInv /\ DefInv /\ ResolvingInv /\ ListsInv
  BY DEF ClassInv, Alive
<1>2. Decls' = Decls /\ Defs' = Defs /\ Copies' = Copies
  BY DEF Decls, Defs, Copies
<1>3. /\ DeclsDone' = DeclsDone /\ DeclSupersDone' = DeclSupersDone
      /\ DefsDone' = Len(Defs) /\ DefsDone = Len(Defs)
      /\ CopiesDone' = Len(Copies) /\ CopiesDone = Len(Copies) /\ PropsDone' = 0
  <2>1. phase = "defSupers" \/ phase = "copySupers"
    OBVIOUS
  <2> QED
    BY <1>2, <2>1, ReachedIs DEF DeclsDone, DeclSupersDone, DefsDone, CopiesDone, PropsDone, Progress
<1>4. /\ TablesInv' /\ SetsSuper(layers, layers', "def", i, super)
      /\ \A k \in 1..Len(layers["def"]) :
           /\ layers'["def"][k].name = layers["def"][k].name
           /\ layers'["def"][k].species = layers["def"][k].species
           /\ layers'["def"][k].own = layers["def"][k].own
           /\ layers'["def"][k].props = layers["def"][k].props
  BY <1>1, SuperTables
<1>5. layers'.decl = layers.decl /\ Len(layers'["def"]) = Len(layers["def"])
  BY <1>4 DEF SetsSuper, Others
<1>6. layers'["def"] = layers'.def /\ layers["def"] = layers.def
  OBVIOUS
<1>7. DeclInv'
  BY <1>1, <1>3, <1>5, DeclsKept
<1>8. ListsInv'
  <2>1. PhaseRank(phase) < 11
    BY RankOf
  <2> QED
    BY <1>1, <1>3, <1>4, <1>5, <1>6, <2>1, ListsEmpty
<1>9. DefInv'
  <2>1. /\ Len(layers.def) = Len(Defs) + Len(Copies)
        /\ \A k \in 1..Len(Defs) : IsDefined(k)
        /\ \A j \in 1..Len(Copies) : IsCopied(j)
        /\ defSpecies = {layers.def[k].species : k \in 1..Len(Defs)}
    BY <1>1, <1>3 DEF DefInv
  <2>2. /\ Len(Defs) \in Nat /\ Len(Copies) \in Nat
    BY <1>1, LengthsAre
  <2>3. /\ \A k \in 1..Len(Defs) : k \in 1..Len(layers.def)
        /\ \A j \in 1..Len(Copies) : Len(Defs) + j \in 1..Len(layers.def)
    BY <2>1, <2>2
  <2>4. \A k \in 1..Len(Defs) : IsDefined(k)'
    BY <1>2, <1>4, <1>6, <2>1, <2>3 DEF IsDefined, IsMadeFrom
  <2>5. \A j \in 1..Len(Copies) : IsCopied(j)'
    BY <1>2, <1>4, <1>6, <2>1, <2>3 DEF IsCopied, IsMadeFrom
  <2>6. defSpecies' = {layers'.def[k].species : k \in 1..Len(Defs)}
    BY <1>4, <1>6, <2>1, <2>3
  <2> QED
    BY <1>2, <1>3, <1>5, <1>6, <2>1, <2>4, <2>5, <2>6 DEF DefInv
<1>10. ResolvingInv'
  <2>1. resolving' = <<>> /\ phase' \notin {"declProps", "defProps"}
    BY <1>1 DEF ResolvingInv
  <2> QED
    BY <2>1 DEF ResolvingInv
<1>11. CursorInv'
  BY <1>1, CursorGoesOn
<1> QED
  BY <1>4, <1>7, <1>8, <1>9, <1>10, <1>11 DEF ClassInv

LEMMA SetsDefSuper ==
  ASSUME ClassInv, PhaseInv', SetClassSuper, phase = "defSupers"
  PROVE  ClassInv'
<1> DEFINE n == Len(Defs)
           layer == layers["def"]
           own == LookupByName(layer, Item.name)
           i == LookupBySpecies(layer, layer[own].species)
           ss == SuperSpecies(Item)
           super == IF ss = NoSuper THEN NoSuper ELSE LookupBySpecies(layer, ss)
<1>1. /\ phase' = phase /\ cursor' = cursor + 1 /\ source' = source
      /\ defSpecies' = defSpecies /\ resolving' = resolving /\ currSpecies' = currSpecies
      /\ layers' = [layers EXCEPT !["def"][i].super = super] /\ super # 0 /\ ss # Unset
  BY DEF SetClassSuper, At, Advance, SetSuper
<1>2. Item = Defs[cursor] /\ cursor <= n
  BY ListsOfPhases DEF SetClassSuper, At, Item
<1>3. Alive /\ PhaseInv /\ TablesInv /\ DefInv
  BY DEF ClassInv, Alive
<1>4. n \in Nat /\ Len(Copies) \in Nat /\ cursor \in 1..n
  <2>1. cursor \in Nat \ {0} /\ n \in Nat /\ Len(Copies) \in Nat
    BY <1>3, LengthsAre DEF PhaseInv
  <2> QED
    BY <1>2, <2>1
<1>5. DefsDone = n /\ CopiesDone = Len(Copies) /\ DefSupersDone = cursor - 1
  BY ReachedIs DEF DefsDone, CopiesDone, DefSupersDone, Progress
<1>6. Defs' = Defs /\ Copies' = Copies
  BY <1>1 DEF Defs, Decls, Copies
<1>7. DefSupersDone' = cursor /\ CopySupersDone' = 0
  BY <1>1, <1>4, <1>6, ReachedIs DEF DefSupersDone, CopySupersDone, Progress
<1>8. layer = layers.def /\ layers'["def"] = layers'.def
  OBVIOUS
<1> HIDE DEF layer
<1>9. /\ Len(layer) = n + Len(Copies) /\ NoTwins(layer)
      /\ \A k \in 1..n : IsMadeFrom(layer[k], Defs[k])
      /\ \A k \in 1..Len(layer) : layer[k].species \in Nat
  BY <1>3, <1>5, <1>8 DEF DefInv, IsDefined, TablesInv, IsLayer, IsClassRecord
<1>10. \A k \in 1..n : k \in 1..Len(layer)
  BY <1>4, <1>9
<1>11. own = cursor
  <2>1. cursor \in 1..Len(layer) /\ layer[cursor].name = Item.name
    BY <1>2, <1>4, <1>9, <1>10 DEF IsMadeFrom
  <2>2. own # 0 /\ own \in 1..Len(layer) /\ layer[own].name = Item.name
    BY <2>1, LookupName
  <2> HIDE DEF own
  <2> QED
    BY <1>9, <2>1, <2>2 DEF NoTwins
<1>12. i = cursor /\ cursor \in 1..Len(layer)
  <2> DEFINE s == layer[cursor].species
  <2>1. cursor \in 1..Len(layer) /\ layer[cursor].species = s
    BY <1>4, <1>10
  <2>2. i = LookupBySpecies(layer, s)
    BY <1>11
  <2> HIDE DEF i, s
  <2>3. i # 0 /\ i \in 1..Len(layer) /\ layer[i].species = s
    BY <2>1, <2>2, LookupNumber
  <2> QED
    BY <1>9, <2>1, <2>3 DEF NoTwins
<1> HIDE DEF i, own
<1>13. \/ Item.super = NoSuper /\ super = NoSuper
       \/ /\ Item.super # NoSuper /\ super \in 1..Len(layer)
          /\ layer[super].name = Item.super
  <2>1. CASE Item.super = NoSuper
    BY <2>1 DEF SuperSpecies
  <2>2. CASE Item.super # NoSuper
    <3> DEFINE m == LookupByName(layer, Item.super)
    <3>1. m # 0 /\ ss = layer[m].species
      BY <1>1, <1>8, <2>2 DEF SuperSpecies
    <3>2. m \in 1..Len(layer) /\ layer[m].name = Item.super
      BY <3>1, LookupName
    <3> HIDE DEF m, ss
    <3>3. ss \in Nat /\ ss # NoSuper
      BY <1>9, <3>1, <3>2, ClassAssumption
    <3>4. super = LookupBySpecies(layer, ss)
      BY <3>3
    <3> HIDE DEF super
    <3>5. super # 0 /\ super \in 1..Len(layer) /\ layer[super].species = ss
      BY <3>1, <3>2, <3>4, LookupNumber
    <3>6. super = m
      BY <1>9, <3>1, <3>2, <3>5 DEF NoTwins
    <3> QED
      BY <2>2, <3>2, <3>6
  <2> QED
    BY <2>1, <2>2
<1> HIDE DEF super, ss
<1>14. /\ SetsSuper(layers, layers', "def", i, super)
       /\ \A k \in 1..Len(layer) : /\ layers'["def"][k].name = layer[k].name
                                   /\ layers'["def"][k].species = layer[k].species
  BY <1>1, <1>3, <1>12, SuperTables DEF layer
<1>15. /\ Len(layers'["def"]) = Len(layer) /\ layers'["def"][cursor].super = super
       /\ \A k \in 1..Len(layer) : k # cursor => layers'["def"][k] = layer[k]
  BY <1>12, <1>14 DEF SetsSuper, layer
<1>16. \A k \in 1..cursor : SuperHasName(layers'["def"], k, Defs[k].super)
  <2> TAKE k \in 1..cursor
  <2>1. k \in 1..Len(layer) /\ (k \in 1..(cursor - 1) \/ k = cursor)
    BY <1>4, <1>10
  <2>2. CASE k \in 1..(cursor - 1)
    <3>1. k # cursor /\ SuperHasName(layer, k, Defs[k].super)
      BY <1>3, <1>4, <1>5, <1>8, <2>2 DEF DefInv
    <3> QED
      BY <1>14, <1>15, <2>1, <3>1, SupersKept
  <2>3. CASE k = cursor
    <3>1. CASE Item.super = NoSuper
      BY <1>2, <1>13, <1>15, <2>3, <3>1 DEF SuperHasName
    <3>2. CASE Item.super # NoSuper
      BY <1>2, <1>13, <1>14, <1>15, <2>3, <3>2 DEF SuperHasName
    <3> QED
      BY <3>1, <3>2
  <2> QED
    BY <2>1, <2>2, <2>3
<1>17. \A j \in 1..0 : SuperHasNumber(layers'["def"], n + j, Copies[j].super)
  OBVIOUS
<1>18. Len(ListOf(phase))' = n
  BY <1>1, <1>6 DEF ListOf
<1>19. i \in 1..Len(layers["def"])
  BY <1>12 DEF layer
<1> QED
  BY <1>1, <1>2, <1>4, <1>7, <1>16, <1>17, <1>18, <1>19, SuperOfDef

LEMMA SetsCopySuper ==
  ASSUME ClassInv, PhaseInv', SetClassSuper, phase = "copySupers"
  PROVE  ClassInv'
<1> DEFINE n == Len(Copies)
           d == Len(Defs)
           layer == layers["def"]
           i == LookupBySpecies(layer, Item.species)
           super == IF Item.super = NoSuper THEN NoSuper ELSE LookupBySpecies(layer, Item.super)
<1>1. /\ phase' = phase /\ cursor' = cursor + 1 /\ source' = source
      /\ defSpecies' = defSpecies /\ resolving' = resolving /\ currSpecies' = currSpecies
      /\ layers' = [layers EXCEPT !["def"][i].super = super] /\ super # 0
  BY DEF SetClassSuper, At, Advance, SetSuper
<1>2. Item = Copies[cursor] /\ cursor <= n
  BY ListsOfPhases DEF SetClassSuper, At, Item
<1>3. Alive /\ PhaseInv /\ TablesInv /\ DefInv
  BY DEF ClassInv, Alive
<1>4. n \in Nat /\ d \in Nat /\ cursor \in 1..n
  <2>1. cursor \in Nat \ {0} /\ n \in Nat /\ d \in Nat
    BY <1>3, LengthsAre DEF PhaseInv
  <2> QED
    BY <1>2, <2>1
<1>5. DefsDone = d /\ CopiesDone = n /\ DefSupersDone = d /\ CopySupersDone = cursor - 1
  BY ReachedIs DEF DefsDone, CopiesDone, DefSupersDone, CopySupersDone, Progress
<1>6. Defs' = Defs /\ Copies' = Copies
  BY <1>1 DEF Defs, Decls, Copies
<1>7. DefSupersDone' = d /\ CopySupersDone' = cursor
  BY <1>1, <1>4, <1>6, ReachedIs DEF DefSupersDone, CopySupersDone, Progress
<1>8. layer = layers.def /\ layers'["def"] = layers'.def
  OBVIOUS
<1> HIDE DEF layer
<1>9. /\ Len(layer) = d + n /\ NoTwins(layer)
      /\ \A j \in 1..n : layer[d + j].species = Copies[j].species
  BY <1>3, <1>5, <1>8 DEF DefInv, IsCopied, TablesInv
<1>10. /\ \A j \in 1..n : d + j \in 1..Len(layer)
       /\ \A k \in 1..d : k \in 1..Len(layer) /\ k # d + cursor
  BY <1>4, <1>9
<1>11. i = d + cursor /\ d + cursor \in 1..Len(layer)
  <2>1. d + cursor \in 1..Len(layer) /\ layer[d + cursor].species = Item.species
    BY <1>2, <1>4, <1>9, <1>10
  <2>2. i # 0 /\ i \in 1..Len(layer) /\ layer[i].species = Item.species
    BY <2>1, LookupNumber
  <2> HIDE DEF i
  <2> QED
    BY <1>9, <2>1, <2>2 DEF NoTwins
<1>12. \/ Item.super = NoSuper /\ super = NoSuper
       \/ /\ Item.super # NoSuper /\ super \in 1..Len(layer)
          /\ layer[super].species = Item.super
  BY <1>1, LookupNumber
<1> HIDE DEF i, super
<1>13. /\ SetsSuper(layers, layers', "def", i, super)
       /\ \A k \in 1..Len(layer) : /\ layers'["def"][k].name = layer[k].name
                                   /\ layers'["def"][k].species = layer[k].species
  BY <1>1, <1>3, <1>11, SuperTables DEF layer
<1>14. /\ Len(layers'["def"]) = Len(layer) /\ layers'["def"][d + cursor].super = super
       /\ \A k \in 1..Len(layer) : k # d + cursor => layers'["def"][k] = layer[k]
  BY <1>11, <1>13 DEF SetsSuper, layer
<1>15. \A k \in 1..d : SuperHasName(layers'["def"], k, Defs[k].super)
  <2> TAKE k \in 1..d
  <2>1. SuperHasName(layer, k, Defs[k].super)
    BY <1>3, <1>5, <1>8 DEF DefInv
  <2> QED
    BY <1>10, <1>13, <1>14, <2>1, SupersKept
<1>16. \A j \in 1..cursor : SuperHasNumber(layers'["def"], d + j, Copies[j].super)
  <2> TAKE j \in 1..cursor
  <2>1. d + j \in 1..Len(layer) /\ (j \in 1..(cursor - 1) \/ j = cursor)
    BY <1>4, <1>10
  <2>2. CASE j \in 1..(cursor - 1)
    <3>1. SuperHasNumber(layer, d + j, Copies[j].super)
      BY <1>3, <1>5, <1>8, <2>2 DEF DefInv
    <3>2. d + j # d + cursor
      BY <1>4, <2>2
    <3> QED
      BY <1>13, <1>14, <2>1, <3>1, <3>2, SupersKept
  <2>3. CASE j = cursor
    <3>1. CASE Item.super = NoSuper
      BY <1>2, <1>12, <1>14, <2>3, <3>1 DEF SuperHasNumber
    <3>2. CASE Item.super # NoSuper
      BY <1>2, <1>12, <1>13, <1>14, <2>3, <3>2 DEF SuperHasNumber
    <3> QED
      BY <3>1, <3>2
  <2> QED
    BY <2>1, <2>2, <2>3
<1>17. Len(ListOf(phase))' = n
  BY <1>1, <1>6 DEF ListOf
<1>18. i \in 1..Len(layers["def"])
  BY <1>11 DEF layer
<1> QED
  BY <1>1, <1>2, <1>4, <1>7, <1>15, <1>16, <1>17, <1>18, SuperOfDef

-----------------------------------------------------------------------------
(* The lists of the classes.                                               *)

(* Where every super is set, it is a class of the layer.                   *)
LEMMA DefSupersKnown ==
  ASSUME PhaseInv, DefInv, DefsDone = Len(Defs), CopiesDone = Len(Copies),
         DefSupersDone = Len(Defs), CopySupersDone = Len(Copies),
         NEW i \in 1..Len(layers.def)
  PROVE  layers.def[i].super = NoSuper \/ layers.def[i].super \in 1..Len(layers.def)
<1>1. /\ Len(layers.def) = Len(Defs) + Len(Copies)
      /\ \A k \in 1..Len(Defs) : SuperHasName(layers.def, k, Defs[k].super)
      /\ \A j \in 1..Len(Copies) : SuperHasNumber(layers.def, Len(Defs) + j, Copies[j].super)
  BY DEF DefInv
<1>2. Len(Defs) \in Nat /\ Len(Copies) \in Nat
  BY LengthsAre
<1>3. CASE i \in 1..Len(Defs)
  BY <1>1, <1>3 DEF SuperHasName
<1>4. CASE i \notin 1..Len(Defs)
  <2>1. i - Len(Defs) \in 1..Len(Copies) /\ Len(Defs) + (i - Len(Defs)) = i
    BY <1>1, <1>2, <1>4
  <2>2. SuperHasNumber(layers.def, i, Copies[i - Len(Defs)].super)
    BY <1>1, <2>1
  <2> QED
    BY <2>2 DEF SuperHasNumber
<1> QED
  BY <1>3, <1>4

LEMMA SupersKnown ==
  ASSUME ClassInv, phase \in {"declProps", "defProps"}
  PROVE  \A i \in 1..Len(layers[Layer(phase)]) :
           \/ layers[Layer(phase)][i].super = NoSuper
           \/ layers[Layer(phase)][i].super \in 1..Len(layers[Layer(phase)])
<1>1. Alive /\ PhaseInv /\ DeclInv /\ DefInv
  BY DEF ClassInv, Alive
<1>2. CASE phase = "declProps"
  <2>1. Layer(phase) = "decl" /\ layers["decl"] = layers.decl
    BY <1>2 DEF Layer
  <2>2. DeclsDone = Len(Decls) /\ DeclSupersDone = Len(Decls)
    BY <1>2, ReachedIs DEF DeclsDone, DeclSupersDone, Progress
  <2>3. /\ Len(layers.decl) = Len(Decls)
        /\ \A i \in 1..Len(Decls) : SuperHasNumber(layers.decl, i, Decls[i].super)
    BY <1>1, <2>2 DEF DeclInv
  <2> QED
    BY <2>1, <2>3 DEF SuperHasNumber
<1>3. CASE phase = "defProps"
  <2>1. Layer(phase) = "def" /\ layers["def"] = layers.def
    BY <1>3 DEF Layer
  <2>2. /\ DefsDone = Len(Defs) /\ CopiesDone = Len(Copies)
        /\ DefSupersDone = Len(Defs) /\ CopySupersDone = Len(Copies)
    BY <1>3, ReachedIs DEF DefsDone, CopiesDone, DefSupersDone, CopySupersDone, Progress
  <2> QED
    BY <1>1, <2>1, <2>2, DefSupersKnown
<1> QED
  BY <1>2, <1>3

LEMMA PropsTables ==
  ASSUME TablesInv, NEW which \in {"decl", "def"}, NEW i \in 1..Len(layers[which]),
         NEW props, IsWhole(props),
         layers' = [layers EXCEPT ![which][i].props = props], currSpecies' = currSpecies
  PROVE  /\ TablesInv' /\ SetsProps(layers, layers', which, i, props)
         /\ \A k \in 1..Len(layers[which]) :
              /\ layers'[which][k].name = layers[which][k].name
              /\ layers'[which][k].species = layers[which][k].species
              /\ layers'[which][k].own = layers[which][k].own
              /\ layers'[which][k].super = layers[which][k].super
<1> DEFINE t == layers[which]
           u == layers'[which]
<1>1. IsTables(layers)
  BY TablesAre
<1>2. SetsProps(layers, [layers EXCEPT ![which][i].props = props], which, i, props)
  BY <1>1, SetsClass
<1>3. SetsProps(layers, layers', which, i, props)
  BY <1>2
<1>4. /\ IsTables(layers') /\ Others(layers, layers', which) /\ Len(u) = Len(t)
      /\ \A k \in 1..Len(t) : k # i => u[k] = t[k]
      /\ u[i].name = t[i].name /\ u[i].species = t[i].species
      /\ u[i].own = t[i].own /\ u[i].super = t[i].super /\ u[i].props = props
  BY <1>3 DEF SetsProps
<1>5. \A k \in 1..Len(t) : /\ u[k].name = t[k].name /\ u[k].species = t[k].species
                           /\ u[k].own = t[k].own /\ u[k].super = t[k].super
  BY <1>4
<1>6. /\ NoTwins(layers["decl"]) /\ NoTwins(layers["def"])
      /\ \A k \in 1..Len(layers["decl"]) : HasLists(layers["decl"][k])
      /\ \A k \in 1..Len(layers["def"]) : HasLists(layers["def"][k])
  BY TablesAre DEF TablesInv
<1>7. NoTwins(t) /\ \A k \in 1..Len(t) : HasLists(t[k])
  BY <1>6
<1> HIDE DEF t, u
<1>8. NoTwins(u)
  BY <1>4, <1>5, <1>7 DEF NoTwins
<1>9. \A k \in 1..Len(u) : HasLists(u[k])
  <2> TAKE k \in 1..Len(u)
  <2>1. CASE k = i
    BY <1>4, <1>5, <1>7, <2>1 DEF HasLists
  <2>2. CASE k # i
    BY <1>4, <1>7, <2>2
  <2> QED
    BY <2>1, <2>2
<1>10. \A other \in {"decl", "def"} :
         /\ NoTwins(layers'[other])
         /\ \A k \in 1..Len(layers'[other]) : HasLists(layers'[other][k])
  <2> TAKE other \in {"decl", "def"}
  <2>1. CASE other = which
    BY <1>8, <1>9, <2>1 DEF u
  <2>2. CASE other # which
    <3>1. layers'[other] = layers[other]
      BY <1>4, <2>2 DEF Others
    <3> QED
      BY <1>6, <3>1
  <2> QED
    BY <2>1, <2>2
<1>11. layers'["decl"] = layers'.decl /\ layers'["def"] = layers'.def
  OBVIOUS
<1>12. TablesInv'
  BY <1>4, <1>10, <1>11 DEF TablesInv, IsTables
<1> QED
  BY <1>3, <1>5, <1>12 DEF t, u

(* What a call of ResolveProperties that returns has done.                 *)
LEMMA ResolveIs ==
  ASSUME ClassInv, phase \in {"declProps", "defProps"}, Resolve(Layer(phase))
  PROVE  LET which == Layer(phase)
             layer == layers[which]
             c == Current
         IN  /\ resolving \in Seq(1..Len(layer)) /\ Len(resolving) \in Nat \ {0}
             /\ c = resolving[Len(resolving)] /\ c \in 1..Len(layer)
             /\ resolving[1] = cursor /\ cursor \in 1..Len(layer)
             /\ resolving' = Front(resolving)
             /\ defSpecies' = defSpecies /\ currSpecies' = currSpecies
             /\ \/ IsResolved(layer, c) /\ layers' = layers
                \/ /\ ~IsResolved(layer, c) /\ IsResolved(layers'[which], c)
                   /\ layer[c].super # NoSuper => IsResolved(layer, layer[c].super)
                   /\ TablesInv'
                   /\ SetsProps(layers, layers', which, c, PropertiesOf(layer, c))
                   /\ IsMadeOf(PropertiesOf(layer, c), InheritedIn(layer, layer[c]),
                               layer[c].own, Number(layer[c].species), SuperIn(layer, layer[c]))
<1> DEFINE which == Layer(phase)
           layer == layers[which]
           c == Current
           props == PropertiesOf(layer, c)
<1>1. Alive /\ PhaseInv /\ TablesInv /\ ResolvingInv
  BY DEF ClassInv, Alive
<1>2. /\ resolving \in Seq(1..Len(layer)) /\ resolving # <<>> /\ resolving[1] = cursor
      /\ resolving' = Front(resolving) /\ defSpecies' = defSpecies /\ currSpecies' = currSpecies
  BY <1>1 DEF ResolvingInv, Resolve
<1>3. /\ ~IsResolved(layer, c) /\ layer[c].super # NoSuper => IsResolved(layer, layer[c].super)
      /\ layers' = IF IsResolved(layer, c) THEN layers
                   ELSE [layers EXCEPT ![which][c].props = props]
  BY DEF Resolve
<1>4. which \in {"decl", "def"}
  BY DEF Layer
<1>5. Len(layer) \in Nat /\ \A i \in 1..Len(layer) : HasLists(layer[i])
  BY <1>1, <1>4, TablesAre DEF TablesInv
<1>6. \A i \in 1..Len(layer) : layer[i].super = NoSuper \/ layer[i].super \in 1..Len(layer)
  BY SupersKnown
<1> HIDE DEF layer, which
<1>7. Len(resolving) \in Nat \ {0} /\ resolving[Len(resolving)] \in 1..Len(layer) /\ cursor \in 1..Len(layer)
  <2>1. Len(resolving) \in Nat \ {0}
    BY <1>2
  <2>2. 1 \in 1..Len(resolving) /\ Len(resolving) \in 1..Len(resolving)
    BY <2>1
  <2>3. \A i \in 1..Len(resolving) : resolving[i] \in 1..Len(layer)
    BY <1>2
  <2> QED
    BY <1>2, <2>1, <2>2, <2>3
<1>8. c = resolving[Len(resolving)] /\ c \in 1..Len(layer)
  BY <1>7 DEF Current, Last
<1> HIDE DEF c, props
<1>9. CASE ~IsResolved(layer, c)
  <2>1. layer[c].super = NoSuper \/ IsWhole(layer[layer[c].super].props)
    BY <1>3, <1>5, <1>6, <1>8, <1>9 DEF HasLists, IsResolved
  <2>2. IsPropList(layer[c].own)
    BY <1>5, <1>8 DEF HasLists
  <2>3. /\ IsWhole(props) /\ props # <<>>
        /\ IsMadeOf(props, InheritedIn(layer, layer[c]), layer[c].own,
                    Number(layer[c].species), SuperIn(layer, layer[c]))
    BY <1>8, <2>1, <2>2, ResolvedList DEF props
  <2>4. layers' = [layers EXCEPT ![which][c].props = props]
    BY <1>3, <1>9
  <2>5. TablesInv' /\ SetsProps(layers, layers', which, c, props)
    BY <1>1, <1>2, <1>4, <1>8, <2>3, <2>4, PropsTables DEF layer
  <2>6. IsResolved(layers'[which], c)
    BY <2>3, <2>5 DEF SetsProps, IsResolved
  <2> QED
    BY <1>2, <1>3, <1>7, <1>8, <1>9, <2>3, <2>5, <2>6 DEF props, c, layer, which
<1>10. CASE IsResolved(layer, c)
  BY <1>2, <1>3, <1>7, <1>8, <1>10 DEF c, layer, which
<1> QED
  BY <1>9, <1>10

LEMMA FrontOf ==
  ASSUME NEW n \in Nat, NEW s \in Seq(1..n), NEW len \in Nat \ {0}, Len(s) = len
  PROVE  /\ Front(s) \in Seq(1..n)
         /\ len = 1 => Front(s) = <<>>
         /\ len # 1 => Front(s)[1] = s[1]
<1>1. Front(s) = [i \in 1..(len - 1) |-> s[i]]
  BY DEF Front
<1>2. \A i \in 1..(len - 1) : s[i] \in 1..n
  OBVIOUS
<1>3. len - 1 \in Nat
  OBVIOUS
<1>4. Front(s) \in Seq(1..n)
  BY <1>1, <1>2, <1>3, IsSeqOver, SMTT(30)
<1>5. len # 1 => 1 \in 1..(len - 1)
  OBVIOUS
<1> QED
  BY <1>1, <1>4, <1>5

(* Who is left waits for the class the loop is at.                         *)
LEMMA StackPops ==
  ASSUME PhaseInv, NEW n \in Nat, phase \in {"declProps", "defProps"},
         resolving \in Seq(1..n), Len(resolving) \in Nat \ {0},
         resolving[1] = cursor, cursor \in 1..n, resolving' = Front(resolving),
         IF Len(resolving) = 1 THEN Advance ELSE Stay,
         Len(layers'[Layer(phase)]) = n
  PROVE  /\ phase' = phase /\ source' = source /\ ResolvingInv' /\ CursorInv'
         /\ cursor' = IF Len(resolving) = 1 THEN cursor + 1 ELSE cursor
<1>1. /\ phase' = phase /\ source' = source
      /\ cursor' = IF Len(resolving) = 1 THEN cursor + 1 ELSE cursor
  BY DEF Advance, Stay
<1>2. /\ resolving' \in Seq(1..n)
      /\ Len(resolving) = 1 => resolving' = <<>>
      /\ Len(resolving) # 1 => resolving'[1] = resolving[1]
  BY FrontOf
<1>3. ResolvingInv'
  <2>1. Len(layers[Layer(phase)])' = n
    BY <1>1 DEF Layer
  <2>2. resolving' # <<>> => resolving'[1] = cursor'
    BY <1>1, <1>2
  <2> QED
    BY <1>1, <1>2, <2>1, <2>2 DEF ResolvingInv
<1>4. Len(ListOf(phase))' = n
  BY <1>1 DEF ListOf, Layer
<1>5. cursor' <= n + 1
  BY <1>1
<1>6. CursorInv'
  BY <1>4, <1>5 DEF CursorInv
<1> QED
  BY <1>1, <1>3, <1>6

LEMMA ResolvesDecl ==
  ASSUME ClassInv, PhaseInv', phase = "declProps", Resolve(Layer(phase)),
         IF Len(resolving) = 1 THEN Advance ELSE Stay
  PROVE  ClassInv'
<1> DEFINE layer == layers["decl"]
           n == Len(layer)
           c == Current
<1>1. Alive /\ PhaseInv /\ TablesInv /\ CursorInv /\ DeclInv /\ DefInv /\ ListsInv
  BY DEF ClassInv, Alive
<1>2. Layer(phase) = "decl" /\ layers["decl"] = layers.decl /\ layers'["decl"] = layers'.decl
  BY DEF Layer
<1>3. /\ resolving \in Seq(1..n) /\ Len(resolving) \in Nat \ {0}
      /\ resolving[1] = cursor /\ cursor \in 1..n /\ c \in 1..n
      /\ resolving' = Front(resolving) /\ defSpecies' = defSpecies /\ currSpecies' = currSpecies
      /\ \/ layers' = layers
         \/ TablesInv' /\ SetsProps(layers, layers', "decl", c, PropertiesOf(layer, c))
  BY <1>2, ResolveIs
<1>4. n \in Nat
  BY <1>1, TablesAre
<1>5. /\ TablesInv' /\ layers'.def = layers.def /\ Len(layers'["decl"]) = n
      /\ \A k \in 1..n : /\ layers'["decl"][k].name = layer[k].name
                         /\ layers'["decl"][k].species = layer[k].species
                         /\ layers'["decl"][k].own = layer[k].own
                         /\ layers'["decl"][k].super = layer[k].super
  <2>1. CASE layers' = layers
    BY <1>1, <1>3, <2>1, TablesKept
  <2>2. CASE TablesInv' /\ SetsProps(layers, layers', "decl", c, PropertiesOf(layer, c))
    BY <1>3, <2>2 DEF SetsProps, Others
  <2> QED
    BY <1>3, <2>1, <2>2
<1>6. phase' = phase /\ source' = source /\ ResolvingInv' /\ CursorInv'
  BY <1>1, <1>2, <1>3, <1>4, <1>5, StackPops
<1>7. Decls' = Decls
  BY <1>6 DEF Decls
<1>8. /\ DeclsDone = Len(Decls) /\ DeclSupersDone = Len(Decls) /\ DefsDone = 0
      /\ CopiesDone = 0 /\ DefSupersDone = 0 /\ CopySupersDone = 0 /\ PropsDone = 0
  BY ReachedIs DEF DeclsDone, DeclSupersDone, DefsDone, CopiesDone, DefSupersDone,
     CopySupersDone, PropsDone, Progress
<1>9. /\ DeclsDone' = Len(Decls) /\ DeclSupersDone' = Len(Decls) /\ DefsDone' = 0
      /\ CopiesDone' = 0 /\ DefSupersDone' = 0 /\ CopySupersDone' = 0 /\ PropsDone' = 0
  BY <1>6, <1>7, ReachedIs DEF DeclsDone, DeclSupersDone, DefsDone, CopiesDone, DefSupersDone,
     CopySupersDone, PropsDone, Progress
<1>10. DeclInv'
  <2>1. /\ n = Len(Decls)
        /\ \A k \in 1..n : /\ IsMadeFrom(layer[k], Decls[k]) /\ layer[k].species = Decls[k].species
                           /\ SuperHasNumber(layer, k, Decls[k].super)
    BY <1>1, <1>2, <1>8 DEF DeclInv
  <2> HIDE DEF layer, n
  <2>2. \A k \in 1..n : /\ IsMadeFrom(layers'["decl"][k], Decls[k])
                        /\ layers'["decl"][k].species = Decls[k].species
    BY <1>5, <2>1 DEF IsMadeFrom
  <2>3. \A k \in 1..n : SuperHasNumber(layers'["decl"], k, Decls[k].super)
    BY <1>5, <2>1, SupersKept DEF n
  <2> QED
    BY <1>2, <1>5, <1>7, <1>9, <2>1, <2>2, <2>3 DEF DeclInv
<1>11. DefInv'
  BY <1>1, <1>3, <1>5, <1>6, <1>8, <1>9, DefsKept DEF SameDefProgress
<1>12. ListsInv'
  BY <1>1, <1>5, <1>6, <1>8, <1>9, ListsKept
<1> QED
  BY <1>5, <1>6, <1>10, <1>11, <1>12 DEF ClassInv

LEMMA MadeInKept ==
  ASSUME NEW t, NEW u, NEW c, NEW d, d.own = c.own, d.species = c.species, d.super = c.super,
         d.props = c.props, c.super = NoSuper \/ u[c.super] = t[c.super], IsMadeIn(t, c)
  PROVE  IsMadeIn(u, d)
<1>1. InheritedIn(u, d) = InheritedIn(t, c) /\ SuperIn(u, d) = SuperIn(t, c)
  BY DEF InheritedIn, SuperIn
<1> QED
  BY <1>1 DEF IsMadeIn

(* A list that is made takes that of the super as it stays.                *)
LEMMA ListsGrow ==
  ASSUME ListsInv, NEW c \in 1..Len(layers.def), ~IsResolved(layers.def, c),
         SetsProps(layers, layers', "def", c, PropertiesOf(layers.def, c)),
         IsResolved(layers'.def, c),
         layers.def[c].super # NoSuper =>
           layers.def[c].super \in 1..Len(layers.def) /\ IsResolved(layers.def, layers.def[c].super),
         \A i \in 1..Len(layers.def) :
           layers.def[i].super = NoSuper \/ layers.def[i].super \in 1..Len(layers.def),
         IsMadeOf(PropertiesOf(layers.def, c), InheritedIn(layers.def, layers.def[c]),
                  layers.def[c].own, Number(layers.def[c].species),
                  SuperIn(layers.def, layers.def[c]))
  PROVE  /\ Len(layers'.def) = Len(layers.def)
         /\ \A i \in 1..Len(layers.def) : IsResolved(layers.def, i) => IsResolved(layers'.def, i)
         /\ \A i \in 1..Len(layers.def) :
              IsResolved(layers'.def, i) =>
                /\ IsMadeIn(layers'.def, layers'.def[i])
                /\ layers'.def[i].super # NoSuper => IsResolved(layers'.def, layers'.def[i].super)
<1> DEFINE t == layers.def
           u == layers'.def
           n == Len(t)
           new == PropertiesOf(t, c)
<1>1. /\ Len(u) = n /\ \A k \in 1..n : k # c => u[k] = t[k]
      /\ u[c].super = t[c].super /\ u[c].props = new /\ u[c].species = t[c].species
      /\ u[c].own = t[c].own
  <2>1. layers["def"] = t /\ layers'["def"] = u
    OBVIOUS
  <2> HIDE DEF t, u, new
  <2> QED
    BY <2>1 DEF SetsProps, n, t, new
<1>2. IsMadeOf(new, InheritedIn(t, t[c]), t[c].own, Number(t[c].species), SuperIn(t, t[c]))
  OBVIOUS
<1>3. /\ \A i \in 1..n : t[i].super = NoSuper \/ t[i].super \in 1..n
      /\ t[c].super # NoSuper => t[c].super \in 1..n /\ IsResolved(t, t[c].super)
      /\ \A i \in 1..n :
           IsResolved(t, i) =>
             IsMadeIn(t, t[i]) /\ (t[i].super # NoSuper => IsResolved(t, t[i].super))
      /\ ~IsResolved(t, c) /\ IsResolved(u, c) /\ c \in 1..n
  BY DEF ListsInv
<1> HIDE DEF t, u, n, new
<1>4. \A k \in 1..n : k # c => (IsResolved(u, k) <=> IsResolved(t, k))
  BY <1>1 DEF IsResolved
<1>5. \A k \in 1..n : IsResolved(t, k) => IsResolved(u, k) /\ u[k] = t[k]
  BY <1>1, <1>3, <1>4
<1>6. ASSUME NEW i \in 1..n, IsResolved(u, i)
      PROVE  IsMadeIn(u, u[i]) /\ (u[i].super # NoSuper => IsResolved(u, u[i].super))
  <2>1. CASE i = c
    <3>1. t[c].super = NoSuper \/ u[t[c].super] = t[t[c].super]
      BY <1>3, <1>5
    <3>2. InheritedIn(u, u[c]) = InheritedIn(t, t[c]) /\ SuperIn(u, u[c]) = SuperIn(t, t[c])
      BY <1>1, <3>1 DEF InheritedIn, SuperIn
    <3>3. IsMadeIn(u, u[c])
      BY <1>1, <1>2, <3>2 DEF IsMadeIn
    <3> QED
      BY <1>1, <1>3, <1>5, <2>1, <3>3
  <2>2. CASE i # c
    <3>1. IsResolved(t, i) /\ u[i] = t[i]
      BY <1>1, <1>4, <1>6, <2>2
    <3>2. IsMadeIn(t, t[i]) /\ (t[i].super # NoSuper => IsResolved(t, t[i].super))
      BY <1>3, <3>1
    <3>3. \/ t[i].super = NoSuper
          \/ u[t[i].super] = t[t[i].super] /\ IsResolved(u, t[i].super)
      BY <1>3, <1>5, <3>2
    <3>4. IsMadeIn(u, u[i])
      BY <3>1, <3>2, <3>3, MadeInKept
    <3> QED
      BY <3>1, <3>3, <3>4
  <2> QED
    BY <2>1, <2>2
<1> QED
  BY <1>1, <1>5, <1>6 DEF t, u, n

LEMMA ResolvesDef ==
  ASSUME ClassInv, PhaseInv', phase = "defProps", Resolve(Layer(phase)),
         IF Len(resolving) = 1 THEN Advance ELSE Stay
  PROVE  ClassInv'
<1> DEFINE layer == layers["def"]
           n == Len(layer)
           c == Current
<1>1. Alive /\ PhaseInv /\ TablesInv /\ CursorInv /\ DeclInv /\ DefInv /\ ListsInv
  BY DEF ClassInv, Alive
<1>2. Layer(phase) = "def" /\ layers["def"] = layers.def /\ layers'["def"] = layers'.def
  BY DEF Layer
<1>3. /\ resolving \in Seq(1..n) /\ Len(resolving) \in Nat \ {0} /\ c = resolving[Len(resolving)]
      /\ resolving[1] = cursor /\ cursor \in 1..n /\ c \in 1..n
      /\ resolving' = Front(resolving) /\ defSpecies' = defSpecies /\ currSpecies' = currSpecies
      /\ \/ IsResolved(layer, c) /\ layers' = layers
         \/ /\ ~IsResolved(layer, c) /\ IsResolved(layers'["def"], c)
            /\ layer[c].super # NoSuper => IsResolved(layer, layer[c].super)
            /\ TablesInv' /\ SetsProps(layers, layers', "def", c, PropertiesOf(layer, c))
            /\ IsMadeOf(PropertiesOf(layer, c), InheritedIn(layer, layer[c]),
                        layer[c].own, Number(layer[c].species), SuperIn(layer, layer[c]))
  BY <1>2, ResolveIs
<1>4. n \in Nat
  BY <1>1, TablesAre
<1>5. /\ TablesInv' /\ layers'.decl = layers.decl /\ Len(layers'["def"]) = n
      /\ \A k \in 1..n : /\ layers'["def"][k].name = layer[k].name
                         /\ layers'["def"][k].species = layer[k].species
                         /\ layers'["def"][k].own = layer[k].own
                         /\ layers'["def"][k].super = layer[k].super
  <2>1. CASE layers' = layers
    BY <1>1, <1>3, <2>1, TablesKept
  <2>2. CASE TablesInv' /\ SetsProps(layers, layers', "def", c, PropertiesOf(layer, c))
    BY <1>3, <2>2 DEF SetsProps, Others
  <2> QED
    BY <1>3, <2>1, <2>2
<1>6. /\ phase' = phase /\ source' = source /\ ResolvingInv' /\ CursorInv'
      /\ cursor' = IF Len(resolving) = 1 THEN cursor + 1 ELSE cursor
  BY <1>1, <1>2, <1>3, <1>4, <1>5, StackPops
<1>7. Decls' = Decls /\ Defs' = Defs /\ Copies' = Copies
  BY <1>3, <1>6 DEF Decls, Defs, Copies
<1>8. /\ DeclsDone = Len(Decls) /\ DeclSupersDone = Len(Decls) /\ DefsDone = Len(Defs)
      /\ CopiesDone = Len(Copies) /\ DefSupersDone = Len(Defs)
      /\ CopySupersDone = Len(Copies) /\ PropsDone = cursor - 1
  BY ReachedIs DEF DeclsDone, DeclSupersDone, DefsDone, CopiesDone, DefSupersDone,
     CopySupersDone, PropsDone, Progress
<1>9. /\ DeclsDone' = Len(Decls) /\ DeclSupersDone' = Len(Decls) /\ DefsDone' = Len(Defs)
      /\ CopiesDone' = Len(Copies) /\ DefSupersDone' = Len(Defs)
      /\ CopySupersDone' = Len(Copies) /\ PropsDone' = cursor' - 1
  BY <1>6, <1>7, ReachedIs DEF DeclsDone, DeclSupersDone, DefsDone, CopiesDone, DefSupersDone,
     CopySupersDone, PropsDone, Progress
<1>10. DeclInv'
  BY <1>1, <1>5, <1>6, <1>8, <1>9, DeclsKept
<1>11. DefInv'
  <2>1. /\ n = Len(Defs) + Len(Copies)
        /\ \A k \in 1..Len(Defs) : IsDefined(k) /\ SuperHasName(layers.def, k, Defs[k].super)
        /\ \A j \in 1..Len(Copies) :
             IsCopied(j) /\ SuperHasNumber(layers.def, Len(Defs) + j, Copies[j].super)
        /\ defSpecies = {layers.def[k].species : k \in 1..Len(Defs)}
    BY <1>1, <1>2, <1>8 DEF DefInv
  <2>2. /\ Len(Defs) \in Nat /\ Len(Copies) \in Nat
    BY <1>1, LengthsAre
  <2>3. /\ \A k \in 1..Len(Defs) : k \in 1..n
        /\ \A j \in 1..Len(Copies) : Len(Defs) + j \in 1..n
    BY <2>1, <2>2
  <2> HIDE DEF layer, n
  <2>4. \A k \in 1..Len(Defs) : IsDefined(k)'
    BY <1>2, <1>5, <1>7, <2>1, <2>3 DEF IsDefined, IsMadeFrom, layer
  <2>5. \A j \in 1..Len(Copies) : IsCopied(j)'
    BY <1>2, <1>5, <1>7, <2>1, <2>3 DEF IsCopied, IsMadeFrom, layer
  <2>6. defSpecies' = {layers'.def[k].species : k \in 1..Len(Defs)}
    <3>1. \A k \in 1..Len(Defs) : layers'.def[k].species = layers.def[k].species
      BY <1>2, <1>5, <2>3 DEF layer
    <3> QED
      BY <1>3, <2>1, <3>1
  <2>7. \A k \in 1..Len(Defs) : SuperHasName(layers'.def, k, Defs[k].super)
    BY <1>2, <1>5, <2>1, <2>3, SupersKept DEF layer, n
  <2>8. \A j \in 1..Len(Copies) : SuperHasNumber(layers'.def, Len(Defs) + j, Copies[j].super)
    BY <1>2, <1>5, <2>1, <2>3, SupersKept DEF layer, n
  <2> QED
    BY <1>2, <1>5, <1>7, <1>9, <2>1, <2>4, <2>5, <2>6, <2>7, <2>8 DEF DefInv
<1>12. ListsInv'
  <2>1. ~(PhaseRank(phase') < 11)
    BY <1>6, RankOf
  <2>2. IsResolved(layers'.def, c)
    BY <1>2, <1>3
  <2>3. /\ Len(layers'.def) = n
        /\ \A i \in 1..n : IsResolved(layers.def, i) => IsResolved(layers'.def, i)
        /\ \A i \in 1..n :
             IsResolved(layers'.def, i) =>
               /\ IsMadeIn(layers'.def, layers'.def[i])
               /\ layers'.def[i].super # NoSuper => IsResolved(layers'.def, layers'.def[i].super)
    <3>1. CASE layers' = layers
      BY <1>1, <1>2, <3>1 DEF ListsInv
    <3>2. CASE layers' # layers
      <4>1. \A i \in 1..n : layer[i].super = NoSuper \/ layer[i].super \in 1..n
        BY <1>2, SupersKnown
      <4> HIDE DEF c
      <4>2. /\ ~IsResolved(layers.def, c) /\ IsResolved(layers'.def, c)
            /\ layers.def[c].super # NoSuper =>
                 layers.def[c].super \in 1..n /\ IsResolved(layers.def, layers.def[c].super)
            /\ SetsProps(layers, layers', "def", c, PropertiesOf(layers.def, c))
            /\ IsMadeOf(PropertiesOf(layers.def, c), InheritedIn(layers.def, layers.def[c]),
                        layers.def[c].own, Number(layers.def[c].species),
                        SuperIn(layers.def, layers.def[c]))
        BY <1>2, <1>3, <3>2, <4>1
      <4> QED
        BY <1>1, <1>2, <1>3, <4>1, <4>2, ListsGrow
    <3> QED
      BY <3>1, <3>2
  <2>4. \A i \in 1..(cursor' - 1) : IsResolved(layers'.def, i)
    <3>1. \A i \in 1..(cursor - 1) : IsResolved(layers.def, i) /\ i \in 1..n
      <4>1. \A i \in 1..(cursor - 1) : i \in 1..n
        BY <1>3, <1>4
      <4> QED
        BY <1>1, <1>8, <4>1 DEF ListsInv
    <3>2. \A i \in 1..(cursor - 1) : IsResolved(layers'.def, i)
      BY <2>3, <3>1
    <3>3. CASE Len(resolving) = 1
      <4>1. c = cursor /\ cursor' = cursor + 1
        BY <1>3, <1>6, <3>3
      <4>2. \A i \in 1..(cursor' - 1) : i \in 1..(cursor - 1) \/ i = cursor
        BY <1>3, <4>1
      <4> QED
        BY <2>2, <3>2, <4>1, <4>2
    <3>4. CASE Len(resolving) # 1
      BY <1>6, <3>2, <3>4
    <3> QED
      BY <3>3, <3>4
  <2> QED
    BY <1>9, <2>1, <2>3, <2>4 DEF ListsInv
<1> QED
  BY <1>5, <1>6, <1>10, <1>11, <1>12 DEF ClassInv

LEMMA ResolvesProps ==
  ASSUME ClassInv, PhaseInv', ResolveProperties
  PROVE  ClassInv'
<1>1. phase \in {"declProps", "defProps"} /\ cursor <= Len(layers[Layer(phase)])
  BY ListsOfPhases DEF ResolveProperties, At, Layer
<1>2. Alive /\ PhaseInv /\ TablesInv /\ CursorInv /\ ResolvingInv
  BY <1>1 DEF ClassInv, Alive
<1> DEFINE layer == layers[Layer(phase)]
           n == Len(layer)
<1>3. cursor \in Nat \ {0} /\ n \in Nat /\ cursor \in 1..n
  <2>1. cursor \in Nat \ {0} /\ n \in Nat
    BY <1>2, TablesAre DEF PhaseInv, Layer
  <2> QED
    BY <1>1, <2>1
<1>4. resolving \in Seq(1..n) /\ (resolving # <<>> => resolving[1] = cursor)
  BY <1>1, <1>2 DEF ResolvingInv
<1>5. ASSUME phase' = phase, source' = source, cursor' = cursor,
             UNCHANGED <<layers, currSpecies, defSpecies>>,
             resolving' \in Seq(1..n), resolving' # <<>> => resolving'[1] = cursor
      PROVE  ClassInv'
  <2>1. CursorInv'
    <3>1. Len(ListOf(phase))' = Len(ListOf(phase))
      BY <1>1, <1>5, ListsOfPhases DEF ListOf
    <3> QED
      BY <1>2, <1>5, <3>1 DEF CursorInv
  <2>2. ResolvingInv'
    BY <1>1, <1>5 DEF ResolvingInv, Layer
  <2> QED
    BY <1>5, <2>1, <2>2, ClassesStay
<1>6. CASE ResolveNext(Layer(phase), cursor) /\ Stay
  <2>1. /\ phase' = phase /\ source' = source /\ cursor' = cursor
        /\ UNCHANGED <<layers, currSpecies, defSpecies>> /\ resolving' = <<cursor>>
    BY <1>6 DEF ResolveNext, Stay
  <2>2. resolving' \in Seq(1..n) /\ resolving'[1] = cursor
    <3> HIDE DEF n
    <3> QED
      BY <1>3, <2>1
  <2> HIDE DEF n, layer
  <2> QED
    BY <1>5, <2>1, <2>2
<1>7. CASE ResolveSuper(Layer(phase)) /\ Stay
  <2> DEFINE c == Current
             super == layer[c].super
  <2>1. /\ phase' = phase /\ source' = source /\ cursor' = cursor
        /\ UNCHANGED <<layers, currSpecies, defSpecies>> /\ resolving' = Append(resolving, super)
        /\ resolving # <<>> /\ super # NoSuper
    BY <1>7 DEF ResolveSuper, Stay
  <2>2. \A i \in 1..n : layer[i].super = NoSuper \/ layer[i].super \in 1..n
    BY <1>1, SupersKnown
  <2>3. c \in 1..n
    <3> HIDE DEF n
    <3>1. Len(resolving) \in Nat \ {0}
      BY <1>4, <2>1
    <3>2. Len(resolving) \in 1..Len(resolving)
      BY <3>1
    <3>3. \A i \in 1..Len(resolving) : resolving[i] \in 1..n
      BY <1>3, <1>4
    <3> QED
      BY <3>2, <3>3 DEF Current, Last
  <2> HIDE DEF c
  <2>4. super \in 1..n
    BY <2>1, <2>2, <2>3
  <2> HIDE DEF super, n
  <2>5. resolving' \in Seq(1..n) /\ resolving'[1] = cursor
    BY <1>4, <2>1, <2>4
  <2> HIDE DEF layer
  <2> QED
    BY <1>5, <2>1, <2>5
<1>8. CASE Resolve(Layer(phase)) /\ (IF Len(resolving) = 1 THEN Advance ELSE Stay)
  BY <1>1, <1>8, ResolvesDecl, ResolvesDef
<1> QED
  BY <1>6, <1>7, <1>8 DEF ResolveProperties

-----------------------------------------------------------------------------
(* The other steps.                                                        *)

LEMMA ClassesBegin == Init => ClassInv
<1> SUFFICES ASSUME Init PROVE ClassInv
  OBVIOUS
<1>1. /\ layers = [decl |-> <<>>, def |-> <<>>] /\ currSpecies = 0 /\ defSpecies = {}
      /\ resolving = <<>> /\ phase = "selectors"
  BY DEF Init, InitClasses
<1>2. PhaseInv
  BY PhaseBegins
<1>3. layers.decl = <<>> /\ layers.def = <<>> /\ Len(layers.decl) = 0 /\ Len(layers.def) = 0
  BY <1>1
<1>4. TablesInv
  <2>1. IsLayer(<<>>)
    BY DEF IsLayer, IsList
  <2> QED
    BY <1>1, <1>3, <2>1 DEF TablesInv, NoTwins
<1>5. \A p \in PhaseNames : \A n : p # "selectors" => Reached("selectors", cursor, p, n) = 0
  BY PhaseNamesAre, RankOf DEF Reached
<1>6. /\ DeclsDone = 0 /\ DeclSupersDone = 0 /\ DefsDone = 0 /\ CopiesDone = 0
      /\ DefSupersDone = 0 /\ CopySupersDone = 0 /\ PropsDone = 0
  BY <1>1, <1>5, PhaseNamesAre DEF DeclsDone, DeclSupersDone, DefsDone, CopiesDone,
     DefSupersDone, CopySupersDone, PropsDone, Progress
<1>7. DeclInv
  BY <1>3, <1>6 DEF DeclInv
<1>8. DefInv
  BY <1>1, <1>3, <1>6 DEF DefInv
<1>9. CursorInv /\ ResolvingInv
  BY <1>1 DEF CursorInv, ClassPhases, ResolvingInv
<1>10. ListsInv
  BY <1>3, <1>6 DEF ListsInv
<1> QED
  BY <1>2, <1>4, <1>7, <1>8, <1>9, <1>10 DEF ClassInv

LEMMA ClassStep == ClassInv /\ [Next]_vars => ClassInv'
<1> SUFFICES ASSUME ClassInv, [Next]_vars PROVE ClassInv'
  OBVIOUS
<1>1. PhaseInv /\ TablesInv /\ PhaseInv' /\ source' = source
  BY PhaseStep, SourceStays DEF ClassInv
<1>2. Alive => CursorInv /\ DeclInv /\ DefInv /\ ResolvingInv /\ ListsInv
  BY DEF ClassInv
<1>3. CASE AddSelector
  <2>1. phase = "selectors" /\ phase' = phase /\ UNCHANGED classVars
    BY <1>3 DEF AddSelector, At, Advance
  <2>2. CursorInv' /\ ResolvingInv'
    BY <1>2, <2>1 DEF CursorInv, ResolvingInv, ClassPhases, classVars, Alive
  <2> QED
    BY <1>1, <2>1, <2>2, ClassesStay DEF classVars, ClassPhases
<1>4. CASE NumberSelectors
  <2>1. phase = "numbering" /\ phase' = phase /\ UNCHANGED classVars
    BY <1>4 DEF NumberSelectors, At, Stay
  <2>2. CursorInv' /\ ResolvingInv'
    BY <1>2, <2>1 DEF CursorInv, ResolvingInv, ClassPhases, classVars, Alive
  <2> QED
    BY <1>1, <2>1, <2>2, ClassesStay DEF classVars, ClassPhases
<1>5. CASE AddDecl
  <2>1. phase = "decls" \/ phase = "copies"
    BY <1>5 DEF AddDecl, At
  <2> QED
    BY <1>1, <1>5, <2>1, AddsDecl, AddsCopy
<1>6. CASE AddDef
  BY <1>1, <1>6, AddsDef
<1>7. CASE SetClassSuper
  <2>1. phase = "declSupers" \/ phase = "defSupers" \/ phase = "copySupers"
    BY <1>7 DEF SetClassSuper, At
  <2> QED
    BY <1>1, <1>7, <2>1, SetsDeclSuper, SetsDefSuper, SetsCopySuper
<1>8. CASE ResolveProperties
  BY <1>1, <1>8, ResolvesProps
<1>9. CASE BuildObject
  <2>1. /\ phase = "objects" /\ phase' = phase /\ cursor' = cursor + 1
        /\ UNCHANGED <<layers, currSpecies, defSpecies, resolving>>
        /\ cursor <= Len(Objects)
    BY <1>9, ListsOfPhases DEF BuildObject, At, Advance, AddObject
  <2>2. Len(ListOf(phase))' = Len(Objects) /\ Len(Objects) \in Nat
    BY <1>1, <2>1, LengthsAre DEF ListOf, Objects
  <2>3. CursorInv'
    BY <1>1, <2>1, <2>2, CursorGoesOn
  <2>4. ResolvingInv'
    BY <1>2, <2>1 DEF ResolvingInv, Alive
  <2> QED
    BY <1>1, <2>1, <2>3, <2>4, ClassesStay DEF ClassPhases
<1>10. CASE EndPhase
  BY <1>1, <1>10, ClassesAtEnd
<1>11. CASE Fail \/ Crash
  <2>1. phase' \in {"failed", "crashed"} /\ UNCHANGED <<layers, currSpecies>>
    BY <1>11 DEF Fail, Crash, Tables, classVars
  <2>2. TablesInv'
    BY <1>1, <2>1, TablesKept
  <2> QED
    BY <1>1, <2>1, <2>2 DEF ClassInv, Alive
<1>12. CASE Terminated \/ UNCHANGED vars
  <2>1. UNCHANGED vars
    BY <1>12 DEF Terminated
  <2>2. Alive => CursorInv' /\ ResolvingInv'
    <3>1. UNCHANGED <<phase, cursor, layers, resolving, source, defSpecies, newSelectors>>
      BY <2>1 DEF vars, classVars, selectorVars
    <3>2. ListOf(phase)' = ListOf(phase)
      BY <3>1 DEF ListOf, Calls, Decls, Defs, Copies, Objects
    <3> QED
      BY <1>2, <3>1, <3>2 DEF CursorInv, ResolvingInv
  <2>3. CASE Alive
    BY <1>1, <2>1, <2>2, <2>3, ClassesStay DEF vars, classVars
  <2>4. CASE ~Alive
    <3>1. UNCHANGED <<phase, layers, currSpecies>>
      BY <2>1 DEF vars, classVars
    <3>2. TablesInv'
      BY <1>1, <3>1, TablesKept
    <3> QED
      BY <1>1, <2>4, <3>1, <3>2 DEF ClassInv, Alive
  <2> QED
    BY <2>3, <2>4
<1> QED
  BY <1>3, <1>4, <1>5, <1>6, <1>7, <1>8, <1>9, <1>10, <1>11, <1>12 DEF Next

-----------------------------------------------------------------------------
(* Objects.                                                                *)

InstanceProps(name, species) ==
  <<Prop("-script-", NoSpecies), Prop("name", name),
    Prop("-super-", species), Prop("-info-", Number(0))>>

LEMMA InstanceSays ==
  ASSUME NEW name, NEW species
  PROVE  LET list == InstanceProps(name, species)
         IN  /\ IsPropList(list)
             /\ \A m \in 1..Len(list) : list[m].sel \in {"-script-", "name", "-super-", "-info-"}
             /\ Mentions(list, "-script-") # {} /\ LastSaid(list, "-script-") = NoSpecies
             /\ Mentions(list, "name") # {} /\ LastSaid(list, "name") = name
             /\ Mentions(list, "-super-") # {} /\ LastSaid(list, "-super-") = species
             /\ Mentions(list, "-info-") # {} /\ LastSaid(list, "-info-") = Number(0)
             /\ \A sel : sel \notin {"-script-", "name", "-super-", "-info-"} =>
                           Mentions(list, sel) = {}
<1> DEFINE list == InstanceProps(name, species)
           S == {"-script-", "name", "-super-", "-info-"}
           V == {NoSpecies, name, species, Number(0)}
<1>1. /\ Prop("-script-", NoSpecies) \in PropSet(S, V)
      /\ Prop("name", name) \in PropSet(S, V)
      /\ Prop("-super-", species) \in PropSet(S, V)
      /\ Prop("-info-", Number(0)) \in PropSet(S, V)
  BY DEF PropSet, Prop
<1>2. list \in Seq(PropSet(S, V)) /\ Len(list) = 4
  <2> HIDE DEF S, V
  <2> QED
    BY <1>1 DEF InstanceProps
<1>3. IsPropList(list)
  <2> HIDE DEF S, V, list
  <2> QED
    BY <1>2 DEF IsPropList
<1>4. /\ list[1].sel = "-script-" /\ list[2].sel = "name"
      /\ list[3].sel = "-super-" /\ list[4].sel = "-info-"
      /\ list[1].value = NoSpecies /\ list[2].value = name
      /\ list[3].value = species /\ list[4].value = Number(0)
  BY DEF InstanceProps, Prop
<1> HIDE DEF list
<1>5. \A k \in 1..Len(list) : k = 1 \/ k = 2 \/ k = 3 \/ k = 4
  BY <1>2
<1>6. 1 \in 1..Len(list) /\ 2 \in 1..Len(list) /\ 3 \in 1..Len(list) /\ 4 \in 1..Len(list)
  BY <1>2
<1>7. /\ \A k \in 1..Len(list) : list[k].sel = list[1].sel => k = 1
      /\ \A k \in 1..Len(list) : list[k].sel = list[2].sel => k = 2
      /\ \A k \in 1..Len(list) : list[k].sel = list[3].sel => k = 3
      /\ \A k \in 1..Len(list) : list[k].sel = list[4].sel => k = 4
  BY <1>4, <1>5
<1>8. Mentions(list, "-script-") = {1} /\ LastSaid(list, "-script-") = NoSpecies
  <2>1. Mentions(list, list[1].sel) = {1} /\ LastSaid(list, list[1].sel) = list[1].value
    BY <1>6, <1>7, SaidOnce
  <2> QED
    BY <1>4, <2>1
<1>9. Mentions(list, "name") = {2} /\ LastSaid(list, "name") = name
  <2>1. Mentions(list, list[2].sel) = {2} /\ LastSaid(list, list[2].sel) = list[2].value
    BY <1>6, <1>7, SaidOnce
  <2> QED
    BY <1>4, <2>1
<1>10. Mentions(list, "-super-") = {3} /\ LastSaid(list, "-super-") = species
  <2>1. Mentions(list, list[3].sel) = {3} /\ LastSaid(list, list[3].sel) = list[3].value
    BY <1>6, <1>7, SaidOnce
  <2> QED
    BY <1>4, <2>1
<1>11. Mentions(list, "-info-") = {4} /\ LastSaid(list, "-info-") = Number(0)
  <2>1. Mentions(list, list[4].sel) = {4} /\ LastSaid(list, list[4].sel) = list[4].value
    BY <1>6, <1>7, SaidOnce
  <2> QED
    BY <1>4, <2>1
<1>12. ASSUME NEW sel, sel \notin S PROVE Mentions(list, sel) = {}
  BY <1>4, <1>5, <1>12 DEF Mentions
<1>13. \A m \in 1..Len(list) : list[m].sel \in S
  BY <1>4, <1>5
<1> QED
  BY <1>3, <1>8, <1>9, <1>10, <1>11, <1>12, <1>13 DEF list

(* What an object says of a property: itself, as an object, or its class.  *)
InstanceValue(list, base, own, name, species, k) ==
  LET sel == list[k].sel
      says == Mentions(own, sel) # {}
  IN  CASE says -> LastSaid(own, sel)
        [] ~says /\ sel = "-script-" -> NoSpecies
        [] ~says /\ sel = "name" -> name
        [] ~says /\ sel = "-super-" -> species
        [] ~says /\ sel = "-info-" -> Number(0)
        [] ~says /\ sel = "-size-" -> Number(Len(list))
        [] OTHER -> base[k].value

LEMMA ObjectIsMade ==
  ASSUME NEW base, IsWhole(base), NEW own, IsPropList(own), NEW name, NEW species,
         \A m \in 1..Len(own) : HasProp(Update(base, InstanceProps(name, species)), own[m].sel)
  PROVE  LET list == Update(Update(base, InstanceProps(name, species)), own)
         IN  /\ Len(list) \in Nat /\ Len(list) = Len(base)
             /\ \A k \in 1..Len(list) :
                  /\ list[k].sel = base[k].sel
                  /\ list[k].value = InstanceValue(list, base, own, name, species, k)
<1> DEFINE inst == InstanceProps(name, species)
           u == Update(base, inst)
           v == Update(u, own)
<1>1. /\ IsPropList(base) /\ IsDistinct(base) /\ Len(base) \in Nat
      /\ \A i \in 1..Len(base) : base[i].sel = "-size-" => base[i].value = Number(Len(base))
  BY DEF IsWhole, HasBasics, IsPropList
<1>2. \A sel \in {"-script-", "name", "-super-", "-info-"} :
        \E i \in 1..Len(base) : base[i].sel = sel
  <2> TAKE sel \in {"-script-", "name", "-super-", "-info-"}
  <2>1. PICK b \in 1..Len(Basic) : Basic[b] = sel
    BY BasicIs
  <2>2. HasProp(base, Basic[b])
    BY DEF HasBasics, IsWhole
  <2> QED
    BY <2>1, <2>2 DEF HasProp
<1>3. /\ IsPropList(inst)
      /\ \A m \in 1..Len(inst) : inst[m].sel \in {"-script-", "name", "-super-", "-info-"}
      /\ Mentions(inst, "-script-") # {} /\ LastSaid(inst, "-script-") = NoSpecies
      /\ Mentions(inst, "name") # {} /\ LastSaid(inst, "name") = name
      /\ Mentions(inst, "-super-") # {} /\ LastSaid(inst, "-super-") = species
      /\ Mentions(inst, "-info-") # {} /\ LastSaid(inst, "-info-") = Number(0)
      /\ \A sel : sel \notin {"-script-", "name", "-super-", "-info-"} => Mentions(inst, sel) = {}
  BY InstanceSays
<1>4. \A m \in 1..Len(own) : HasProp(u, own[m].sel)
  OBVIOUS
<1> HIDE DEF inst
<1>5. \A m \in 1..Len(inst) : \E i \in 1..Len(base) : base[i].sel = inst[m].sel
  BY <1>2, <1>3
<1>6. IsPropList(u) /\ IsUpdated(u, base, inst, Len(inst))
  BY <1>1, <1>3, UpdateOfLists
<1> HIDE DEF u
<1>7. Len(u) = Len(base) /\ \A i \in 1..Len(u) : u[i].sel = base[i].sel
  <2>1. IsPropList(base) /\ IsDistinct(base)
    BY <1>1
  <2>2. IsPropList(inst)
    BY <1>3
  <2>3. IsPropList(u) /\ IsUpdated(u, base, inst, Len(inst))
    BY <1>6
  <2> QED
    BY <1>5, <2>1, <2>2, <2>3, SamePlaces
<1>8. IsDistinct(u)
  BY <1>6 DEF IsUpdated
<1>9. IsPropList(v) /\ IsUpdated(v, u, own, Len(own))
  BY <1>6, <1>8, UpdateOfLists
<1> HIDE DEF v
<1>10. Len(v) = Len(u) /\ \A i \in 1..Len(v) : v[i].sel = u[i].sel
  <2>1. \A m \in 1..Len(own) : \E i \in 1..Len(u) : u[i].sel = own[m].sel
    BY <1>4 DEF HasProp
  <2>2. IsPropList(u) /\ IsPropList(v) /\ IsUpdated(v, u, own, Len(own))
    BY <1>6, <1>9
  <2> QED
    BY <1>8, <2>1, <2>2, SamePlaces
<1>11. Len(v) = Len(base) /\ Len(v) \in Nat /\ \A k \in 1..Len(v) : v[k].sel = base[k].sel
  BY <1>1, <1>7, <1>10
<1>12. ASSUME NEW k \in 1..Len(v)
       PROVE  IF Mentions(own, v[k].sel) # {} THEN v[k].value = LastSaid(own, v[k].sel)
              ELSE v[k].value = IF Mentions(inst, v[k].sel) # {} THEN LastSaid(inst, v[k].sel)
                                ELSE base[k].value
  <2>1. /\ Mentions(own, v[k].sel) # {} => v[k].value = LastSaid(own, v[k].sel)
        /\ Mentions(own, v[k].sel) = {} => v[k].value = u[k].value
    <3>1. Len(v) \in Nat /\ IsUpdated(v, u, own, Len(own)) /\ k \in 1..Len(v)
      BY <1>9, <1>11
    <3>2. IsSaid(v, u, own, k)
      BY <3>1, SaidLast
    <3> QED
      BY <3>2 DEF IsSaid
  <2>2. CASE Mentions(own, v[k].sel) # {}
    BY <2>1, <2>2
  <2>3. CASE Mentions(own, v[k].sel) = {}
    <3>1. k \in 1..Len(u) /\ u[k].sel = v[k].sel /\ Len(u) \in Nat
      BY <1>10, <1>11
    <3>2. /\ Mentions(inst, u[k].sel) # {} => u[k].value = LastSaid(inst, u[k].sel)
          /\ Mentions(inst, u[k].sel) = {} => u[k].value = base[k].value
      <4>1. IsPropList(inst)
        BY <1>3
      <4>2. Len(u) \in Nat /\ IsUpdated(u, base, inst, Len(inst)) /\ k \in 1..Len(u)
        BY <1>6, <3>1
      <4>3. IsSaid(u, base, inst, k)
        BY <4>1, <4>2, SaidLast
      <4> QED
        BY <4>3 DEF IsSaid
    <3> QED
      BY <2>1, <2>3, <3>1, <3>2
  <2> QED
    BY <2>2, <2>3
<1>13. ASSUME NEW k \in 1..Len(v)
       PROVE  v[k].value = InstanceValue(v, base, own, name, species, k)
  <2>1. CASE Mentions(own, v[k].sel) # {}
    BY <1>12, <2>1 DEF InstanceValue
  <2>2. CASE Mentions(own, v[k].sel) = {}
    <3>1. v[k].value = IF Mentions(inst, v[k].sel) # {} THEN LastSaid(inst, v[k].sel)
                       ELSE base[k].value
      BY <1>12, <2>2
    <3>2. CASE v[k].sel = "-script-"
      BY <1>3, <2>2, <3>1, <3>2 DEF InstanceValue
    <3>3. CASE v[k].sel = "name"
      BY <1>3, <2>2, <3>1, <3>3 DEF InstanceValue
    <3>4. CASE v[k].sel = "-super-"
      BY <1>3, <2>2, <3>1, <3>4 DEF InstanceValue
    <3>5. CASE v[k].sel = "-info-"
      BY <1>3, <2>2, <3>1, <3>5 DEF InstanceValue
    <3>6. CASE v[k].sel = "-size-"
      <4>1. base[k].value = Number(Len(v)) /\ Mentions(inst, v[k].sel) = {}
        BY <1>1, <1>3, <1>11, <3>6
      <4> QED
        BY <2>2, <3>1, <3>6, <4>1 DEF InstanceValue
    <3>7. CASE v[k].sel \notin {"-script-", "name", "-super-", "-info-", "-size-"}
      <4>1. Mentions(inst, v[k].sel) = {}
        BY <1>3, <3>7
      <4> QED
        BY <2>2, <3>1, <3>7, <4>1 DEF InstanceValue
    <3> QED
      BY <3>2, <3>3, <3>4, <3>5, <3>6, <3>7
  <2> QED
    BY <2>1, <2>2
<1> QED
  BY <1>11, <1>13 DEF v, u, inst

ObjInv ==
  /\ IsList(objects)
  /\ Alive => Len(objects) = Progress("objects", Len(Objects))
  /\ ObjectsMatchTheirClass

LEMMA ObjectsBegin == Init => ObjInv
<1> SUFFICES ASSUME Init PROVE ObjInv
  OBVIOUS
<1>1. objects = <<>> /\ phase = "selectors"
  BY DEF Init, InitClasses
<1>2. IsList(<<>>)
  BY DEF IsList
<1>3. Progress("objects", Len(Objects)) = 0
  BY <1>1, RankOf DEF Progress, Reached
<1>4. Len(objects) = 0
  BY <1>1
<1> QED
  BY <1>1, <1>2, <1>3, <1>4 DEF ObjInv, ObjectsMatchTheirClass

(* Before the phase of the objects there is none.                          *)
LEMMA NoObjects ==
  ASSUME PhaseInv, ObjInv, Alive, phase \notin {"objects", "done"},
         phase' = phase, objects' = objects, source' = source
  PROVE  ObjInv'
<1>1. phase \in PhaseNames
  BY PhaseNamesAre DEF PhaseInv, Alive
<1>2. ~(PhaseRank("objects") < PhaseRank(phase))
  BY <1>1, PhaseNamesAre, RankOf
<1>3. Progress("objects", Len(Objects)) = 0 /\ Progress("objects", Len(Objects))' = 0
  BY <1>2 DEF Progress, Reached
<1>4. IsList(objects) /\ Len(objects) = 0
  BY <1>3 DEF ObjInv
<1> QED
  BY <1>3, <1>4 DEF ObjInv, ObjectsMatchTheirClass

LEMMA SameInstance ==
  ASSUME layers' = layers, NEW o, NEW item, IsInstance(o, item)
  PROVE  IsInstance(o, item)'
<1>1. \A k : ObjectValue(o, item, k)' = ObjectValue(o, item, k)
  BY DEF ObjectValue
<1>2. layers'.def = layers.def
  OBVIOUS
<1>3. \A k \in 1..Len(o.props) : o.props[k].value = ObjectValue(o, item, k)'
  BY <1>1 DEF IsInstance
<1> QED
  BY <1>2, <1>3 DEF IsInstance

LEMMA SameObjects ==
  ASSUME ObjectsMatchTheirClass, UNCHANGED <<objects, layers, source>>
  PROVE  ObjectsMatchTheirClass'
<1>1. objects' = objects /\ layers' = layers /\ Objects' = Objects
  BY DEF Objects
<1>2. \A o, item : IsInstance(o, item) => IsInstance(o, item)'
  BY <1>1, SameInstance
<1> QED
  BY <1>1, <1>2 DEF ObjectsMatchTheirClass

(* The classes are made when the objects are.                              *)
LEMMA ClassesMade ==
  ASSUME ClassInv, phase \in {"objects", "done"}
  PROVE  \A c \in 1..Len(layers.def) :
           /\ IsWhole(layers.def[c].props) /\ IsMadeIn(layers.def, layers.def[c])
           /\ layers.def[c].super = NoSuper \/ layers.def[c].super \in 1..Len(layers.def)
<1>1. PhaseInv /\ TablesInv /\ DefInv /\ ListsInv
  BY DEF ClassInv, Alive
<1>2. /\ PropsDone = Len(layers.def) /\ DefsDone = Len(Defs) /\ CopiesDone = Len(Copies)
      /\ DefSupersDone = Len(Defs) /\ CopySupersDone = Len(Copies)
  BY ReachedIs DEF PropsDone, DefsDone, CopiesDone, DefSupersDone, CopySupersDone, Progress
<1>3. \A c \in 1..Len(layers.def) :
        /\ IsResolved(layers.def, c) /\ IsMadeIn(layers.def, layers.def[c])
        /\ HasLists(layers.def[c])
  BY <1>1, <1>2 DEF ListsInv, TablesInv
<1>4. \A c \in 1..Len(layers.def) : IsWhole(layers.def[c].props)
  BY <1>3 DEF IsResolved, HasLists
<1>5. \A c \in 1..Len(layers.def) :
        layers.def[c].super = NoSuper \/ layers.def[c].super \in 1..Len(layers.def)
  BY <1>1, <1>2, DefSupersKnown
<1> QED
  BY <1>3, <1>4, <1>5

LEMMA BuildsObject ==
  ASSUME ClassInv, ObjInv, BuildObject
  PROVE  ObjInv'
<1> DEFINE c == LookupByName(layers.def, Item.class)
           cls == layers.def[c]
           base == cls.props
           list == Update(ObjectProps(cls, Item.text), Item.props)
           o == [class |-> c, props |-> list]
           n == Len(objects)
<1>1. /\ phase = "objects" /\ phase' = phase /\ source' = source /\ cursor' = cursor + 1
      /\ layers' = layers /\ objects' = Append(objects, o) /\ cursor <= Len(Objects)
      /\ c # 0 /\ \A i \in 1..Len(Item.props) : HasProp(ObjectProps(cls, Item.text), Item.props[i].sel)
  BY ListsOfPhases DEF BuildObject, At, Advance, AddObject, CanAddObject
<1>2. PhaseInv /\ Alive /\ IsList(objects) /\ cursor \in Nat \ {0} /\ ObjectsMatchTheirClass
  BY <1>1 DEF ClassInv, ObjInv, Alive, PhaseInv
<1>3. Item = Objects[cursor] /\ Objects' = Objects /\ cursor \in 1..Len(Objects)
  <2>1. Len(Objects) \in Nat
    BY <1>2, LengthsAre
  <2> QED
    BY <1>1, <1>2, <2>1, ListsOfPhases DEF Item, Objects
<1>4. n = cursor - 1 /\ n \in Nat
  <2>1. n = cursor - 1
    BY <1>1, <1>2 DEF ObjInv, Progress, Reached
  <2> QED
    BY <1>2, <2>1
<1>5. c \in 1..Len(layers.def) /\ cls.name = Item.class
  BY <1>1, LookupName
<1>6. IsWhole(base)
  BY <1>1, <1>5, ClassesMade
<1>7. IsPropList(Item.props)
  BY <1>2, <1>3, LengthsAre
<1>8. ObjectProps(cls, Item.text) = Update(base, InstanceProps(Item.text, Number(cls.species)))
  BY DEF ObjectProps, InstanceProps
<1>9. /\ Len(list) \in Nat /\ Len(list) = Len(base)
      /\ \A k \in 1..Len(list) :
           /\ list[k].sel = base[k].sel
           /\ list[k].value =
                InstanceValue(list, base, Item.props, Item.text, Number(cls.species), k)
  <2> DEFINE species == Number(cls.species)
             text == Item.text
             own == Item.props
  <2>1. /\ IsWhole(base) /\ IsPropList(own)
        /\ \A m \in 1..Len(own) : HasProp(Update(base, InstanceProps(text, species)), own[m].sel)
        /\ list = Update(Update(base, InstanceProps(text, species)), own)
    BY <1>1, <1>6, <1>7, <1>8
  <2> HIDE DEF species, text, own, base, list
  <2>2. LET l == Update(Update(base, InstanceProps(text, species)), own)
        IN  /\ Len(l) \in Nat /\ Len(l) = Len(base)
            /\ \A k \in 1..Len(l) :
                 /\ l[k].sel = base[k].sel
                 /\ l[k].value = InstanceValue(l, base, own, text, species, k)
    BY <2>1, ObjectIsMade
  <2> QED
    BY <2>1, <2>2 DEF species, text, own
<1> HIDE DEF list, c
<1>10. o.class = c /\ o.props = list
  OBVIOUS
<1> HIDE DEF o
<1>11. IsInstance(o, Item)
  <2>1. SelectorsOf(o.props) = SelectorsOf(cls.props)
    BY <1>9, <1>10 DEF SelectorsOf
  <2>2. \A k \in 1..Len(o.props) : o.props[k].value = ObjectValue(o, Item, k)
    BY <1>9, <1>10 DEF InstanceValue, ObjectValue
  <2> QED
    BY <1>5, <1>10, <2>1, <2>2 DEF IsInstance
<1> HIDE DEF n
<1>12. /\ IsList(objects') /\ Len(objects') = n + 1 /\ objects'[n + 1] = o
       /\ \A k \in 1..n : objects'[k] = objects[k]
  BY <1>1, <1>2, ListAppend DEF n
<1>13. Len(objects') = Progress("objects", Len(Objects))'
  BY <1>1, <1>2, <1>4, <1>12 DEF Progress, Reached
<1>14. \A k \in 1..n : IsInstance(objects[k], Objects[k])
  BY <1>2 DEF ObjectsMatchTheirClass, n
<1>15. \A k \in 1..(n + 1) : IsInstance(objects'[k], Objects[k])
  <2> TAKE k \in 1..(n + 1)
  <2>1. CASE k \in 1..n
    BY <1>12, <1>14, <2>1
  <2>2. CASE k = n + 1
    <3>1. k = cursor
      BY <1>2, <1>4, <2>2
    <3> QED
      BY <1>3, <1>11, <1>12, <2>2, <3>1
  <2> QED
    BY <1>4, <2>1, <2>2
<1>16. ObjectsMatchTheirClass'
  <2>1. \A k \in 1..Len(objects') : IsInstance(objects'[k], Objects'[k])
    BY <1>3, <1>12, <1>15
  <2>2. \A p, item : IsInstance(p, item) => IsInstance(p, item)'
    BY <1>1, SameInstance
  <2> QED
    BY <2>1, <2>2 DEF ObjectsMatchTheirClass
<1> QED
  BY <1>12, <1>13, <1>16 DEF ObjInv

LEMMA ObjectStep == ClassInv /\ ObjInv /\ [Next]_vars => ObjInv'
<1> SUFFICES ASSUME ClassInv, ObjInv, [Next]_vars PROVE ObjInv'
  OBVIOUS
<1>1. PhaseInv /\ source' = source /\ IsList(objects) /\ ObjectsMatchTheirClass
  BY SourceStays DEF ClassInv, ObjInv
<1>2. CASE AddSelector \/ NumberSelectors
  <2>1. phase \in {"selectors", "numbering"} /\ phase' = phase /\ objects' = objects
    BY <1>2 DEF AddSelector, NumberSelectors, At, Advance, Stay, classVars
  <2> QED
    BY <1>1, <2>1, NoObjects DEF Alive
<1>3. CASE AddDecl \/ AddDef \/ SetClassSuper
  <2>1. /\ phase \in {"decls", "defs", "copies", "declSupers", "defSupers", "copySupers"}
        /\ phase' = phase /\ objects' = objects
    BY <1>3 DEF AddDecl, AddDef, SetClassSuper, At, Advance, WriteDecl, WriteDef, SetSuper
  <2> QED
    BY <1>1, <2>1, NoObjects DEF Alive
<1>4. CASE ResolveProperties
  <2>1. /\ phase \in {"declProps", "defProps"} /\ phase' = phase /\ objects' = objects
    BY <1>4 DEF ResolveProperties, At, Advance, Stay, ResolveNext, ResolveSuper, Resolve
  <2> QED
    BY <1>1, <2>1, NoObjects DEF Alive
<1>5. CASE BuildObject
  BY <1>5, BuildsObject
<1>6. CASE EndPhase
  <2>1. /\ phase \in PhaseNames /\ phase # "done" /\ phase' = After(phase) /\ cursor' = 1
        /\ UNCHANGED <<objects, layers>> /\ Alive
        /\ cursor > Len(ListOf(phase)) /\ cursor \in Nat
    BY <1>1, <1>6, PhaseNamesAre DEF EndPhase, Working, PhaseInv, Tables, classVars, Alive
  <2>2. phase' \in PhaseNames /\ PhaseRank(phase') = PhaseRank(phase) + 1
    BY <2>1, RankAfter
  <2>3. Len(Objects) \in Nat /\ Objects' = Objects
    BY <1>1, LengthsAre DEF Objects
  <2>4. phase = "objects" => cursor = Len(Objects) + 1
    <3>1. CursorInv
      BY <2>1 DEF ClassInv
    <3> QED
      BY <2>1, <2>3, <3>1, ListsOfPhases DEF CursorInv
  <2>5. Progress("objects", Len(Objects))' = Progress("objects", Len(Objects))
    <3>1. Reached(phase', 1, "objects", Len(Objects)) = Reached(phase, cursor, "objects", Len(Objects))
      BY <2>1, <2>2, <2>3, <2>4, ReachedNext, PhaseNamesAre, SMTT(30)
    <3> QED
      BY <2>1, <2>3, <3>1 DEF Progress
  <2>6. ObjectsMatchTheirClass'
    BY <1>1, <2>1, SameObjects
  <2> QED
    BY <1>1, <2>1, <2>5, <2>6 DEF ObjInv
<1>7. CASE Fail \/ Crash
  <2>1. phase' \in {"failed", "crashed"} /\ UNCHANGED <<objects, layers>>
    BY <1>7 DEF Fail, Crash, Tables, classVars
  <2>2. ObjectsMatchTheirClass'
    BY <1>1, <2>1, SameObjects
  <2> QED
    BY <1>1, <2>1, <2>2 DEF ObjInv, Alive
<1>8. CASE Terminated \/ UNCHANGED vars
  <2>1. UNCHANGED <<objects, layers, phase, cursor>>
    BY <1>8 DEF Terminated, vars, classVars
  <2>2. ObjectsMatchTheirClass'
    BY <1>1, <2>1, SameObjects
  <2>3. Objects' = Objects
    BY <1>1 DEF Objects
  <2> QED
    BY <1>1, <2>1, <2>2, <2>3 DEF ObjInv, Alive, Progress
<1> QED
  BY <1>2, <1>3, <1>4, <1>5, <1>6, <1>7, <1>8 DEF Next

LEMMA ClassesInvariant == Spec => [](ClassInv /\ ObjInv)
<1>1. Init => ClassInv /\ ObjInv
  BY ClassesBegin, ObjectsBegin
<1>2. ClassInv /\ ObjInv /\ [Next]_vars => (ClassInv /\ ObjInv)'
  BY ClassStep, ObjectStep
<1> QED
  BY <1>1, <1>2, PTL DEF Spec

(* An object has the properties of its class at their places, with the     *)
(* values it gives them itself, those every object has, or those of the    *)
(* class (AddObject in object_table.cpp).                                  *)
THEOREM ObjectsOfTheirClass == Spec => []ObjectsMatchTheirClass
<1>1. ClassInv /\ ObjInv => ObjectsMatchTheirClass
  BY DEF ObjInv
<1> QED
  BY <1>1, ClassesInvariant, PTL

-----------------------------------------------------------------------------
(* What is said of the classes in the end.                                 *)

LEMMA InheritsAsMade ==
  ASSUME NEW c, IsWhole(c.props), IsMadeIn(layers.def, c),
         Len(InheritedIn(layers.def, c)) \in Nat
  PROVE  IsInherited(c)
<1> DEFINE inherited == InheritedIn(layers.def, c)
           list == c.props
<1>1. Inherited(c) = inherited
  BY DEF Inherited, InheritedIn
<1>2. IsMadeOf(list, inherited, c.own, Number(c.species), SuperIn(layers.def, c))
  BY DEF IsMadeIn
<1>3. \A k : ClassValue(c, k) =
               ListValue(list, inherited, c.own, Number(c.species), SuperIn(layers.def, c), k)
  BY <1>1 DEF ClassValue, ListValue, SuperIn
<1>4. IsDistinct(list) /\ Len(list) \in Nat
  BY DEF IsWhole, HasBasics, IsPropList
<1> HIDE DEF list, inherited
<1>5. IsInjective(SelectorsOf(list))
  BY <1>4 DEF IsInjective, SelectorsOf, IsDistinct
<1>6. /\ Len(inherited) <= Len(list) /\ Len(inherited) \in Nat
      /\ \A k \in 1..Len(inherited) : list[k].sel = inherited[k].sel
      /\ \A k \in 1..Len(list) :
           k \in 1..Len(inherited) \/ \E m \in 1..Len(c.own) : c.own[m].sel = list[k].sel
      /\ \A m \in 1..Len(c.own) : \E k \in 1..Len(list) : list[k].sel = c.own[m].sel
  BY <1>2 DEF IsMadeOf, inherited
<1>7. \A props, sel : sel \in Range(SelectorsOf(props)) <=> \E k \in 1..Len(props) : props[k].sel = sel
  BY DEF Range, SelectorsOf
<1>8. Range(SelectorsOf(list)) = Range(SelectorsOf(inherited)) \cup Range(SelectorsOf(c.own))
  <2>1. ASSUME NEW sel \in Range(SelectorsOf(list))
        PROVE  sel \in Range(SelectorsOf(inherited)) \cup Range(SelectorsOf(c.own))
    <3>1. PICK k \in 1..Len(list) : list[k].sel = sel
      BY <1>7
    <3>2. \/ \E m \in 1..Len(inherited) : inherited[m].sel = sel
          \/ \E m \in 1..Len(c.own) : c.own[m].sel = sel
      BY <1>6, <3>1
    <3> QED
      BY <1>7, <3>2
  <2>2. ASSUME NEW sel \in Range(SelectorsOf(inherited)) \cup Range(SelectorsOf(c.own))
        PROVE  sel \in Range(SelectorsOf(list))
    <3>1. \/ \E m \in 1..Len(inherited) : inherited[m].sel = sel
          \/ \E m \in 1..Len(c.own) : c.own[m].sel = sel
      BY <1>7
    <3>2. \A m \in 1..Len(inherited) : m \in 1..Len(list)
      BY <1>4, <1>6
    <3>3. CASE \E m \in 1..Len(inherited) : inherited[m].sel = sel
      <4>1. PICK m \in 1..Len(inherited) : inherited[m].sel = sel
        BY <3>3
      <4>2. m \in 1..Len(list) /\ list[m].sel = sel
        BY <1>6, <3>2, <4>1
      <4>. QED
        BY <1>7, <4>2
    <3>4. CASE \E m \in 1..Len(c.own) : c.own[m].sel = sel
      <4>1. PICK m \in 1..Len(c.own) : c.own[m].sel = sel
        BY <3>4
      <4>2. PICK k \in 1..Len(list) : list[k].sel = c.own[m].sel
        BY <1>6
      <4>. QED
        BY <1>7, <4>1, <4>2
    <3> QED
      BY <3>1, <3>3, <3>4
  <2> QED
    BY <2>1, <2>2
<1>9. \A k \in 1..Len(list) : list[k].value = ClassValue(c, k)
  BY <1>2, <1>3 DEF IsMadeOf
<1> QED
  BY <1>1, <1>5, <1>6, <1>8, <1>9 DEF IsInherited, list

LEMMA InheritedAtEnd == ClassInv => PropertiesAreInherited
<1> SUFFICES ASSUME ClassInv, phase \in {"objects", "done"}, NEW i \in 1..Len(layers.def)
             PROVE  IsInherited(layers.def[i])
  BY DEF PropertiesAreInherited, Built
<1> DEFINE c == layers.def[i]
<1>1. \A k \in 1..Len(layers.def) :
        /\ IsWhole(layers.def[k].props) /\ IsMadeIn(layers.def, layers.def[k])
        /\ layers.def[k].super = NoSuper \/ layers.def[k].super \in 1..Len(layers.def)
  BY ClassesMade
<1>2. HasBasics(InheritedIn(layers.def, c))
  BY <1>1, BasicIs DEF InheritedIn, IsWhole
<1>3. Len(InheritedIn(layers.def, c)) \in Nat
  <2> DEFINE l == InheritedIn(layers.def, c)
  <2>1. IsPropList(l)
    BY <1>2 DEF HasBasics
  <2> HIDE DEF l
  <2> QED
    BY <2>1 DEF IsPropList
<1> HIDE DEF c
<1> QED
  BY <1>1, <1>3, InheritsAsMade DEF c

LEMMA ConcatIs ==
  ASSUME NEW l, IsList(l), NEW m, IsList(m)
  PROVE  /\ Len(l) \in Nat /\ Len(m) \in Nat /\ Len(l \o m) = Len(l) + Len(m)
         /\ \A i \in 1..Len(l) : (l \o m)[i] = l[i]
         /\ \A i \in 1..Len(m) : (l \o m)[Len(l) + i] = m[i]
<1> DEFINE R == Range(l)
           S == Range(m)
<1>1. l \in Seq(R) /\ m \in Seq(S)
  BY DEF IsList
<1> HIDE DEF R, S
<1>2. Len(l) \in Nat /\ l = [i \in 1..Len(l) |-> l[i]] /\ \A i \in 1..Len(l) : l[i] \in R \cup S
  BY <1>1
<1>3. Len(m) \in Nat /\ m = [i \in 1..Len(m) |-> m[i]] /\ \A i \in 1..Len(m) : m[i] \in R \cup S
  BY <1>1
<1>4. l \in Seq(R \cup S) /\ m \in Seq(R \cup S)
  BY <1>2, <1>3, IsSeqOver
<1> QED
  BY <1>4

(* The item of a name is the first one.                                    *)
LEMMA ItemIs ==
  ASSUME NEW name, NEW n \in 1..Len(Defs \o Decls), (Defs \o Decls)[n].name = name,
         Len(Defs \o Decls) \in Nat,
         \A k \in 1..(n - 1) : (Defs \o Decls)[k].name # name
  PROVE  ItemOf(name) = (Defs \o Decls)[n]
<1> DEFINE all == Defs \o Decls
           IsFirst(i) == all[i].name = name /\ \A k \in 1..(i - 1) : all[k].name # name
<1>1. IsFirst(n) /\ n \in 1..Len(all) /\ Len(all) \in Nat
  OBVIOUS
<1> HIDE DEF all
<1>2. ASSUME NEW i \in 1..Len(all), IsFirst(i) PROVE i = n
  <2>1. i < n => i \in 1..(n - 1)
    BY <1>1
  <2>2. n < i => n \in 1..(i - 1)
    BY <1>1
  <2> QED
    BY <1>1, <1>2, <2>1, <2>2
<1>3. (CHOOSE i \in 1..Len(all) : IsFirst(i)) = n
  <2> HIDE DEF IsFirst
  <2> QED
    BY <1>1, <1>2
<1> QED
  BY <1>3 DEF ItemOf, all

LEMMA SupersAtEnd == ClassInv => SupersAreAsWritten
<1> SUFFICES ASSUME ClassInv, phase \in {"objects", "done"}, ~SomeLost
             PROVE  /\ DeclaredClassesKept
                    /\ \A i \in 1..Len(layers.def) :
                         /\ SuperName(ItemOf(layers.def[i].name)) =
                              IF layers.def[i].super = NoSuper THEN NoSuper
                              ELSE layers.def[layers.def[i].super].name
                         /\ \A k \in 1..Len(layers.def) :
                              layers.def[k].species = layers.def[i].species => k = i
  BY DEF SupersAreAsWritten, Built
<1> DEFINE def == layers.def
           decl == layers.decl
           d == Len(Defs)
           n == Len(Copies)
           m == Len(Decls)
           all == Defs \o Decls
<1>1. PhaseInv /\ TablesInv /\ DeclInv /\ DefInv
  BY DEF ClassInv, Alive
<1>2. IsSource(source) /\ IsList(Defs) /\ IsList(Decls)
  BY <1>1 DEF PhaseInv, IsSource, Defs, Decls
<1>3. /\ d \in Nat /\ n \in Nat /\ m \in Nat
      /\ \A k \in 1..m : Decls[k].kind = "classdef"
      /\ \A k \in 1..d : Defs[k].kind = "class"
  BY <1>1, LengthsAre
<1>4. /\ DeclsDone = m /\ DeclSupersDone = m /\ DefsDone = d /\ CopiesDone = n
      /\ DefSupersDone = d /\ CopySupersDone = n
  BY ReachedIs DEF DeclsDone, DeclSupersDone, DefsDone, CopiesDone, DefSupersDone,
     CopySupersDone, Progress
<1>5. /\ Len(decl) = m /\ NoTwins(decl)
      /\ \A k \in 1..m : /\ decl[k].name = Decls[k].name /\ decl[k].species = Decls[k].species
                         /\ SuperHasNumber(decl, k, Decls[k].super)
  BY <1>1, <1>4 DEF DeclInv, TablesInv, IsMadeFrom
<1>6. /\ Len(def) = d + n /\ NoTwins(def)
      /\ \A k \in 1..d : /\ def[k].name = Defs[k].name /\ SuperHasName(def, k, Defs[k].super)
                         /\ \A j \in 1..m : Decls[j].name = Defs[k].name =>
                                              def[k].species = Decls[j].species
      /\ \A j \in 1..n : /\ def[d + j].name = Copies[j].name
                         /\ def[d + j].species = Copies[j].species
                         /\ SuperHasNumber(def, d + j, Copies[j].super)
      /\ defSpecies = {def[k].species : k \in 1..d}
  BY <1>1, <1>4 DEF DefInv, TablesInv, IsDefined, IsCopied, IsMadeFrom
<1>7. /\ \A j \in 1..n : \E k \in 1..m : Copies[j] = Decls[k]
      /\ \A k \in 1..m : Decls[k].species \notin defSpecies => \E j \in 1..n : Copies[j] = Decls[k]
  BY <1>2, CopiesAre
<1>8. \A i \in 1..m : ~IsLost(Decls[i])
  BY DEF SomeLost
<1>9. /\ Len(all) = d + m
      /\ \A k \in 1..d : all[k] = Defs[k]
      /\ \A k \in 1..m : all[d + k] = Decls[k]
  BY <1>2, ConcatIs
<1> HIDE DEF def, decl, d, n, m, all
<1>10. /\ \A k \in 1..d : k \in 1..Len(def)
       /\ \A j \in 1..n : d + j \in 1..Len(def)
       /\ \A i \in 1..Len(def) : i \in 1..d \/ (i - d \in 1..n /\ d + (i - d) = i)
  BY <1>3, <1>6
<1>11. ASSUME NEW i \in 1..m
       PROVE  \E c \in 1..Len(def) : def[c].name = Decls[i].name /\ def[c].species = Decls[i].species
  <2>1. \/ \E k \in 1..d : Defs[k].name = Decls[i].name
        \/ \A k \in 1..Len(def) : def[k].species = Decls[i].species => def[k].name = Decls[i].name
    BY <1>8 DEF IsLost, def, d
  <2>2. CASE \E k \in 1..d : Defs[k].name = Decls[i].name
    <3>1. PICK k \in 1..d : Defs[k].name = Decls[i].name
      BY <2>2
    <3> QED
      BY <1>6, <1>10, <3>1
  <2>3. CASE \A k \in 1..Len(def) : def[k].species = Decls[i].species => def[k].name = Decls[i].name
    <3>1. CASE Decls[i].species \in defSpecies
      <4>1. PICK k \in 1..d : def[k].species = Decls[i].species
        BY <1>6, <3>1
      <4> QED
        BY <1>10, <2>3, <4>1
    <3>2. CASE Decls[i].species \notin defSpecies
      <4>1. PICK j \in 1..n : Copies[j] = Decls[i]
        BY <1>7, <3>2
      <4> QED
        BY <1>6, <1>10, <4>1
    <3> QED
      BY <3>1, <3>2
  <2> QED
    BY <2>1, <2>2, <2>3
<1>12. DeclaredClassesKept
  BY <1>11 DEF DeclaredClassesKept, def, m
<1>13. \A i, k \in 1..Len(def) : def[k].species = def[i].species => k = i
  BY <1>6 DEF NoTwins
<1>14. NoSuper \notin 1..Len(def)
  <2>1. NoSuper \notin Nat
    BY ClassAssumption
  <2> QED
    BY <2>1
<1>15. ASSUME NEW i \in 1..d
       PROVE  SuperName(ItemOf(def[i].name)) =
                IF def[i].super = NoSuper THEN NoSuper ELSE def[def[i].super].name
  <2>1. \A k \in 1..(i - 1) : all[k].name # def[i].name
    <3> SUFFICES ASSUME NEW k \in 1..(i - 1), all[k].name = def[i].name PROVE FALSE
      OBVIOUS
    <3>1. k \in 1..d /\ k # i
      BY <1>3
    <3>2. def[k].name = def[i].name /\ k \in 1..Len(def) /\ i \in 1..Len(def)
      BY <1>6, <1>9, <1>10, <3>1
    <3> QED
      BY <1>6, <3>1, <3>2 DEF NoTwins
  <2>2. i \in 1..Len(all) /\ Len(all) \in Nat
    BY <1>3, <1>9
  <2>3. ItemOf(def[i].name) = Defs[i]
    BY <1>6, <1>9, <2>1, <2>2, ItemIs DEF all
  <2>4. SuperName(Defs[i]) = Defs[i].super
    BY <1>3 DEF SuperName
  <2>5. SuperHasName(def, i, Defs[i].super)
    BY <1>6
  <2>6. Defs[i].super = IF def[i].super = NoSuper THEN NoSuper ELSE def[def[i].super].name
    BY <1>14, <2>5 DEF SuperHasName
  <2> QED
    BY <2>3, <2>4, <2>6
<1>16. ASSUME NEW j \in 1..n
       PROVE  SuperName(ItemOf(def[d + j].name)) =
                IF def[d + j].super = NoSuper THEN NoSuper ELSE def[def[d + j].super].name
  <2> DEFINE c == def[d + j]
  <2>1. PICK k \in 1..m : Copies[j] = Decls[k]
    BY <1>7
  <2>2. c.name = Decls[k].name /\ SuperHasNumber(def, d + j, Decls[k].super)
    BY <1>6, <2>1
  <2> DEFINE place == d + k
             name == c.name
  <2>3. \A x \in 1..(place - 1) : all[x].name # name
    <3> SUFFICES ASSUME NEW x \in 1..(place - 1), all[x].name = name PROVE FALSE
      OBVIOUS
    <3>1. CASE x \in 1..d
      <4>1. x \in 1..Len(def) /\ d + j \in 1..Len(def)
        BY <1>10, <3>1
      <4>2. x # d + j
        <5> HIDE DEF c
        <5> QED
          BY <1>3, <3>1
      <4>3. def[x].name = c.name
        BY <1>6, <1>9, <3>1
      <4> QED
        BY <1>6, <4>1, <4>2, <4>3 DEF NoTwins
    <3>2. CASE x \notin 1..d
      <4>1. x - d \in 1..(k - 1) /\ d + (x - d) = x
        BY <1>3, <3>2
      <4>2. x - d \in 1..m /\ x - d # k
        BY <1>3, <4>1
      <4>3. Decls[x - d].name = Decls[k].name
        BY <1>9, <2>2, <4>1, <4>2
      <4> QED
        BY <1>5, <4>2, <4>3 DEF NoTwins
    <3> QED
      BY <3>1, <3>2
  <2>4. /\ d + k \in 1..Len(all) /\ Len(all) \in Nat
        /\ all[d + k] = Decls[k]
    BY <1>3, <1>9
  <2>5. ItemOf(c.name) = Decls[k]
    <3>1. place \in 1..Len(all) /\ all[place].name = name
      BY <2>2, <2>4
    <3> HIDE DEF name, place
    <3>2. ItemOf(name) = all[place]
      BY <2>3, <2>4, <3>1, ItemIs, ZenonT(30) DEF all
    <3> QED
      BY <2>4, <3>2 DEF name, place
  <2>6. CASE Decls[k].super = NoSuper
    <3>1. SuperName(Decls[k]) = NoSuper /\ c.super = NoSuper
      BY <2>2, <2>6 DEF SuperName, SuperHasNumber
    <3> QED
      BY <2>5, <3>1
  <2>7. CASE Decls[k].super # NoSuper
    <3> DEFINE s == Decls[k].super
    <3>1. c.super \in 1..Len(def) /\ def[c.super].species = s
      BY <2>2, <2>7 DEF SuperHasNumber
    <3>2. PICK x \in 1..m : Decls[x].species = s
      BY <1>5, <2>7 DEF SuperHasNumber
    <3>3. \A y \in 1..m : Decls[y].species = s => y = x
      BY <1>5, <3>2 DEF NoTwins
    <3>4. (CHOOSE y \in 1..m : Decls[y].species = s) = x
      <4> HIDE DEF s
      <4> QED
        BY <3>2, <3>3
    <3>5. SuperName(Decls[k]) = Decls[x].name
      <4>1. Decls[k].kind # "class"
        BY <1>3
      <4> QED
        BY <2>7, <3>4, <4>1 DEF SuperName, m
    <3>6. PICK y \in 1..Len(def) : def[y].name = Decls[x].name /\ def[y].species = Decls[x].species
      BY <1>11
    <3>7. y = c.super
      BY <1>13, <3>1, <3>2, <3>6
    <3> QED
      BY <1>14, <2>5, <3>1, <3>5, <3>6, <3>7
  <2> QED
    BY <2>6, <2>7
<1>17. \A i \in 1..Len(def) :
         SuperName(ItemOf(def[i].name)) =
           IF def[i].super = NoSuper THEN NoSuper ELSE def[def[i].super].name
  <2> TAKE i \in 1..Len(def)
  <2>1. CASE i \in 1..d
    BY <1>15, <2>1
  <2>2. CASE i - d \in 1..n /\ d + (i - d) = i
    <3>1. SuperName(ItemOf(def[d + (i - d)].name)) =
            IF def[d + (i - d)].super = NoSuper THEN NoSuper ELSE def[def[d + (i - d)].super].name
      BY <1>16, <2>2
    <3> QED
      BY <2>2, <3>1
  <2> QED
    BY <1>10, <2>1, <2>2
<1> QED
  BY <1>12, <1>13, <1>17 DEF def

(* A class has the super its item names, no class has the number of        *)
(* another, and its list is that of its super, in its order, with its own  *)
(* values and then its own properties (Build in class_table.cpp).          *)
THEOREM ClassesFromItems == Spec => []ClassesAreAsWritten
<1>1. ClassInv /\ ObjInv => ClassesAreAsWritten
  BY InheritedAtEnd, SupersAtEnd DEF ClassesAreAsWritten
<1> QED
  BY <1>1, ClassesInvariant, PTL

=============================================================================
