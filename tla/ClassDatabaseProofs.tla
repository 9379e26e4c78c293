------------------------ MODULE ClassDatabaseProofs ------------------------
(***************************************************************************)
(* Proofs about the class database, for any number of runs, scripts, names *)
(* and numbers.  That a compiled script keeps its numbers needs three      *)
(* invariants on top of one another: what a run has in hand (WorkInv), who *)
(* is inside (Locked), and, for the one that is, how its memory agrees     *)
(* with the two files and with the scripts that rely on them (AgreeInv).   *)
(***************************************************************************)
EXTENDS ClassDatabase, FiniteSetTheorems, TLAPS

(* The least number that is free exists: of the sets of free numbers up to *)
(* a free number, one has no smaller one within it.                        *)
LEMMA LeastFreeIsFree ==
  ASSUME NEW taken, NEW limit \in Nat, ~(0 .. limit - 1 \subseteq taken)
  PROVE  /\ LeastFree(taken, 0 .. limit - 1) \in (0 .. limit - 1) \ taken
         /\ \A n \in (0 .. limit - 1) \ taken : LeastFree(taken, 0 .. limit - 1) <= n
<1> DEFINE all == 0 .. limit - 1
           T == all \ taken
           Upto(n) == {m \in T : m <= n}
           Bounded == {Upto(n) : n \in T}
<1>1. T \subseteq Int /\ T # {}
  OBVIOUS
<1>2. IsFiniteSet(all)
  BY FS_Interval
<1>3. IsWellFoundedOn(StrictSubsetOrdering(all), FiniteSubsetsOf(all))
  BY FS_StrictSubsetOrderingWellFounded
<1>4. Bounded \subseteq FiniteSubsetsOf(all) /\ Bounded # {}
  <2>1. FiniteSubsetsOf(all) = SUBSET all
    BY <1>2, FS_FiniteSubsetsOfFinite
  <2>2. Bounded \subseteq SUBSET all
    OBVIOUS
  <2>3. PICK n \in T : TRUE
    BY <1>1
  <2>4. Upto(n) \in Bounded
    OBVIOUS
  <2> HIDE DEF Bounded
  <2> QED BY <2>1, <2>2, <2>4
<1>5. PICK X \in Bounded : \A Y \in Bounded : ~(<<Y, X>> \in StrictSubsetOrdering(all))
  BY <1>3, <1>4, WFMin
<1>6. PICK x \in T : X = Upto(x)
  BY <1>5
<1>7. ASSUME NEW y \in T PROVE x <= y
  <2>1. SUFFICES ASSUME y < x PROVE FALSE
    BY <1>1
  <2>2. Upto(y) \in Bounded /\ Upto(y) \subseteq Upto(x) /\ x \in Upto(x) /\ x \notin Upto(y)
    BY <1>1, <2>1
  <2>3. <<Upto(y), Upto(x)>> \in StrictSubsetOrdering(all)
    BY <2>2 DEF StrictSubsetOrdering
  <2> QED BY <1>5, <1>6, <2>2, <2>3
<1> QED BY <1>7 DEF LeastFree

-----------------------------------------------------------------------------
Updating == {"update", "updateClasses"} \cup Writing
Emitting == {"assemble"} \cup Updating
Working == {"parse"} \cup Emitting

(* What a run has in hand: a source, whose script has a number once code   *)
(* is made of it; code, which uses classes that are defined, if there were *)
(* no errors.                                                              *)
InHand(p) ==
  /\ pc[p] \in Working => files[p] # <<>> /\ used[p] \cap Class \subseteq Defined(classes[p])
  /\ pc[p] \in Emitting => ScriptOf(p) \in Script
  /\ pc[p] = "parse" /\ curClass[p] # None => curClass[p] \in Defined(classes[p])
  /\ (\E class \in Class : classes[p][class] = Hollow) => errors[p]
  /\ pc[p] \in Updating => ~errors[p]

WorkInv == TypeOK /\ \A p \in Proc : InHand(p)

(* A run that only moves on, or away from its work.                        *)
LEMMA MoveKeepsWork ==
  ASSUME WorkInv, NEW p \in Proc, NEW label \in Labels, Goto(p, label),
         label \in Working => pc[p] \in Working,
         label \in Emitting => pc[p] \in Emitting,
         label # "parse",
         label \in Updating => pc[p] \in Updating,
         UNCHANGED <<files, used, classes, curClass, errors>>
  PROVE  pc' \in [Proc -> Labels] /\ \A q \in Proc : InHand(q)'
<1>1. pc \in [Proc -> Labels] /\ pc' = [pc EXCEPT ![p] = label]
  BY DEF Goto, WorkInv, TypeOK
<1>2. ASSUME NEW q \in Proc PROVE InHand(q)'
  <2>1. InHand(q)
    BY DEF WorkInv
  <2>2. CASE q = p
    BY <1>1, <2>1, <2>2 DEF InHand, ScriptOf, Defined
  <2>3. CASE q # p
    BY <1>1, <2>1, <2>3 DEF InHand, ScriptOf, Defined
  <2> QED BY <2>2, <2>3
<1> QED BY <1>1, <1>2

LEMMA LockStep ==
  ASSUME WorkInv, NEW p \in Proc, Lock(p) \/ Retry(p) \/ Unlock(p) \/ Fatal(p) \/ Crash(p)
  PROVE  WorkInv'
<1>1. PICK label \in {"readSelectors", "waiting", "done", "failed", "crashed"} : Goto(p, label)
  BY DEF Lock, Retry, Unlock, Fatal, Crash
<1>2. UNCHANGED <<disk, flags, parser, memory, committed, moved>>
  BY DEF Lock, Retry, Unlock, Fatal, Crash, history
<1>3. lock' \in Proc \cup {Nobody} /\ lost' \in BOOLEAN
  BY DEF Lock, Retry, Unlock, Fatal, Crash, LockFile, Release, WorkInv, TypeOK, history
<1>4. pc' \in [Proc -> Labels] /\ \A q \in Proc : InHand(q)'
  BY <1>1, <1>2, MoveKeepsWork
     DEF Labels, Working, Emitting, Updating, Writing, Ended, parser, memory
<1> QED BY <1>2, <1>3, <1>4 DEF WorkInv, TypeOK, disk, flags, parser, memory

(* What a run has in hand is its own.                                      *)
Untouched(q) ==
  /\ pc'[q] = pc[q] /\ files'[q] = files[q] /\ used'[q] = used[q]
  /\ classes'[q] = classes[q] /\ curClass'[q] = curClass[q] /\ errors'[q] = errors[q]

LEMMA OthersKeepWork ==
  ASSUME WorkInv, NEW p \in Proc, InHand(p)', \A q \in Proc \ {p} : Untouched(q)
  PROVE  \A q \in Proc : InHand(q)'
<1> SUFFICES ASSUME NEW q \in Proc, q # p PROVE InHand(q)'
  OBVIOUS
<1>1. InHand(q) /\ Untouched(q)
  BY DEF WorkInv
<1> QED BY <1>1 DEF Untouched, InHand, ScriptOf, Defined

LEMMA ReadSelectorsStep ==
  ASSUME WorkInv, NEW p \in Proc, ReadSelectors(p) PROVE WorkInv'
<1>1. CASE Fatal(p)
  BY <1>1, LockStep
<1>2. CASE Goto(p, "readClasses") /\ UNCHANGED <<lock, disk, flags, parser, classes, dangling,
                                                  classAdded, errors, history>>
  <2>1. pc' \in [Proc -> Labels] /\ \A q \in Proc : InHand(q)'
    BY <1>2, MoveKeepsWork DEF Labels, Working, Emitting, Updating, Writing, parser
  <2>2. CASE InitSelectors(p, selectorFile) /\ selectorFile # Torn
    <3> DEFINE read == [name \in Selector |-> IF selectorFile[name] # None
                                              THEN selectorFile[name] ELSE NoNames[name]]
               taken == {selectorFile[name] : name \in {n \in Selector \ DOMAIN Builtin :
                                                          selectorFile[n] # None}}
    <3>1. selectorFile \in SelectorMap
      BY <2>2 DEF WorkInv, TypeOK
    <3>2. \A name \in Selector : NoNames[name] \in Numbers \cup {None}
      BY NumbersAssumption DEF NoNames
    <3>3. read \in SelectorMap /\ taken \subseteq Numbers
      BY <3>1, <3>2 DEF SelectorMap
    <3>4. /\ numbers' = [numbers EXCEPT ![p] = read]
          /\ claimed' = [claimed EXCEPT ![p] = claimed[p] \cup taken]
          /\ selectorAdded' = [selectorAdded EXCEPT ![p] = FALSE]
      BY <2>2 DEF InitSelectors
    <3> HIDE DEF read, taken
    <3>5. /\ numbers' \in [Proc -> SelectorMap] /\ claimed' \in [Proc -> SUBSET Numbers]
          /\ selectorAdded' \in [Proc -> BOOLEAN]
      BY <3>3, <3>4 DEF WorkInv, TypeOK
    <3> QED BY <1>2, <2>1, <3>5 DEF WorkInv, TypeOK, disk, flags, parser, history
  <2>3. CASE UNCHANGED memory
    BY <1>2, <2>1, <2>3 DEF WorkInv, TypeOK, disk, flags, parser, history, memory
  <2> QED BY <1>1, <1>2, <2>1, <2>2, <2>3 DEF ReadSelectors
<1> QED BY <1>1, <1>2 DEF ReadSelectors, memory

LEMMA ReadClassesStep ==
  ASSUME WorkInv, NEW p \in Proc, ReadClasses(p) PROVE WorkInv'
<1>1. CASE Fatal(p)
  BY <1>1, LockStep
<1>2. CASE Goto(p, "next") /\ UNCHANGED <<lock, disk, flags, parser, memory, history>>
  <2>1. pc' \in [Proc -> Labels] /\ \A q \in Proc : InHand(q)'
    BY <1>2, MoveKeepsWork DEF Labels, Working, Emitting, Updating, Writing, parser, memory
  <2> QED BY <1>2, <2>1 DEF WorkInv, TypeOK, disk, flags, parser, history, memory
<1>3. CASE /\ classFile # Torn /\ DefineClasses(p, classFile) /\ Goto(p, "next")
           /\ UNCHANGED <<lock, disk, flags, parser, numbers, claimed, dangling,
                          selectorAdded, classAdded, history>>
  <2> DEFINE read == [class \in Class |-> IF class \in Defined(classFile)
                            THEN [classFile[class] EXCEPT !.own = classFile[class].own \cap Known(p)]
                            ELSE None]
             missed == \E class \in Defined(classFile) : ~(classFile[class].own \subseteq Known(p))
  <2>1. classFile \in ClassMap /\ Hollow # None /\ Hollow \notin ClassRec
    BY <1>3, NamesAssumption DEF WorkInv, TypeOK
  <2>2. \A class \in Defined(classFile) :
          [classFile[class] EXCEPT !.own = classFile[class].own \cap Known(p)] \in ClassRec
    BY <2>1 DEF Defined, ClassRec, ClassMap
  <2>3. read \in [Class -> ClassRec \cup {None}]
    BY <2>1, <2>2 DEF ClassMap
  <2>4. /\ classes' = [classes EXCEPT ![p] = read] /\ errors' = [errors EXCEPT ![p] = missed]
        /\ pc' = [pc EXCEPT ![p] = "next"]
    BY <1>3 DEF DefineClasses, Goto
  <2>5. missed \in BOOLEAN
    OBVIOUS
  <2> HIDE DEF read, missed
  <2>6. /\ classes' \in [Proc -> [Class -> ClassRec \cup {None, Hollow}]] /\ classes'[p] = read
        /\ errors' \in [Proc -> BOOLEAN]
        /\ pc' \in [Proc -> Labels] /\ pc'[p] = "next"
        /\ \A q \in Proc \ {p} : Untouched(q)
    BY <1>3, <2>3, <2>4, <2>5 DEF WorkInv, TypeOK, Labels, Untouched, parser
  <2>7. InHand(p)'
    BY <2>1, <2>3, <2>6 DEF InHand, Working, Emitting, Updating, Writing
  <2>8. \A q \in Proc : InHand(q)'
    BY <2>6, <2>7, OthersKeepWork
  <2> QED BY <1>3, <2>6, <2>8 DEF WorkInv, TypeOK, disk, flags, parser, history
<1> QED BY <1>1, <1>2, <1>3 DEF ReadClasses

LEMMA NextFileStep ==
  ASSUME WorkInv, NEW p \in Proc, NextFile(p) PROVE WorkInv'
<1>1. Head(files[p]) \in File
  BY DEF NextFile, WorkInv, TypeOK
<1>2. Head(files[p]).body \in Seq(Statement)
  BY <1>1 DEF File
<1>3. /\ body' \in [Proc -> Seq(Statement)]
      /\ used' \in [Proc -> SUBSET (Selector \cup Class)] /\ used'[p] = {}
      /\ curClass' \in [Proc -> Class \cup {None}] /\ curClass'[p] = None
      /\ pc' \in [Proc -> Labels] /\ pc'[p] = "parse"
      /\ \A q \in Proc \ {p} : Untouched(q)
  BY <1>2 DEF NextFile, Goto, WorkInv, TypeOK, Labels, Untouched, memory
<1>4. InHand(p)'
  BY <1>3 DEF WorkInv, InHand, Working, Emitting, Updating, Writing, NextFile, memory
<1>5. \A q \in Proc : InHand(q)'
  BY <1>3, <1>4, OthersKeepWork
<1> QED BY <1>3, <1>5 DEF NextFile, WorkInv, TypeOK, disk, flags, memory, history

(* Statements of a script.                                                 *)
LEMMA StatementTypes ==
  ASSUME WorkInv, NEW p \in Proc, NEW kind, Statements(p, kind)
  PROVE  /\ Head(body[p]) \in Statement /\ Tail(body[p]) \in Seq(Statement)
         /\ kind \in {"send", "declare"} => Head(body[p]).name \in Selector
         /\ kind = "class" => /\ Head(body[p]).name \in Class
                              /\ Head(body[p]).super \in Class \cup {RootObj}
         /\ Head(files[p]) \in File /\ files[p] # <<>>
         /\ pc[p] = "parse"
<1>1. Head(body[p]) \in Statement /\ Tail(body[p]) \in Seq(Statement) /\ Head(body[p]).kind = kind
  BY DEF Statements, WorkInv, TypeOK
<1>2. files[p] # <<>> /\ files[p] \in Seq(File) /\ pc[p] = "parse"
  BY DEF Statements, WorkInv, TypeOK, InHand, Working
<1>3. Head(files[p]) \in File
  BY <1>2
<1> QED BY <1>1, <1>2, <1>3 DEF Statement

LEMMA NextStatementTypes ==
  ASSUME WorkInv, NEW p \in Proc, NEW kind, Statements(p, kind), NextStatement(p)
  PROVE  body' \in [Proc -> Seq(Statement)]
BY StatementTypes DEF NextStatement, WorkInv, TypeOK

(* A name that is used gets a number that is free.                         *)
LEMMA UseSelectorTypes ==
  ASSUME WorkInv, NEW p \in Proc, NEW name \in Selector, UseSelector(p, name)
  PROVE  /\ used' = [used EXCEPT ![p] = used[p] \cup {name}]
         /\ used' \in [Proc -> SUBSET (Selector \cup Class)]
         /\ numbers' \in [Proc -> SelectorMap]
         /\ claimed' \in [Proc -> SUBSET Numbers]
         /\ selectorAdded' \in [Proc -> BOOLEAN]
<1>1. used' = [used EXCEPT ![p] = used[p] \cup {name}]
  BY DEF UseSelector
<1>2. used' \in [Proc -> SUBSET (Selector \cup Class)]
  BY <1>1 DEF WorkInv, TypeOK
<1>3. CASE UNCHANGED <<numbers, claimed, selectorAdded>>
  BY <1>1, <1>2, <1>3 DEF WorkInv, TypeOK
<1>4. CASE claimed[p] # Numbers /\ InstallSelector(p, name)
  <2>1. NewSelectorNum(p) \in Numbers
    <3>1. claimed[p] \subseteq Numbers
      BY DEF WorkInv, TypeOK
    <3>2. ~(0 .. SelectorLimit - 1 \subseteq claimed[p])
      BY <1>4, <3>1 DEF Numbers
    <3> QED BY <3>2, LeastFreeIsFree, NumbersAssumption DEF NewSelectorNum, Numbers
  <2>2. [numbers[p] EXCEPT ![name] = NewSelectorNum(p)] \in SelectorMap
    BY <2>1 DEF SelectorMap, WorkInv, TypeOK
  <2>3. numbers' = [numbers EXCEPT ![p] = [numbers[p] EXCEPT ![name] = NewSelectorNum(p)]]
    BY <1>4 DEF InstallSelector
  <2>4. numbers' \in [Proc -> SelectorMap]
    BY <2>2, <2>3 DEF WorkInv, TypeOK
  <2>5. claimed' \in [Proc -> SUBSET Numbers] /\ selectorAdded' \in [Proc -> BOOLEAN]
    BY <1>4, <2>1 DEF InstallSelector, WorkInv, TypeOK
  <2> QED BY <1>1, <1>2, <2>4, <2>5
<1> QED BY <1>3, <1>4 DEF UseSelector

LEMMA SendStep ==
  ASSUME WorkInv, NEW p \in Proc, Send(p) PROVE WorkInv'
<1>1. CASE Fatal(p)
  BY <1>1, LockStep
<1> DEFINE name == Head(body[p]).name
<1>2. CASE /\ UseSelector(p, name) /\ NextStatement(p)
           /\ UNCHANGED <<lock, disk, pc, flags, files, curClass, classes, dangling,
                          classAdded, errors, history>>
  <2>1. name \in Selector /\ Statements(p, "send")
    BY StatementTypes DEF Send
  <2> HIDE DEF name
  <2>2. body' \in [Proc -> Seq(Statement)]
    BY <1>2, <2>1, NextStatementTypes
  <2>3. /\ used' = [used EXCEPT ![p] = used[p] \cup {name}]
        /\ used' \in [Proc -> SUBSET (Selector \cup Class)]
        /\ numbers' \in [Proc -> SelectorMap]
        /\ claimed' \in [Proc -> SUBSET Numbers]
        /\ selectorAdded' \in [Proc -> BOOLEAN]
    BY <1>2, <2>1, UseSelectorTypes
  <2>4. used'[p] \cap Class = used[p] \cap Class
    BY <2>1, <2>3, NamesAssumption DEF WorkInv, TypeOK
  <2>5. InHand(p)
    BY DEF WorkInv
  <2>6. InHand(p)'
    BY <1>2, <2>4, <2>5 DEF InHand, ScriptOf, Defined
  <2>7. \A q \in Proc \ {p} : Untouched(q)
    BY <1>2, <2>3 DEF Untouched, WorkInv, TypeOK
  <2>8. \A q \in Proc : InHand(q)'
    BY <2>6, <2>7, OthersKeepWork
  <2> QED BY <1>2, <2>2, <2>3, <2>8 DEF WorkInv, TypeOK, disk, flags, history
<1> QED BY <1>1, <1>2 DEF Send

LEMMA DeclareStep ==
  ASSUME WorkInv, NEW p \in Proc, Declare(p) PROVE WorkInv'
<1>1. CASE Fatal(p)
  BY <1>1, LockStep
<1> DEFINE name == Head(body[p]).name
           class == curClass[p]
<1>2. name \in Selector /\ Statements(p, "declare") /\ InHand(p) /\ pc[p] = "parse"
  BY StatementTypes DEF Declare, WorkInv
<1>3. CASE /\ class # None /\ UseSelector(p, name)
           /\ classes' = [classes EXCEPT ![p][class].own = @ \cup {name}]
           /\ NextStatement(p)
           /\ UNCHANGED <<lock, disk, pc, flags, files, curClass, dangling,
                          classAdded, errors, history>>
  <2> DEFINE new == [classes[p][class] EXCEPT !.own = classes[p][class].own \cup {name}]
  <2>1. class \in Defined(classes[p])
    BY <1>2, <1>3 DEF InHand
  <2>2. classes \in [Proc -> [Class -> ClassRec \cup {None, Hollow}]]
    BY DEF WorkInv, TypeOK
  <2>3. class \in Class /\ classes[p][class] \in ClassRec
    BY <2>1, <2>2 DEF Defined
  <2>4. new \in ClassRec /\ new # None
    BY <1>2, <2>3, NamesAssumption DEF ClassRec
  <2>5. classes' = [classes EXCEPT ![p] = [classes[p] EXCEPT ![class] = new]]
    BY <1>3
  <2>6. body' \in [Proc -> Seq(Statement)]
    BY <1>2, <1>3, NextStatementTypes
  <2>7. /\ used' = [used EXCEPT ![p] = used[p] \cup {name}]
        /\ used' \in [Proc -> SUBSET (Selector \cup Class)]
        /\ numbers' \in [Proc -> SelectorMap]
        /\ claimed' \in [Proc -> SUBSET Numbers]
        /\ selectorAdded' \in [Proc -> BOOLEAN]
    BY <1>2, <1>3, UseSelectorTypes
  <2>8. used'[p] \cap Class = used[p] \cap Class
    BY <1>2, <2>7, NamesAssumption DEF WorkInv, TypeOK
  <2> HIDE DEF new, class, name
  <2>9. /\ classes' \in [Proc -> [Class -> ClassRec \cup {None, Hollow}]]
        /\ classes'[p] = [classes[p] EXCEPT ![class] = new]
    BY <2>2, <2>4, <2>5
  <2>10. Defined(classes[p]) \subseteq Defined(classes'[p])
    BY <2>2, <2>3, <2>4, <2>9 DEF Defined
  <2>11. \A c \in Class : classes'[p][c] = Hollow => classes[p][c] = Hollow
    BY <2>2, <2>4, <2>9, NamesAssumption
  <2>12. InHand(p)'
    BY <1>2, <1>3, <2>8, <2>10, <2>11 DEF InHand, Working, Emitting, Updating, Writing
  <2>13. \A q \in Proc \ {p} : Untouched(q)
    BY <1>3, <2>2, <2>5, <2>7 DEF Untouched, WorkInv, TypeOK
  <2>14. \A q \in Proc : InHand(q)'
    BY <2>12, <2>13, OthersKeepWork
  <2> QED BY <1>3, <2>6, <2>7, <2>9, <2>14 DEF WorkInv, TypeOK, disk, flags, history
<1>4. CASE /\ NextStatement(p)
           /\ UNCHANGED <<lock, disk, pc, flags, files, used, curClass, memory, history>>
  <2>1. body' \in [Proc -> Seq(Statement)]
    BY <1>2, <1>4, NextStatementTypes
  <2>2. \A q \in Proc : Untouched(q)
    BY <1>4 DEF Untouched, memory
  <2>3. \A q \in Proc : InHand(q)'
    BY <2>2 DEF WorkInv, Untouched, InHand, ScriptOf, Defined
  <2> QED BY <1>4, <2>1, <2>3 DEF WorkInv, TypeOK, disk, flags, history, memory
<1> QED BY <1>1, <1>3, <1>4 DEF Declare

(* A class keeps its number, or gets one that is free.                     *)
LEMMA NumberOfClass ==
  ASSUME WorkInv, NEW p \in Proc, NEW class \in Class, ~NoNumberLeft(p, class)
  PROVE  NumberOf(p, class) \in ClassNumbers
<1>1. classes[p] \in [Class -> ClassRec \cup {None, Hollow}]
  BY DEF WorkInv, TypeOK
<1>2. CASE IsClass(p, class)
  BY <1>2 DEF NumberOf, IsClass, ClassRec
<1>3. CASE ~IsClass(p, class)
  <2>1. TakenClasses(p) \subseteq ClassNumbers
    BY DEF TakenClasses, Defined, ClassRec
  <2>2. ~(0 .. ClassLimit - 1 \subseteq TakenClasses(p))
    BY <1>3, <2>1 DEF NoNumberLeft, ClassNumbers
  <2>3. GetClassNumber(p) \in ClassNumbers
    BY <2>2, LeastFreeIsFree, NumbersAssumption DEF GetClassNumber, ClassNumbers
  <2> QED BY <1>3, <2>3 DEF NumberOf
<1> QED BY <1>2, <1>3

LEMMA InstallClassStep ==
  ASSUME WorkInv, NEW p \in Proc, Statements(p, "class"),
         NEW class \in Class, NEW super \in {RootObj} \cup Defined(classes[p]),
         ~NoNumberLeft(p, class),
         InstallClass(p, class, NumberOf(p, class), super),
         NEW flag \in BOOLEAN, dangling' = [dangling EXCEPT ![p] = flag]
  PROVE  WorkInv'
<1> DEFINE new == [num |-> NumberOf(p, class), super |-> SuperNum(p, super),
                   script |-> Head(files[p]).script, own |-> {}]
<1>1. classes \in [Proc -> [Class -> ClassRec \cup {None, Hollow}]]
  BY DEF WorkInv, TypeOK
<1>2. Head(files[p]).script \in Script \cup {None}
  BY StatementTypes DEF File
<1>3. SuperNum(p, super) \in {RootNum} \cup ClassNumbers
  BY DEF SuperNum, Defined, ClassRec
<1>4. new \in ClassRec /\ new # None /\ new # Hollow
  BY <1>2, <1>3, NumberOfClass, NamesAssumption DEF ClassRec
<1>5. classes' = [classes EXCEPT ![p] = [classes[p] EXCEPT ![class] = new]]
  BY DEF InstallClass
<1> HIDE DEF new
<1>6. /\ classes' \in [Proc -> [Class -> ClassRec \cup {None, Hollow}]]
      /\ classes'[p] = [classes[p] EXCEPT ![class] = new]
  BY <1>1, <1>4, <1>5
<1>7. Defined(classes[p]) \subseteq Defined(classes'[p]) /\ class \in Defined(classes'[p])
  BY <1>1, <1>4, <1>6 DEF Defined
<1>8. \A c \in Class : classes'[p][c] = Hollow => classes[p][c] = Hollow
  BY <1>1, <1>4, <1>6
<1>9. super = RootObj \/ super \in Class
  BY <1>1 DEF Defined
<1>10. /\ used' = [used EXCEPT ![p] = used[p] \cup ({class, super} \ {RootObj})]
       /\ used' \in [Proc -> SUBSET (Selector \cup Class)]
       /\ used'[p] = used[p] \cup ({class, super} \ {RootObj})
  BY <1>9 DEF InstallClass, WorkInv, TypeOK
<1>11. body' \in [Proc -> Seq(Statement)]
  BY NextStatementTypes DEF InstallClass
<1>12. /\ curClass' \in [Proc -> Class \cup {None}] /\ curClass'[p] = class
       /\ classAdded' \in [Proc -> BOOLEAN] /\ dangling' \in [Proc -> BOOLEAN]
  BY DEF InstallClass, WorkInv, TypeOK
<1>13. InHand(p) /\ pc[p] = "parse" /\ pc' = pc /\ files' = files /\ errors' = errors
  BY StatementTypes DEF WorkInv, InstallClass
<1>14. used'[p] \cap Class \subseteq Defined(classes'[p])
  BY <1>7, <1>10, <1>13 DEF InHand, Working
<1>15. InHand(p)'
  BY <1>7, <1>8, <1>12, <1>13, <1>14 DEF InHand, Working, Emitting, Updating, Writing
<1>16. \A q \in Proc \ {p} : Untouched(q)
  BY <1>1, <1>5, <1>10, <1>13 DEF Untouched, InstallClass, WorkInv, TypeOK
<1>17. \A q \in Proc : InHand(q)'
  BY <1>15, <1>16, OthersKeepWork
<1> QED BY <1>6, <1>10, <1>11, <1>12, <1>13, <1>17
           DEF InstallClass, WorkInv, TypeOK, disk, flags, history

(* A class that is refused keeps its number, or has no object.             *)
LEMMA RefuseClassStep ==
  ASSUME WorkInv, NEW p \in Proc, Statements(p, "class"), NEW class \in Class,
         RefuseClass(p, class)
  PROVE  WorkInv'
<1> DEFINE old == classes[p][class]
           new == IF old \in ClassRec THEN [old EXCEPT !.own = {}] ELSE Hollow
<1>1. classes \in [Proc -> [Class -> ClassRec \cup {None, Hollow}]]
  BY DEF WorkInv, TypeOK
<1>2. new \in ClassRec \cup {None, Hollow} /\ (old \in ClassRec => new \in ClassRec)
  BY DEF ClassRec
<1>3. classes' = [classes EXCEPT ![p] = [classes[p] EXCEPT ![class] = new]]
  BY DEF RefuseClass
<1>4. Defined(classes[p]) \subseteq Defined([classes[p] EXCEPT ![class] = new])
  BY <1>1, <1>2 DEF Defined
<1> HIDE DEF new, old
<1>5. /\ classes' \in [Proc -> [Class -> ClassRec \cup {None, Hollow}]]
      /\ Defined(classes[p]) \subseteq Defined(classes'[p])
  BY <1>1, <1>2, <1>3, <1>4
<1>6. body' \in [Proc -> Seq(Statement)]
  BY NextStatementTypes DEF RefuseClass
<1>7. /\ curClass' \in [Proc -> Class \cup {None}] /\ curClass'[p] = None
      /\ classAdded' \in [Proc -> BOOLEAN]
      /\ errors' \in [Proc -> BOOLEAN] /\ errors'[p] = TRUE
  BY DEF RefuseClass, WorkInv, TypeOK
<1>8. InHand(p) /\ pc[p] = "parse" /\ pc' = pc /\ files' = files /\ used' = used
  BY StatementTypes DEF WorkInv, RefuseClass
<1>9. InHand(p)'
  BY <1>5, <1>7, <1>8 DEF InHand, Working, Emitting, Updating, Writing
<1>10. \A q \in Proc \ {p} : Untouched(q)
  BY <1>1, <1>3, <1>8 DEF Untouched, RefuseClass, WorkInv, TypeOK
<1>11. \A q \in Proc : InHand(q)'
  BY <1>9, <1>10, OthersKeepWork
<1> QED BY <1>5, <1>6, <1>7, <1>8, <1>11 DEF RefuseClass, WorkInv, TypeOK, disk, flags, history

LEMMA DoClassStep ==
  ASSUME WorkInv, NEW p \in Proc, DoClass(p) PROVE WorkInv'
<1> DEFINE class == Head(body[p]).name
           super == Head(body[p]).super
<1>1. CASE Fatal(p) \/ Crash(p)
  BY <1>1, LockStep
<1>2. Statements(p, "class") /\ class \in Class /\ super \in Class \cup {RootObj}
  BY StatementTypes DEF DoClass
<1>3. CASE /\ super \in {RootObj} \cup Defined(classes[p]) /\ ~NoNumberLeft(p, class)
           /\ InstallClass(p, class, NumberOf(p, class), super)
           /\ dangling' = [dangling EXCEPT ![p] = @ \/ IsRoot(p, class)]
  <2>1. (dangling[p] \/ IsRoot(p, class)) \in BOOLEAN
    BY DEF IsRoot
  <2> HIDE DEF class, super
  <2> QED BY <1>2, <1>3, <2>1, InstallClassStep
<1>4. CASE RefuseClass(p, class)
  BY <1>2, <1>4, RefuseClassStep
<1> QED BY <1>1, <1>3, <1>4 DEF DoClass

LEMMA MistakeStep ==
  ASSUME WorkInv, NEW p \in Proc, Mistake(p) PROVE WorkInv'
<1>1. body' \in [Proc -> Seq(Statement)]
  BY NextStatementTypes DEF Mistake
<1>2. errors' \in [Proc -> BOOLEAN] /\ errors'[p] = TRUE
  BY DEF Mistake, WorkInv, TypeOK
<1>3. InHand(p) /\ pc[p] = "parse"
  BY StatementTypes DEF Mistake, WorkInv
<1>4. InHand(p)'
  BY <1>2, <1>3 DEF Mistake, InHand, Working, Emitting, Updating, Writing, Defined
<1>5. \A q \in Proc \ {p} : Untouched(q)
  BY DEF Untouched, Mistake, WorkInv, TypeOK
<1>6. \A q \in Proc : InHand(q)'
  BY <1>4, <1>5, OthersKeepWork
<1> QED BY <1>1, <1>2, <1>6 DEF Mistake, WorkInv, TypeOK, disk, flags, history

LEMMA OpenObjFilesStep ==
  ASSUME WorkInv, NEW p \in Proc, OpenObjFiles(p) PROVE WorkInv'
<1>1. InHand(p) /\ ScriptOf(p) \in Script
  <2>1. files[p] # <<>> /\ files[p] \in Seq(File)
    BY DEF OpenObjFiles, WorkInv, TypeOK, InHand, Working
  <2>2. Head(files[p]) \in File
    BY <2>1
  <2> QED BY <2>2 DEF File, OpenObjFiles, ScriptOf, WorkInv
<1>2. /\ pc[p] = "parse" /\ pc' = [pc EXCEPT ![p] = "assemble"]
      /\ UNCHANGED <<files, used, classes, curClass, errors>>
  BY DEF OpenObjFiles, Goto, parser, memory
<1>3. pc' \in [Proc -> Labels] /\ pc'[p] = "assemble" /\ \A q \in Proc \ {p} : Untouched(q)
  BY <1>2 DEF WorkInv, TypeOK, Labels, Untouched
<1>4. InHand(p)'
  BY <1>1, <1>2, <1>3 DEF InHand, ScriptOf, Defined, Working, Emitting, Updating, Writing
<1>5. \A q \in Proc : InHand(q)'
  BY <1>3, <1>4, OthersKeepWork
<1>6. output' \in [Script -> [Selector \cup Class -> Numbers \cup ClassNumbers \cup {None}]]
  BY <1>1 DEF OpenObjFiles, NoOutput, WorkInv, TypeOK
<1>7. committed' \subseteq Script
  BY DEF OpenObjFiles, WorkInv, TypeOK
<1> QED BY <1>3, <1>5, <1>6, <1>7 DEF OpenObjFiles, WorkInv, TypeOK, flags, parser, memory

LEMMA FileDoneTypes ==
  ASSUME WorkInv, NEW p \in Proc, files[p] # <<>>, FileDone(p)
  PROVE  files' \in [Proc -> Seq(File)]
BY DEF FileDone, WorkInv, TypeOK

LEMMA NoScriptNumberStep ==
  ASSUME WorkInv, NEW p \in Proc, NoScriptNumber(p) PROVE WorkInv'
<1>1. files[p] # <<>> /\ InHand(p)
  BY DEF NoScriptNumber, WorkInv, InHand, Working
<1>2. files' \in [Proc -> Seq(File)]
  BY <1>1, FileDoneTypes DEF NoScriptNumber
<1>3. /\ pc' \in [Proc -> Labels] /\ pc'[p] = "next"
      /\ errors' \in [Proc -> BOOLEAN] /\ errors'[p] = TRUE
      /\ \A q \in Proc \ {p} : Untouched(q)
  BY DEF NoScriptNumber, Goto, FileDone, WorkInv, TypeOK, Labels, Untouched
<1>4. InHand(p)'
  BY <1>3 DEF InHand, Working, Emitting, Updating, Writing
<1>5. \A q \in Proc : InHand(q)'
  BY <1>3, <1>4, OthersKeepWork
<1> QED BY <1>2, <1>3, <1>5 DEF NoScriptNumber, WorkInv, TypeOK, disk, flags, history

LEMMA AssembleStep ==
  ASSUME WorkInv, NEW p \in Proc, Assemble(p) PROVE WorkInv'
<1> DEFINE new == [name \in Selector \cup Class |->
                     IF name \in used[p] THEN NumberIn(p, name) ELSE None]
<1>1. InHand(p) /\ files[p] # <<>> /\ ScriptOf(p) \in Script
      /\ used[p] \cap Class \subseteq Defined(classes[p])
  BY DEF Assemble, WorkInv, InHand, Working, Emitting
<1>2. ASSUME NEW name \in Selector \cup Class, name \in used[p]
      PROVE  NumberIn(p, name) \in Numbers \cup ClassNumbers \cup {None}
  <2>1. CASE name \in Selector
    BY <2>1 DEF NumberIn, WorkInv, TypeOK, SelectorMap
  <2>2. CASE name \notin Selector
    BY <1>1, <1>2, <2>2 DEF NumberIn, Defined, ClassRec
  <2> QED BY <2>1, <2>2
<1>3. output' = [output EXCEPT ![ScriptOf(p)] = new]
  BY DEF Assemble
<1>4. new \in [Selector \cup Class -> Numbers \cup ClassNumbers \cup {None}]
  BY <1>2
<1> HIDE DEF new
<1>5. output' \in [Script -> [Selector \cup Class -> Numbers \cup ClassNumbers \cup {None}]]
  BY <1>1, <1>3, <1>4 DEF WorkInv, TypeOK
<1>6. /\ files' \in [Proc -> Seq(File)] /\ pc' \in [Proc -> Labels]
      /\ \/ pc'[p] = "update" /\ files' = files /\ ~errors[p]
         \/ pc'[p] = "next"
      /\ \A q \in Proc \ {p} : Untouched(q)
  <2>1. CASE ~errors[p] /\ Goto(p, "update") /\ UNCHANGED files
    BY <2>1 DEF Assemble, Goto, WorkInv, TypeOK, Labels, Untouched, memory
  <2>2. CASE errors[p] /\ Goto(p, "next") /\ FileDone(p)
    BY <1>1, <2>2, FileDoneTypes
       DEF Assemble, Goto, FileDone, WorkInv, TypeOK, Labels, Untouched, memory
  <2> QED BY <2>1, <2>2 DEF Assemble
<1>7. InHand(p)'
  BY <1>1, <1>6 DEF Assemble, InHand, ScriptOf, Defined, Working, Emitting, Updating, Writing,
                    memory
<1>8. \A q \in Proc : InHand(q)'
  BY <1>6, <1>7, OthersKeepWork
<1> QED BY <1>5, <1>6, <1>8 DEF Assemble, WorkInv, TypeOK, flags, memory, history

LEMMA OpenFileStep ==
  ASSUME WorkInv, NEW p \in Proc, OpenSelectorFile(p) \/ OpenClassFile(p) PROVE WorkInv'
<1>1. PICK label \in {"writeSelectors", "updateClasses", "writeClasses"} : Goto(p, label)
  BY DEF OpenSelectorFile, OpenClassFile
<1>2. pc[p] \in {"update", "updateClasses"}
  BY DEF OpenSelectorFile, OpenClassFile
<1>3. UNCHANGED <<lock, classTable, output, flags, parser, memory, history>>
  BY DEF OpenSelectorFile, OpenClassFile
<1>4. pc' \in [Proc -> Labels] /\ \A q \in Proc : InHand(q)'
  BY <1>1, <1>2, <1>3, MoveKeepsWork
     DEF Labels, Working, Emitting, Updating, Writing, Ended, parser, memory
<1>5. selectorFile' \in SelectorMap \cup {Torn} /\ classFile' \in ClassMap \cup {Torn}
  BY DEF OpenSelectorFile, OpenClassFile, WorkInv, TypeOK
<1> QED BY <1>3, <1>4, <1>5 DEF WorkInv, TypeOK, flags, parser, memory, history

LEMMA WriteSelectorStep ==
  ASSUME WorkInv, NEW p \in Proc, WriteSelector(p) PROVE WorkInv'
<1>1. pc' \in [Proc -> Labels] /\ \A q \in Proc : InHand(q)'
  BY MoveKeepsWork DEF WriteSelector, Labels, Working, Emitting, Updating, Writing, parser, memory
<1>2. selectorFile' \in SelectorMap
  BY DEF WriteSelector, WorkInv, TypeOK
<1> QED BY <1>1, <1>2 DEF WriteSelector, WorkInv, TypeOK, flags, parser, memory, history

LEMMA EndUpdateStep ==
  ASSUME WorkInv, NEW p \in Proc, NoNewClass(p) \/ WriteClassDefs(p) PROVE WorkInv'
<1>1. EndUpdate(p) /\ pc[p] \in Updating
  BY DEF NoNewClass, WriteClassDefs, Updating, Writing
<1>2. InHand(p) /\ files[p] # <<>> /\ ~errors[p] /\ ScriptOf(p) \in Script
  BY <1>1 DEF WorkInv, InHand, Working, Emitting
<1>3. classFile' \in ClassMap \cup {Torn}
  <2>1. CASE NoNewClass(p)
    BY <2>1 DEF NoNewClass, WorkInv, TypeOK
  <2>2. CASE WriteClassDefs(p)
    BY <1>2, <2>2 DEF WriteClassDefs, WorkInv, TypeOK, InHand, ClassMap
  <2> QED BY <2>1, <2>2
<1>4. files' \in [Proc -> Seq(File)]
  BY <1>1, <1>2, FileDoneTypes DEF EndUpdate
<1>5. /\ pc' \in [Proc -> Labels] /\ pc'[p] = "next"
      /\ \A q \in Proc \ {p} : Untouched(q)
  BY <1>1 DEF EndUpdate, Goto, FileDone, WorkInv, TypeOK, Labels, Untouched
<1>6. InHand(p)'
  BY <1>1, <1>2, <1>5 DEF EndUpdate, InHand, Working, Emitting, Updating, Writing
<1>7. \A q \in Proc : InHand(q)'
  BY <1>5, <1>6, OthersKeepWork
<1>8. /\ selectorAdded' \in [Proc -> BOOLEAN] /\ classAdded' \in [Proc -> BOOLEAN]
      /\ committed' \subseteq Script
  BY <1>1, <1>2 DEF EndUpdate, WorkInv, TypeOK
<1> QED BY <1>1, <1>3, <1>4, <1>5, <1>7, <1>8 DEF EndUpdate, WorkInv, TypeOK, flags

LEMMA WriteClassTblStep ==
  ASSUME WorkInv, NEW p \in Proc, WriteClassTbl(p) PROVE WorkInv'
<1>1. CASE Crash(p)
  BY <1>1, LockStep
<1>2. CASE ~Crash(p)
  <2> DEFINE numbered(num) == CHOOSE class \in Defined(classes[p]) : classes[p][class].num = num
             table == [num \in ClassNumbers |-> IF num \in TakenClasses(p)
                                                THEN classes[p][numbered(num)].script ELSE None]
  <2>1. ASSUME NEW num \in TakenClasses(p)
        PROVE  classes[p][numbered(num)].script \in Script \cup {None}
    <3>1. numbered(num) \in Defined(classes[p])
      BY DEF TakenClasses
    <3> QED BY <3>1 DEF Defined, ClassRec
  <2>2. table \in [ClassNumbers -> Script \cup {None}]
    BY <2>1
  <2>3. classTable' = table /\ Goto(p, "unlock")
        /\ UNCHANGED <<lock, selectorFile, classFile, output, flags, parser, memory, history>>
    BY <1>2 DEF WriteClassTbl
  <2> HIDE DEF table
  <2>4. pc' \in [Proc -> Labels] /\ \A q \in Proc : InHand(q)'
    BY <2>3, MoveKeepsWork DEF Labels, Working, Emitting, Updating, Writing, parser, memory
  <2> QED BY <2>2, <2>3, <2>4 DEF WorkInv, TypeOK, flags, parser, memory, history
<1> QED BY <1>1, <1>2

LEMMA WorkBegins == Init => WorkInv
<1> SUFFICES ASSUME Init PROVE WorkInv
  OBVIOUS
<1>1. selectorFile \in SelectorMap /\ classFile \in ClassMap
  BY InputAssumption DEF Init
<1>2. /\ files \in [Proc -> Seq(File)] /\ dontLock \subseteq Proc /\ abortIfLocked \subseteq Proc
  BY InputAssumption DEF Init
<1>3. NoNames \in SelectorMap
  BY NumbersAssumption DEF NoNames, SelectorMap
<1>4. {Builtin[name] : name \in DOMAIN Builtin} \subseteq Numbers
  BY NumbersAssumption
<1>5. <<>> \in Seq(Statement)
  OBVIOUS
<1>6. TypeOK
  BY <1>1, <1>2, <1>3, <1>4, <1>5 DEF Init, TypeOK, Labels, NoOutput, NoClasses
<1>7. Hollow # None
  BY NamesAssumption
<1>8. \A p \in Proc : InHand(p)
  BY <1>7 DEF Init, InHand, Working, Emitting, Updating, Writing, NoClasses
<1> QED BY <1>6, <1>8 DEF WorkInv

LEMMA WorkGoesOn == WorkInv /\ [Next]_vars => WorkInv'
<1> SUFFICES ASSUME WorkInv, [Next]_vars PROVE WorkInv'
  OBVIOUS
<1>1. CASE UNCHANGED vars
  BY <1>1 DEF vars, disk, flags, parser, memory, history, WorkInv, TypeOK, InHand, ScriptOf, Defined
<1>2. ASSUME NEW p \in Proc, Run(p) \/ Crash(p) PROVE WorkInv'
  <2>1. CASE Compile(p)
    BY <2>1, NextFileStep, SendStep, DeclareStep, DoClassStep, MistakeStep,
       OpenObjFilesStep, NoScriptNumberStep, AssembleStep DEF Compile
  <2>2. CASE Update(p)
    BY <2>2, OpenFileStep, WriteSelectorStep, EndUpdateStep DEF Update
  <2> QED BY <1>2, <2>1, <2>2, LockStep, ReadSelectorsStep, ReadClassesStep, WriteClassTblStep
          DEF Run
<1> QED BY <1>1, <1>2 DEF Next, AllEnded

(* The files and what the runs know of them are always of their types; in  *)
(* particular a class without an object never gets into the class file.    *)
THEOREM TypeCorrectness == Spec => []TypeOK
<1>1. WorkInv => TypeOK
  BY DEF WorkInv
<1> QED BY <1>1, WorkBegins, WorkGoesOn, PTL DEF Spec

-----------------------------------------------------------------------------
(* Whoever is inside has the lock, or goes without.                        *)
Locked == \A p \in Proc : Inside(p) /\ p \notin dontLock => lock = p

MutexInv == pc \in [Proc -> Labels] /\ Locked

(* A step of a run that is inside neither gives the lock away nor moves    *)
(* another run.                                                            *)
LEMMA InsideSteps ==
  ASSUME NEW p \in Proc, MutexInv,
         ReadSelectors(p) \/ ReadClasses(p) \/ Compile(p) \/ Update(p) \/ WriteClassTbl(p)
  PROVE  \/ Fatal(p) \/ Crash(p)
         \/ /\ lock' = lock /\ dontLock' = dontLock
            /\ Inside(p)
            /\ \E label \in Labels \ ({"start", "waiting"} \cup Ended) :
                 pc' = [pc EXCEPT ![p] = label]
<1> DEFINE G == /\ lock' = lock /\ dontLock' = dontLock
                /\ Inside(p)
                /\ \E label \in Labels \ ({"start", "waiting"} \cup Ended) :
                     pc' = [pc EXCEPT ![p] = label]
<1>1. pc = [pc EXCEPT ![p] = pc[p]] /\ pc[p] \in Labels
  BY DEF MutexInv
<1>2. CASE ReadSelectors(p) \/ ReadClasses(p) \/ WriteClassTbl(p)
  BY <1>2 DEF ReadSelectors, ReadClasses, WriteClassTbl, Goto, flags, Inside, Labels, Ended
<1>3. CASE NextFile(p) \/ OpenObjFiles(p) \/ NoScriptNumber(p) \/ Assemble(p)
  BY <1>3 DEF NextFile, OpenObjFiles, NoScriptNumber, Assemble, Goto, flags, Inside, Labels, Ended
<1>4. CASE Send(p) \/ Declare(p) \/ DoClass(p) \/ Mistake(p)
  <2>1. pc[p] = "parse" /\ Inside(p)
    BY <1>4 DEF Send, Declare, DoClass, Mistake, Statements, Inside, Ended
  <2>2. Fatal(p) \/ Crash(p) \/ (lock' = lock /\ dontLock' = dontLock /\ pc' = pc)
    BY <1>4 DEF Send, Declare, DoClass, Mistake, InstallClass, RefuseClass, flags
  <2> QED BY <1>1, <2>1, <2>2 DEF Labels, Ended
<1>5. CASE OpenSelectorFile(p) \/ WriteSelector(p) \/ OpenClassFile(p)
  BY <1>5 DEF OpenSelectorFile, WriteSelector, OpenClassFile, Goto, flags, Inside, Labels, Ended,
              Writing
<1>6. CASE NoNewClass(p) \/ WriteClassDefs(p)
  BY <1>6 DEF NoNewClass, WriteClassDefs, EndUpdate, Goto, flags, Inside, Labels, Ended
<1> QED BY <1>2, <1>3, <1>4, <1>5, <1>6 DEF Compile, Update

LEMMA LockKeepsOut ==
  ASSUME HasFlock, NEW p \in Proc, MutexInv, Lock(p) \/ Retry(p)
  PROVE  Locked'
<1>1. PICK label : pc' = [pc EXCEPT ![p] = label] /\ UNCHANGED dontLock
  BY DEF Lock, Retry, Goto, flags
<1>2. CASE lock = Nobody /\ lock' = p
  BY <1>1, <1>2, NamesAssumption DEF MutexInv, Locked, Inside
<1>3. CASE lock' = lock /\ (p \in dontLock \/ label \in {"waiting", "failed"})
  BY <1>1, <1>3 DEF MutexInv, Locked, Inside, Ended
<1> QED BY <1>1, <1>2, <1>3 DEF Lock, Retry, CanLock, LockFile, Goto, flags, MutexInv

LEMMA ReleaseKeepsOut ==
  ASSUME NEW p \in Proc, MutexInv, Fatal(p) \/ Crash(p) \/ Unlock(p)
  PROVE  Locked'
<1>1. PICK label \in Ended : pc' = [pc EXCEPT ![p] = label] /\ UNCHANGED dontLock
  BY DEF Fatal, Crash, Unlock, Goto, flags, Ended
<1>2. lock' = IF lock = p THEN Nobody ELSE lock
  BY DEF Fatal, Crash, Unlock, Release
<1> QED BY <1>1, <1>2 DEF MutexInv, Locked, Inside

LEMMA MutexStep ==
  ASSUME HasFlock, MutexInv, [Next]_vars PROVE Locked'
<1>1. CASE UNCHANGED vars
  BY <1>1 DEF vars, flags, MutexInv, Locked, Inside
<1>2. ASSUME NEW p \in Proc, Run(p) \/ Crash(p) PROVE Locked'
  <2>1. CASE /\ lock' = lock /\ dontLock' = dontLock /\ Inside(p)
             /\ \E label \in Labels \ ({"start", "waiting"} \cup Ended) :
                  pc' = [pc EXCEPT ![p] = label]
    BY <2>1 DEF MutexInv, Locked, Inside
  <2> QED BY <1>2, <2>1, InsideSteps, LockKeepsOut, ReleaseKeepsOut DEF Run
<1> QED BY <1>1, <1>2 DEF Next, AllEnded

(* Where the lock locks: for any number of runs, in whatever way they end, *)
(* at most one of those that ask for it is between its first read of the   *)
(* database and its last write.                                            *)
THEOREM MutualExclusion == ASSUME HasFlock PROVE Spec => []OneUpdater
<1>1. Init => Locked
  BY DEF Init, Locked, Inside
<1>2. TypeOK /\ Locked /\ [Next]_vars => Locked'
  BY MutexStep DEF MutexInv, TypeOK
<1>3. Locked => OneUpdater
  BY DEF Locked, OneUpdater
<1> QED BY <1>1, <1>2, <1>3, TypeCorrectness, PTL DEF Spec

-----------------------------------------------------------------------------
(* NumbersAreKept alone is not inductive: while a file is being rewritten, *)
(* and between two of its rewritings, the numbers are in the memory of the *)
(* one run that is inside.                                                 *)

ClassesRead == {"next", "unlock"} \cup Working
SelectorsRead == {"readClasses"} \cup ClassesRead

(* The numbers of the compiled scripts are those of a map of selectors.    *)
Agreed(map) ==
  \A script \in committed : \A name \in Selector :
    output[script][name] # None => map[name] = output[script][name]

ClassesAgreed(map) ==
  \A script \in committed : \A class \in Class :
    output[script][class] # None =>
      map[class] \in ClassRec /\ map[class].num = output[script][class]

SameNumbers(file, map) ==
  \A class \in Class :
    map[class] \in ClassRec => file[class] \in ClassRec /\ file[class].num = map[class].num

FilesAgree ==
  /\ selectorFile # Torn =>
       Agreed(selectorFile) /\ \A name \in DOMAIN Builtin : selectorFile[name] # None
  /\ classFile # Torn => ClassesAgreed(classFile)
  /\ selectorFile = Torn => \E p \in Proc : pc[p] = "writeSelectors"
  /\ classFile = Torn => \E p \in Proc : pc[p] = "writeClasses"

(* The selectors in memory are those of the file, or marked as changed.    *)
SelectorsAgree(p) ==
  /\ \A name \in DOMAIN Builtin : numbers[p][name] # None
  /\ pc[p] \in SelectorsRead =>
       /\ Agreed(numbers[p])
       /\ ~selectorAdded[p] \/ pc[p] \in {"updateClasses", "writeClasses"} =>
            selectorFile = numbers[p]

ClassesAgree(p) ==
  pc[p] \in ClassesRead =>
    /\ ClassesAgreed(classes[p])
    /\ ~classAdded[p] => classFile # Torn /\ SameNumbers(classFile, classes[p])

(* The script that is written is not committed yet, and when it is, its    *)
(* numbers are those in memory.                                            *)
OutputAgrees(p) ==
  /\ pc[p] = "assemble" => ScriptOf(p) \notin committed
  /\ pc[p] \in Updating =>
       /\ \A name \in Selector : output[ScriptOf(p)][name] # None =>
            numbers[p][name] = output[ScriptOf(p)][name]
       /\ \A class \in Class : output[ScriptOf(p)][class] # None =>
            /\ classes[p][class] \in ClassRec
            /\ classes[p][class].num = output[ScriptOf(p)][class]

MemoryAgrees(p) == SelectorsAgree(p) /\ ClassesAgree(p) /\ OutputAgrees(p)

AgreeInv == Cooperative => FilesAgree /\ \A p \in Proc : MemoryAgrees(p)

(* A step of a run inside, where nobody else is.                           *)
Alone(p) ==
  /\ WorkInv /\ FilesAgree /\ \A q \in Proc : MemoryAgrees(q)
  /\ Inside(p) /\ \A q \in Proc \ {p} : ~Inside(q)

LEMMA InsideMeansRead ==
  ASSUME NEW p \in Proc, ~Inside(p)
  PROVE  pc[p] \notin SelectorsRead /\ pc[p] \notin ClassesRead /\ pc[p] \notin Updating
         /\ pc[p] # "assemble"
BY DEF Inside, SelectorsRead, ClassesRead, Working, Emitting, Updating, Writing, Ended

LEMMA OthersAgree ==
  ASSUME NEW p \in Proc, Alone(p), MemoryAgrees(p)',
         \A q \in Proc \ {p} : pc'[q] = pc[q] /\ numbers'[q] = numbers[q]
  PROVE  \A q \in Proc : MemoryAgrees(q)'
<1> SUFFICES ASSUME NEW q \in Proc, q # p PROVE MemoryAgrees(q)'
  OBVIOUS
<1>1. ~Inside(q) /\ MemoryAgrees(q) /\ pc'[q] = pc[q] /\ numbers'[q] = numbers[q]
  BY DEF Alone
<1>2. pc[q] \notin SelectorsRead /\ pc[q] \notin ClassesRead /\ pc[q] \notin Updating
      /\ pc[q] # "assemble"
  BY <1>1, InsideMeansRead
<1> QED BY <1>1, <1>2 DEF MemoryAgrees, SelectorsAgree, ClassesAgree, OutputAgrees

(* Who is inside and does not write finds both files whole.                *)
LEMMA FilesAreWhole ==
  ASSUME NEW p \in Proc, Alone(p)
  PROVE  /\ pc[p] # "writeSelectors" => selectorFile \in SelectorMap /\ selectorFile # Torn
         /\ pc[p] # "writeClasses" => classFile \in ClassMap /\ classFile # Torn
BY DEF Alone, FilesAgree, Inside, Ended, WorkInv, TypeOK

(* The files are as they were.                                             *)
LEMMA FilesStay ==
  ASSUME FilesAgree, pc \in [Proc -> Labels], NEW p \in Proc, pc[p] \notin Writing,
         NEW label, Goto(p, label),
         UNCHANGED <<selectorFile, classFile, output, committed>>
  PROVE  FilesAgree'
<1>1. pc' = [pc EXCEPT ![p] = label]
  BY DEF Goto
<1>2. \A q \in Proc : pc[q] \in Writing => pc'[q] = pc[q]
  BY <1>1
<1>3. (selectorFile = Torn => \E q \in Proc : pc'[q] = "writeSelectors")
      /\ (classFile = Torn => \E q \in Proc : pc'[q] = "writeClasses")
  BY <1>2 DEF FilesAgree, Writing
<1> QED BY <1>3 DEF FilesAgree, Agreed, ClassesAgreed

(* A run comes, waits or goes.                                             *)
LEMMA ComingAndGoing ==
  ASSUME WorkInv, AgreeInv, Cooperative', NEW p \in Proc,
         Lock(p) \/ Retry(p) \/ Unlock(p) \/ Crash(p) \/ (Fatal(p) /\ pc[p] \notin Writing)
  PROVE  AgreeInv'
<1>1. Cooperative /\ pc[p] \notin Writing
  <2>1. CASE Crash(p)
    BY <2>1 DEF Cooperative, Crash, flags, WorkInv, TypeOK
  <2>2. CASE ~Crash(p)
    BY <2>2 DEF Cooperative, Lock, Retry, Unlock, Fatal, flags, history, Writing
  <2> QED BY <2>1, <2>2
<1>2. PICK label \in {"readSelectors", "waiting", "done", "failed", "crashed"} : Goto(p, label)
  BY DEF Lock, Retry, Unlock, Fatal, Crash
<1>3. UNCHANGED <<disk, parser, memory, committed>>
  BY DEF Lock, Retry, Unlock, Fatal, Crash, history
<1>4. FilesAgree /\ pc \in [Proc -> Labels] /\ \A q \in Proc : MemoryAgrees(q)
  BY <1>1 DEF AgreeInv, WorkInv, TypeOK
<1>5. FilesAgree'
  BY <1>1, <1>2, <1>3, <1>4, FilesStay DEF disk
<1>6. ASSUME NEW q \in Proc PROVE MemoryAgrees(q)'
  <2>1. pc'[q] = pc[q] \/ pc'[q] \notin SelectorsRead \cup ClassesRead \cup Updating \cup {"assemble"}
    BY <1>2, <1>4 DEF Goto, SelectorsRead, ClassesRead, Working, Emitting, Updating, Writing
  <2> QED BY <1>3, <1>4, <2>1 DEF MemoryAgrees, SelectorsAgree, ClassesAgree, OutputAgrees, Agreed,
             ClassesAgreed, SameNumbers, ScriptOf, disk, parser, memory
<1> QED BY <1>5, <1>6 DEF AgreeInv

LEMMA ReadSelectorsAgrees ==
  ASSUME NEW p \in Proc, Alone(p), ReadSelectors(p), ~Fatal(p)
  PROVE  FilesAgree' /\ \A q \in Proc : MemoryAgrees(q)'
<1>1. /\ pc[p] = "readSelectors" /\ Goto(p, "readClasses")
      /\ selectorFile # Torn /\ selectorFile \in SelectorMap /\ InitSelectors(p, selectorFile)
      /\ UNCHANGED <<disk, parser, committed>>
  BY FilesAreWhole DEF ReadSelectors, history
<1>2. FilesAgree'
  BY <1>1, FilesStay DEF Alone, WorkInv, TypeOK, disk, Writing
<1>3. [name \in Selector |-> IF selectorFile[name] # None THEN selectorFile[name]
                             ELSE NoNames[name]] = selectorFile
  <2>1. \A name \in Selector : selectorFile[name] = None => NoNames[name] = None
    BY <1>1 DEF Alone, FilesAgree, NoNames
  <2> QED BY <1>1, <2>1 DEF SelectorMap
<1>4. numbers' = [numbers EXCEPT ![p] = selectorFile]
  BY <1>1, <1>3 DEF InitSelectors
<1>5. numbers'[p] = selectorFile /\ \A q \in Proc \ {p} : pc'[q] = pc[q] /\ numbers'[q] = numbers[q]
  BY <1>1, <1>4 DEF Alone, WorkInv, TypeOK, Goto
<1>6. pc'[p] = "readClasses" /\ Agreed(selectorFile)' /\ selectorFile' = selectorFile
      /\ \A name \in DOMAIN Builtin : selectorFile[name] # None
  BY <1>1 DEF Alone, FilesAgree, Agreed, WorkInv, TypeOK, Goto, disk
<1>7. MemoryAgrees(p)'
  BY <1>5, <1>6 DEF MemoryAgrees, SelectorsAgree, ClassesAgree, OutputAgrees, Agreed,
                    ClassesRead, Working, Emitting, Updating, Writing
<1> QED BY <1>2, <1>5, <1>7, OthersAgree

LEMMA ReadClassesAgrees ==
  ASSUME NEW p \in Proc, Alone(p), ReadClasses(p), ~Fatal(p)
  PROVE  FilesAgree' /\ \A q \in Proc : MemoryAgrees(q)'
<1> DEFINE read == [class \in Class |-> IF class \in Defined(classFile)
                            THEN [classFile[class] EXCEPT !.own = classFile[class].own \cap Known(p)]
                            ELSE None]
<1>1. /\ pc[p] = "readClasses" /\ Goto(p, "next")
      /\ classFile # Torn /\ classFile \in ClassMap /\ DefineClasses(p, classFile)
      /\ UNCHANGED <<disk, parser, numbers, selectorAdded, classAdded, committed>>
  BY FilesAreWhole DEF ReadClasses, history
<1>2. FilesAgree'
  BY <1>1, FilesStay DEF Alone, WorkInv, TypeOK, disk, Writing
<1>3. ASSUME NEW class \in Class
      PROVE  /\ classFile[class] \in ClassRec =>
                  read[class] \in ClassRec /\ read[class].num = classFile[class].num
             /\ read[class] \in ClassRec => classFile[class] \in ClassRec
  BY <1>1, NamesAssumption DEF Defined, ClassMap, ClassRec
<1>4. classes' = [classes EXCEPT ![p] = read]
  BY <1>1 DEF DefineClasses
<1> HIDE DEF read
<1>5. classes'[p] = read /\ pc'[p] = "next"
      /\ \A q \in Proc \ {p} : pc'[q] = pc[q] /\ numbers'[q] = numbers[q]
  BY <1>1, <1>4 DEF Alone, WorkInv, TypeOK, Goto
<1>6. ClassesAgreed(read) /\ SameNumbers(classFile, read)
  BY <1>1, <1>3 DEF Alone, FilesAgree, ClassesAgreed, SameNumbers, disk
<1>7. SelectorsAgree(p)'
  BY <1>1, <1>5 DEF Alone, MemoryAgrees, SelectorsAgree, Agreed, SelectorsRead, disk
<1>8. ClassesAgreed(classes[p])' /\ SameNumbers(classFile, classes[p])' /\ classFile' # Torn
  BY <1>1, <1>5, <1>6 DEF ClassesAgreed, SameNumbers, disk
<1>9. ClassesAgree(p)' /\ OutputAgrees(p)'
  BY <1>5, <1>8 DEF ClassesAgree, OutputAgrees, Updating, Writing
<1> QED BY <1>2, <1>5, <1>7, <1>9, OthersAgree DEF MemoryAgrees

(* While it compiles, a run only adds to the numbers it knows, and says so *)
(* to itself.                                                              *)
LEMMA CompilingAgrees ==
  ASSUME NEW p \in Proc, Alone(p), pc[p] = "parse" \/ pc[p] = "next",
         NEW label \in {"parse", "next"}, Goto(p, label),
         UNCHANGED <<selectorFile, classFile, output, committed>>,
         \A q \in Proc \ {p} : numbers'[q] = numbers[q],
         \A name \in Selector : numbers[p][name] # None => numbers'[p][name] = numbers[p][name],
         \A class \in Class : classes[p][class] \in ClassRec =>
           classes'[p][class] \in ClassRec /\ classes'[p][class].num = classes[p][class].num,
         ~selectorAdded'[p] => ~selectorAdded[p] /\ numbers'[p] = numbers[p],
         ~classAdded'[p] => ~classAdded[p] /\ \A class \in Class :
           classes'[p][class] \in ClassRec => classes[p][class] \in ClassRec
  PROVE  FilesAgree' /\ \A q \in Proc : MemoryAgrees(q)'
<1>1. FilesAgree'
  BY FilesStay DEF Alone, WorkInv, TypeOK, Writing
<1>2. pc'[p] = label /\ \A q \in Proc \ {p} : pc'[q] = pc[q]
  BY DEF Alone, WorkInv, TypeOK, Goto
<1>3. pc[p] \in SelectorsRead /\ pc[p] \in ClassesRead
      /\ SelectorsAgree(p) /\ ClassesAgree(p) /\ DOMAIN Builtin \subseteq Selector
  BY NumbersAssumption DEF Alone, MemoryAgrees, SelectorsRead, ClassesRead, Working
<1>4. SelectorsAgree(p)'
  BY <1>2, <1>3 DEF SelectorsAgree, Agreed
<1>5. ClassesAgree(p)'
  BY <1>2, <1>3 DEF ClassesAgree, ClassesAgreed, SameNumbers
<1>6. OutputAgrees(p)'
  BY <1>2 DEF OutputAgrees, Updating, Writing
<1> QED BY <1>1, <1>2, <1>4, <1>5, <1>6, OthersAgree DEF MemoryAgrees

(* Compile, up to the writing of the compiled script.                      *)
LEMMA UseSelectorAdds ==
  ASSUME NEW p \in Proc, WorkInv, NEW name \in Selector, UseSelector(p, name)
  PROVE  /\ \A q \in Proc \ {p} : numbers'[q] = numbers[q]
         /\ \A n \in Selector : numbers[p][n] # None => numbers'[p][n] = numbers[p][n]
         /\ ~selectorAdded'[p] => ~selectorAdded[p] /\ numbers'[p] = numbers[p]
<1>1. CASE UNCHANGED <<numbers, claimed, selectorAdded>>
  BY <1>1
<1>2. CASE ~IsSelector(p, name) /\ InstallSelector(p, name)
  <2>1. numbers' = [numbers EXCEPT ![p] = [numbers[p] EXCEPT ![name] = NewSelectorNum(p)]]
        /\ selectorAdded'[p] = TRUE
    BY <1>2 DEF InstallSelector, WorkInv, TypeOK
  <2> QED BY <1>2, <2>1 DEF IsSelector, WorkInv, TypeOK, SelectorMap
<1> QED BY <1>1, <1>2 DEF UseSelector

(* A statement stays within a script.                                      *)
LEMMA ParseStays ==
  ASSUME NEW p \in Proc, WorkInv, pc[p] = "parse", pc' = pc
  PROVE  Goto(p, "parse")
BY DEF Goto, WorkInv, TypeOK

LEMMA DeclareAgrees ==
  ASSUME NEW p \in Proc, Alone(p), Declare(p), ~Fatal(p)
  PROVE  FilesAgree' /\ \A q \in Proc : MemoryAgrees(q)'
<1> DEFINE name == Head(body[p]).name
           class == curClass[p]
<1>1. WorkInv /\ name \in Selector /\ pc[p] = "parse" /\ InHand(p)
  BY StatementTypes DEF Declare, Alone, WorkInv
<1>2. /\ Goto(p, "parse")
      /\ UNCHANGED <<selectorFile, classFile, output, committed, classAdded>>
  BY <1>1, ParseStays DEF Declare, Statements, disk, history, memory
<1>3. CASE /\ class # None /\ UseSelector(p, name)
           /\ classes' = [classes EXCEPT ![p][class].own = @ \cup {name}]
  <2> DEFINE new == [classes[p][class] EXCEPT !.own = classes[p][class].own \cup {name}]
  <2>1. classes \in [Proc -> [Class -> ClassRec \cup {None, Hollow}]]
    BY <1>1 DEF WorkInv, TypeOK
  <2>2. class \in Class /\ classes[p][class] \in ClassRec
    BY <1>1, <1>3, <2>1 DEF InHand, Defined
  <2>3. new \in ClassRec /\ new.num = classes[p][class].num
    BY <1>1, <2>2 DEF ClassRec
  <2>4. classes' = [classes EXCEPT ![p] = [classes[p] EXCEPT ![class] = new]]
    BY <1>3
  <2> HIDE DEF new, class
  <2>5. \A c \in Class : /\ classes[p][c] \in ClassRec =>
                              classes'[p][c] \in ClassRec /\ classes'[p][c].num = classes[p][c].num
                         /\ classes'[p][c] \in ClassRec => classes[p][c] \in ClassRec
    BY <2>1, <2>2, <2>3, <2>4
  <2> QED BY <1>1, <1>2, <1>3, <2>5, UseSelectorAdds, CompilingAgrees
<1>4. CASE UNCHANGED memory
  BY <1>1, <1>2, <1>4, CompilingAgrees DEF memory
<1> QED BY <1>3, <1>4 DEF Declare

LEMMA DoClassAgrees ==
  ASSUME NEW p \in Proc, Alone(p), DoClass(p), ~Fatal(p), ~Crash(p)
  PROVE  FilesAgree' /\ \A q \in Proc : MemoryAgrees(q)'
<1> DEFINE class == Head(body[p]).name
           super == Head(body[p]).super
           old == classes[p][class]
<1>1. WorkInv /\ class \in Class /\ pc[p] = "parse"
      /\ classes \in [Proc -> [Class -> ClassRec \cup {None, Hollow}]]
      /\ classAdded \in [Proc -> BOOLEAN]
  BY StatementTypes DEF DoClass, Alone, WorkInv, TypeOK
<1>2. \/ InstallClass(p, class, NumberOf(p, class), super) /\ ~NoNumberLeft(p, class)
         /\ super \in {RootObj} \cup Defined(classes[p])
      \/ RefuseClass(p, class)
  BY DEF DoClass
<1>3. /\ Goto(p, "parse") /\ classAdded'[p] = TRUE
      /\ UNCHANGED <<selectorFile, classFile, output, committed, numbers, selectorAdded>>
  BY <1>1, <1>2, ParseStays DEF InstallClass, RefuseClass, disk, history
<1>4. PICK new : classes' = [classes EXCEPT ![p] = [classes[p] EXCEPT ![class] = new]]
                 /\ (old \in ClassRec => new \in ClassRec /\ new.num = old.num)
  <2>1. CASE RefuseClass(p, class)
    <3> DEFINE rec == IF old \in ClassRec THEN [old EXCEPT !.own = {}] ELSE Hollow
    <3>1. classes' = [classes EXCEPT ![p] = [classes[p] EXCEPT ![class] = rec]]
      BY <2>1 DEF RefuseClass
    <3>2. old \in ClassRec => rec \in ClassRec /\ rec.num = old.num
      BY DEF ClassRec
    <3> QED BY <3>1, <3>2
  <2>2. CASE InstallClass(p, class, NumberOf(p, class), super) /\ ~NoNumberLeft(p, class)
             /\ super \in {RootObj} \cup Defined(classes[p])
    <3> DEFINE rec == [num |-> NumberOf(p, class), super |-> SuperNum(p, super),
                       script |-> Head(files[p]).script, own |-> {}]
    <3>1. classes' = [classes EXCEPT ![p] = [classes[p] EXCEPT ![class] = rec]]
      BY <2>2 DEF InstallClass
    <3>2. rec \in ClassRec
      <4>1. SuperNum(p, super) \in {RootNum} \cup ClassNumbers
        BY <2>2 DEF SuperNum, Defined, ClassRec
      <4>2. Head(files[p]).script \in Script \cup {None}
        BY <1>1, StatementTypes DEF DoClass, File
      <4> QED BY <1>1, <2>2, <4>1, <4>2, NumberOfClass DEF ClassRec
    <3>3. old \in ClassRec => rec.num = old.num
      BY DEF NumberOf, IsClass
    <3> QED BY <3>1, <3>2, <3>3
  <2> QED BY <1>2, <2>1, <2>2
<1> HIDE DEF class, super
<1>5. \A c \in Class : classes[p][c] \in ClassRec =>
        classes'[p][c] \in ClassRec /\ classes'[p][c].num = classes[p][c].num
  BY <1>1, <1>4
<1> QED BY <1>1, <1>3, <1>5, CompilingAgrees

LEMMA OpenObjFilesAgrees ==
  ASSUME NEW p \in Proc, Alone(p), OpenObjFiles(p)
  PROVE  FilesAgree' /\ \A q \in Proc : MemoryAgrees(q)'
<1>1. /\ pc[p] = "parse" /\ pc' = [pc EXCEPT ![p] = "assemble"] /\ pc \in [Proc -> Labels]
      /\ output' = [output EXCEPT ![ScriptOf(p)] = NoOutput]
      /\ committed' = committed \ {ScriptOf(p)}
      /\ UNCHANGED <<selectorFile, classFile, parser, memory>>
  BY DEF OpenObjFiles, Goto, Alone, WorkInv, TypeOK
<1>2. pc'[p] = "assemble" /\ \A q \in Proc \ {p} : pc'[q] = pc[q] /\ numbers'[q] = numbers[q]
  BY <1>1 DEF memory
<1>3. \A script \in committed' : script \in committed /\ output'[script] = output[script]
  BY <1>1 DEF Alone, WorkInv, TypeOK
<1>4. FilesAgree'
  <2>1. selectorFile # Torn /\ classFile # Torn
    BY <1>1, FilesAreWhole
  <2> QED BY <1>1, <1>3, <2>1 DEF Alone, FilesAgree, Agreed, ClassesAgreed
<1>5. SelectorsAgree(p) /\ ClassesAgree(p) /\ pc[p] \in SelectorsRead /\ pc[p] \in ClassesRead
  BY <1>1 DEF Alone, MemoryAgrees, SelectorsRead, ClassesRead, Working
<1>6. SelectorsAgree(p)'
  BY <1>1, <1>2, <1>3, <1>5 DEF SelectorsAgree, Agreed, memory
<1>7. ClassesAgree(p)'
  BY <1>1, <1>2, <1>3, <1>5 DEF ClassesAgree, ClassesAgreed, SameNumbers, memory
<1>8. OutputAgrees(p)'
  BY <1>1, <1>2 DEF OutputAgrees, ScriptOf, Updating, Writing, parser
<1> QED BY <1>2, <1>4, <1>6, <1>7, <1>8, OthersAgree DEF MemoryAgrees

LEMMA CompileAgrees ==
  ASSUME NEW p \in Proc, Alone(p), Compile(p), ~Assemble(p), ~Fatal(p), ~Crash(p)
  PROVE  FilesAgree' /\ \A q \in Proc : MemoryAgrees(q)'
<1>1. WorkInv
  BY DEF Alone
<1>2. CASE NextFile(p)
  <2>1. /\ pc[p] = "next" /\ Goto(p, "parse")
        /\ UNCHANGED <<selectorFile, classFile, output, committed, numbers, classes,
                       selectorAdded, classAdded>>
    BY <1>2 DEF NextFile, disk, memory, history
  <2> QED BY <2>1, CompilingAgrees
<1>3. CASE Send(p)
  <2> DEFINE name == Head(body[p]).name
  <2>1. name \in Selector /\ pc[p] = "parse" /\ UseSelector(p, name)
    BY <1>1, <1>3, StatementTypes DEF Send
  <2>2. /\ Goto(p, "parse")
        /\ UNCHANGED <<selectorFile, classFile, output, committed, classes, classAdded>>
    BY <1>1, <1>3, <2>1, ParseStays DEF Send, disk, history
  <2> HIDE DEF name
  <2> QED BY <1>1, <2>1, <2>2, UseSelectorAdds, CompilingAgrees
<1>4. CASE Mistake(p)
  <2>1. /\ pc[p] = "parse" /\ Goto(p, "parse")
        /\ UNCHANGED <<selectorFile, classFile, output, committed, numbers, classes,
                       selectorAdded, classAdded>>
    BY <1>1, <1>4, ParseStays DEF Mistake, Statements, disk, history
  <2> QED BY <2>1, CompilingAgrees
<1>5. CASE NoScriptNumber(p)
  <2>1. /\ pc[p] = "parse" /\ Goto(p, "next")
        /\ UNCHANGED <<selectorFile, classFile, output, committed, numbers, classes,
                       selectorAdded, classAdded>>
    BY <1>5 DEF NoScriptNumber, disk, history
  <2> QED BY <2>1, CompilingAgrees
<1> QED BY <1>2, <1>3, <1>4, <1>5, DeclareAgrees, DoClassAgrees, OpenObjFilesAgrees DEF Compile

(* Writing the compiled script: nobody relies on it yet.                   *)
LEMMA AssembleAgrees ==
  ASSUME NEW p \in Proc, Alone(p), Assemble(p)
  PROVE  FilesAgree' /\ \A q \in Proc : MemoryAgrees(q)'
<1> DEFINE new == [name \in Selector \cup Class |->
                     IF name \in used[p] THEN NumberIn(p, name) ELSE None]
<1>1. /\ pc[p] = "assemble" /\ pc \in [Proc -> Labels]
      /\ InHand(p) /\ ScriptOf(p) \in Script /\ ScriptOf(p) \notin committed
      /\ SelectorsAgree(p) /\ ClassesAgree(p) /\ pc[p] \in SelectorsRead /\ pc[p] \in ClassesRead
      /\ used[p] \cap Class \subseteq Defined(classes[p])
  BY DEF Assemble, Alone, WorkInv, TypeOK, InHand, MemoryAgrees, OutputAgrees,
         SelectorsRead, ClassesRead, Working, Emitting
<1>2. PICK label \in {"update", "next"} : Goto(p, label)
  BY DEF Assemble
<1>3. /\ output' = [output EXCEPT ![ScriptOf(p)] = new] /\ committed' = committed
      /\ UNCHANGED <<selectorFile, classFile, memory>>
      /\ label = "update" => files' = files
  BY <1>2 DEF Assemble, Goto, history, Alone, WorkInv, TypeOK
<1>4. /\ pc'[p] = label /\ \A q \in Proc \ {p} : pc'[q] = pc[q] /\ numbers'[q] = numbers[q]
      /\ output'[ScriptOf(p)] = new
      /\ \A script \in committed : output'[script] = output[script]
  BY <1>1, <1>2, <1>3 DEF Goto, memory, Alone, WorkInv, TypeOK
<1>5. FilesAgree'
  <2>1. selectorFile # Torn /\ classFile # Torn
    BY <1>1, FilesAreWhole
  <2>2. /\ Agreed(selectorFile) /\ ClassesAgreed(classFile)
        /\ \A name \in DOMAIN Builtin : selectorFile[name] # None
    BY <2>1 DEF Alone, FilesAgree
  <2> QED BY <1>3, <1>4, <2>1, <2>2 DEF FilesAgree, Agreed, ClassesAgreed
<1>6. SelectorsAgree(p)'
  BY <1>1, <1>3, <1>4 DEF SelectorsAgree, Agreed, memory
<1>7. ClassesAgree(p)'
  BY <1>1, <1>3, <1>4 DEF ClassesAgree, ClassesAgreed, SameNumbers, memory
<1>8. ASSUME NEW name \in Selector, new[name] # None PROVE numbers[p][name] = new[name]
  BY <1>8 DEF NumberIn
<1>9. ASSUME NEW class \in Class, new[class] # None
      PROVE  classes[p][class] \in ClassRec /\ classes[p][class].num = new[class]
  <2>1. class \notin Selector /\ class \in used[p]
    BY <1>9, NamesAssumption
  <2> QED BY <1>1, <2>1 DEF NumberIn, Defined
<1> HIDE DEF new
<1>10. OutputAgrees(p)'
  <2>1. CASE label = "next"
    BY <1>4, <2>1 DEF OutputAgrees, Updating, Writing
  <2>2. CASE label = "update"
    BY <1>3, <1>4, <1>8, <1>9, <2>2 DEF OutputAgrees, ScriptOf, memory
  <2> QED BY <2>1, <2>2
<1> QED BY <1>4, <1>5, <1>6, <1>7, <1>10, OthersAgree DEF MemoryAgrees

(* Rewriting the two files.                                                *)
LEMMA OpenFileAgrees ==
  ASSUME NEW p \in Proc, Alone(p), OpenSelectorFile(p) \/ OpenClassFile(p) \/ WriteSelector(p)
  PROVE  FilesAgree' /\ \A q \in Proc : MemoryAgrees(q)'
<1>1. /\ pc[p] \in Updating /\ pc \in [Proc -> Labels] /\ pc[p] \in SelectorsRead
      /\ pc[p] \in ClassesRead
      /\ SelectorsAgree(p) /\ ClassesAgree(p) /\ OutputAgrees(p)
      /\ UNCHANGED <<output, committed, memory, parser>>
      /\ DOMAIN Builtin \subseteq Selector
      /\ selectorAdded \in [Proc -> BOOLEAN]
  BY NumbersAssumption
     DEF OpenSelectorFile, OpenClassFile, WriteSelector, Alone, WorkInv, TypeOK, MemoryAgrees,
         Updating, Writing, SelectorsRead, ClassesRead, Working, Emitting, history
<1>2. PICK label \in {"writeSelectors", "updateClasses", "writeClasses"} :
        pc' = [pc EXCEPT ![p] = label]
  BY DEF OpenSelectorFile, OpenClassFile, WriteSelector, Goto
<1>3. pc'[p] = label /\ label \in Updating
      /\ \A q \in Proc \ {p} : pc'[q] = pc[q] /\ numbers'[q] = numbers[q]
  BY <1>1, <1>2 DEF Updating, Writing, memory
<1>4. OutputAgrees(p)'
  BY <1>1, <1>3 DEF OutputAgrees, ScriptOf, Updating, Writing, memory, parser
<1>5. CASE OpenSelectorFile(p)
  <2>1. pc[p] = "update" /\ classFile # Torn /\ selectorFile # Torn /\ classFile' = classFile
    BY <1>5, FilesAreWhole DEF OpenSelectorFile
  <2>2. \/ selectorAdded[p] /\ selectorFile' = Torn /\ label = "writeSelectors"
        \/ ~selectorAdded[p] /\ selectorFile' = selectorFile /\ label = "updateClasses"
           /\ selectorFile = numbers[p]
    BY <1>1, <1>2, <1>3, <1>5 DEF OpenSelectorFile, Goto, SelectorsAgree
  <2>3. FilesAgree'
    BY <1>1, <1>3, <2>1, <2>2 DEF Alone, FilesAgree, Agreed, ClassesAgreed
  <2>4. SelectorsAgree(p)'
    BY <1>1, <1>3, <2>2 DEF SelectorsAgree, Agreed, memory
  <2>5. ClassesAgree(p)'
    BY <1>1, <1>3, <2>1 DEF ClassesAgree, ClassesAgreed, SameNumbers, memory
  <2> QED BY <1>3, <1>4, <2>3, <2>4, <2>5, OthersAgree DEF MemoryAgrees
<1>6. CASE WriteSelector(p)
  <2>1. pc[p] = "writeSelectors" /\ classFile # Torn /\ classFile' = classFile
        /\ selectorFile' = numbers[p] /\ label = "updateClasses"
    BY <1>1, <1>3, <1>6, FilesAreWhole DEF WriteSelector, Goto
  <2>2. numbers[p] # Torn
    BY NamesAssumption DEF Alone, WorkInv, TypeOK
  <2>3. FilesAgree'
    BY <1>1, <1>3, <2>1, <2>2 DEF Alone, FilesAgree, Agreed, ClassesAgreed, SelectorsAgree
  <2>4. SelectorsAgree(p)'
    BY <1>1, <1>3, <2>1 DEF SelectorsAgree, Agreed, memory
  <2>5. ClassesAgree(p)'
    BY <1>1, <1>3, <2>1 DEF ClassesAgree, ClassesAgreed, SameNumbers, memory
  <2> QED BY <1>3, <1>4, <2>3, <2>4, <2>5, OthersAgree DEF MemoryAgrees
<1>7. CASE OpenClassFile(p)
  <2>1. pc[p] = "updateClasses" /\ classAdded[p] /\ selectorFile # Torn
        /\ selectorFile' = selectorFile /\ classFile' = Torn /\ label = "writeClasses"
    BY <1>1, <1>3, <1>7, FilesAreWhole DEF OpenClassFile, Goto
  <2>2. FilesAgree'
    BY <1>1, <1>3, <2>1 DEF Alone, FilesAgree, Agreed, ClassesAgreed
  <2>3. SelectorsAgree(p)'
    BY <1>1, <1>3, <2>1 DEF SelectorsAgree, Agreed, memory
  <2>4. ClassesAgree(p)'
    BY <1>1, <1>3, <2>1 DEF ClassesAgree, ClassesAgreed, SameNumbers, memory
  <2> QED BY <1>3, <1>4, <2>2, <2>3, <2>4, OthersAgree DEF MemoryAgrees
<1> QED BY <1>5, <1>6, <1>7

(* The script is committed, and its numbers are those of the files.        *)
LEMMA EndUpdateAgrees ==
  ASSUME NEW p \in Proc, Alone(p), NoNewClass(p) \/ WriteClassDefs(p)
  PROVE  FilesAgree' /\ \A q \in Proc : MemoryAgrees(q)'
<1>1. /\ pc[p] \in {"updateClasses", "writeClasses"} /\ pc[p] \in Updating
      /\ pc[p] \in SelectorsRead /\ pc[p] \in ClassesRead /\ pc \in [Proc -> Labels]
      /\ SelectorsAgree(p) /\ ClassesAgree(p) /\ OutputAgrees(p)
      /\ DOMAIN Builtin \subseteq Selector
  BY NumbersAssumption
     DEF NoNewClass, WriteClassDefs, Alone, WorkInv, TypeOK, MemoryAgrees,
         Updating, Writing, SelectorsRead, ClassesRead, Working, Emitting
<1>2. /\ EndUpdate(p) /\ pc' = [pc EXCEPT ![p] = "next"]
      /\ committed' = committed \cup {ScriptOf(p)}
      /\ UNCHANGED <<selectorFile, output, numbers, classes>>
  BY DEF NoNewClass, WriteClassDefs, EndUpdate, Goto
<1>3. selectorFile # Torn /\ selectorFile = numbers[p]
  BY <1>1, FilesAreWhole DEF SelectorsAgree
<1>4. Agreed(numbers[p])'
  BY <1>1, <1>2 DEF Agreed, SelectorsAgree, OutputAgrees
<1>5. ClassesAgreed(classes[p])'
  BY <1>1, <1>2 DEF ClassesAgreed, ClassesAgree, OutputAgrees
<1>6. classFile' # Torn /\ SameNumbers(classFile', classes[p])
  <2>1. CASE NoNewClass(p)
    BY <1>1, <2>1 DEF NoNewClass, ClassesAgree
  <2>2. CASE WriteClassDefs(p)
    <3>1. ~errors[p]
      BY <1>1 DEF Alone, WorkInv, InHand
    <3>2. classes[p] \in ClassMap
      BY <3>1 DEF Alone, WorkInv, TypeOK, InHand, ClassMap
    <3> QED BY <2>2, <3>2, NamesAssumption DEF WriteClassDefs, SameNumbers
  <2> QED BY <2>1, <2>2
<1>7. FilesAgree'
  BY <1>1, <1>2, <1>3, <1>4, <1>5, <1>6
     DEF FilesAgree, Agreed, ClassesAgreed, SameNumbers, SelectorsAgree
<1>8. pc'[p] = "next" /\ \A q \in Proc \ {p} : pc'[q] = pc[q] /\ numbers'[q] = numbers[q]
  BY <1>1, <1>2
<1>9. SelectorsAgree(p)'
  BY <1>1, <1>2, <1>3, <1>4, <1>8 DEF SelectorsAgree
<1>10. ClassesAgree(p)'
  BY <1>2, <1>5, <1>6 DEF ClassesAgree, SameNumbers
<1>11. OutputAgrees(p)'
  BY <1>8 DEF OutputAgrees, Updating, Writing
<1> QED BY <1>7, <1>8, <1>9, <1>10, <1>11, OthersAgree DEF MemoryAgrees

LEMMA WriteClassTblAgrees ==
  ASSUME NEW p \in Proc, Alone(p), WriteClassTbl(p), ~Crash(p)
  PROVE  FilesAgree' /\ \A q \in Proc : MemoryAgrees(q)'
<1>1. /\ pc[p] = "next" /\ Goto(p, "unlock")
      /\ UNCHANGED <<selectorFile, classFile, output, committed, parser, memory>>
  BY DEF WriteClassTbl, history
<1>2. FilesAgree'
  BY <1>1, FilesStay DEF Alone, WorkInv, TypeOK, Writing
<1>3. pc'[p] = "unlock" /\ \A q \in Proc \ {p} : pc'[q] = pc[q] /\ numbers'[q] = numbers[q]
  BY <1>1 DEF Alone, WorkInv, TypeOK, Goto, memory
<1>4. SelectorsAgree(p) /\ ClassesAgree(p) /\ pc[p] \in SelectorsRead /\ pc[p] \in ClassesRead
  BY <1>1 DEF Alone, MemoryAgrees, SelectorsRead, ClassesRead
<1>5. SelectorsAgree(p)' /\ ClassesAgree(p)' /\ OutputAgrees(p)'
  BY <1>1, <1>3, <1>4
     DEF SelectorsAgree, ClassesAgree, OutputAgrees, Agreed, ClassesAgreed, SameNumbers,
         Updating, Writing, memory
<1> QED BY <1>2, <1>3, <1>5, OthersAgree DEF MemoryAgrees

LEMMA AgreeBegins == Init => AgreeInv
<1> SUFFICES ASSUME Init PROVE FilesAgree /\ \A p \in Proc : MemoryAgrees(p)
  BY DEF AgreeInv
<1>1. selectorFile \in SelectorMap /\ classFile \in ClassMap
      /\ \A name \in DOMAIN Builtin : selectorFile[name] = Builtin[name]
  BY InputAssumption DEF Init
<1>2. \A name \in DOMAIN Builtin : Builtin[name] # None /\ NoNames[name] = Builtin[name]
  BY NumbersAssumption, NamesAssumption DEF NoNames, Numbers
<1>3. FilesAgree
  BY <1>1, <1>2, NamesAssumption DEF Init, FilesAgree, Agreed, ClassesAgreed
<1>4. \A p \in Proc : MemoryAgrees(p)
  BY <1>2 DEF Init, MemoryAgrees, SelectorsAgree, ClassesAgree, OutputAgrees,
              SelectorsRead, ClassesRead, Working, Emitting, Updating, Writing
<1> QED BY <1>3, <1>4

(* Nothing but its own work disturbs who is inside.                        *)
LEMMA StepInside ==
  ASSUME HasFlock, WorkInv, Locked, AgreeInv, NEW p \in Proc, Cooperative',
         ReadSelectors(p) \/ ReadClasses(p) \/ Compile(p) \/ Update(p) \/ WriteClassTbl(p),
         ~Crash(p), ~Fatal(p)
  PROVE  Alone(p) /\ Cooperative
<1>1. /\ Inside(p) /\ dontLock' = dontLock
  BY InsideSteps DEF MutexInv, WorkInv, TypeOK
<1>2. lost' = lost
  BY DEF ReadSelectors, ReadClasses, WriteClassTbl, Compile, Update, NextFile,
         Send, Declare, DoClass, InstallClass, RefuseClass, Mistake,
         OpenObjFiles, NoScriptNumber, Assemble, OpenSelectorFile,
         WriteSelector, OpenClassFile, NoNewClass, WriteClassDefs, EndUpdate, history
<1>3. Cooperative
  BY <1>1, <1>2 DEF Cooperative
<1> QED BY <1>1, <1>3 DEF Alone, AgreeInv, Cooperative, Locked

LEMMA FatalWritesNothing ==
  ASSUME NEW p \in Proc, pc \in [Proc -> Labels], Fatal(p),
         ReadSelectors(p) \/ ReadClasses(p) \/ Compile(p) \/ Update(p) \/ WriteClassTbl(p)
  PROVE  pc[p] \notin Writing
<1> SUFFICES ASSUME pc[p] \in Writing PROVE FALSE
  OBVIOUS
<1>1. WriteSelector(p) \/ WriteClassDefs(p)
  BY DEF ReadSelectors, ReadClasses, WriteClassTbl, Compile, Update, NextFile, Send,
         Declare, DoClass, Mistake, Statements, OpenObjFiles, NoScriptNumber,
         Assemble, OpenSelectorFile, OpenClassFile, NoNewClass, Writing
<1>2. pc'[p] = "failed"
  BY DEF Fatal, Goto
<1> QED BY <1>1, <1>2 DEF WriteSelector, WriteClassDefs, EndUpdate, Goto

LEMMA AgreeStep ==
  ASSUME HasFlock, WorkInv, Locked, AgreeInv, [Next]_vars
  PROVE  AgreeInv'
<1> SUFFICES ASSUME Cooperative' PROVE AgreeInv'
  BY DEF AgreeInv
<1>1. CASE UNCHANGED vars
  BY <1>1 DEF vars, disk, flags, parser, memory, history, AgreeInv, Cooperative, FilesAgree, Agreed,
              ClassesAgreed, SameNumbers, MemoryAgrees, SelectorsAgree, ClassesAgree,
              OutputAgrees, ScriptOf
<1>2. ASSUME NEW p \in Proc, Run(p) \/ Crash(p) PROVE AgreeInv'
  <2>1. CASE Lock(p) \/ Retry(p) \/ Unlock(p) \/ Crash(p)
    BY <2>1, ComingAndGoing
  <2>2. CASE /\ ReadSelectors(p) \/ ReadClasses(p) \/ Compile(p) \/ Update(p) \/ WriteClassTbl(p)
             /\ ~Crash(p)
    <3>1. CASE Fatal(p)
      BY <2>2, <3>1, FatalWritesNothing, ComingAndGoing DEF WorkInv, TypeOK
    <3>2. CASE ~Fatal(p)
      <4>1. Alone(p)
        BY <2>2, <3>2, StepInside
      <4>2. FilesAgree' /\ \A q \in Proc : MemoryAgrees(q)'
        BY <2>2, <3>2, <4>1, ReadSelectorsAgrees, ReadClassesAgrees, CompileAgrees,
           AssembleAgrees, OpenFileAgrees, EndUpdateAgrees, WriteClassTblAgrees DEF Update
      <4> QED BY <4>2 DEF AgreeInv
    <3> QED BY <3>1, <3>2
  <2> QED BY <1>2, <2>1, <2>2 DEF Run
<1> QED BY <1>1, <1>2 DEF Next, AllEnded

(* As long as everybody asks for the lock and nobody dies over a file that *)
(* is half written: a number that a compiled script was committed with is  *)
(* never given to another name, for any number of runs, scripts and names, *)
(* and wherever runs end early.                                            *)
THEOREM NumbersStay == ASSUME HasFlock PROVE Spec => []NumbersAreKept
<1>1. WorkInv /\ Locked /\ [Next]_vars => Locked'
  BY MutexStep DEF MutexInv, WorkInv, TypeOK
<1>2. Init => Locked
  BY DEF Init, Locked, Inside
<1>3. WorkInv /\ Locked /\ AgreeInv /\ [Next]_vars => AgreeInv'
  BY AgreeStep
<1>4. AgreeInv => NumbersAreKept
  <2>1. None \notin ClassRec
    BY NamesAssumption
  <2> QED BY <2>1 DEF AgreeInv, FilesAgree, Agreed, ClassesAgreed, NumbersAreKept
<1> QED BY <1>1, <1>2, <1>3, <1>4, WorkBegins, WorkGoesOn, AgreeBegins, PTL DEF Spec
-----------------------------------------------------------------------------
(* What has to hold of the memory of a run for the files it rewrites to be *)
(* readable.                                                               *)

(* Selectors have numbers of their own, which are taken; those of RootObj  *)
(* have the numbers the compiler gives them.                               *)
NumbersFit(map, taken) ==
  /\ UniqueNumbers(map)
  /\ \A name \in DOMAIN Builtin : map[name] = Builtin[name]
  /\ \A name \in Selector : map[name] # None => map[name] \in taken

(* NoGaps is what puts a super before its subclasses: a new class gets a   *)
(* number beyond all others.                                               *)
ClassesSound(map) ==
  /\ UniqueClasses(map) /\ NoGaps(map) /\ SupersExist(map)
  /\ moved \/ Readable(map)

(* Two maps differ at most in the selectors of a class.                    *)
SameClasses(file, map) ==
  \A class \in Class :
    /\ file[class] \in ClassRec <=> map[class] \in ClassRec
    /\ map[class] \in ClassRec => /\ map[class].num = file[class].num
                                  /\ map[class].super = file[class].super
                                  /\ map[class].script = file[class].script

FilesFit ==
  /\ selectorFile # Torn =>
       /\ UniqueNumbers(selectorFile)
       /\ \A name \in DOMAIN Builtin : selectorFile[name] = Builtin[name]
  /\ classFile # Torn => ClassesSound(classFile)
  /\ selectorFile # Torn /\ classFile # Torn => OwnAreKnown(classFile, selectorFile)

SelectorsFit(p) ==
  /\ NumbersFit(numbers[p], claimed[p])
  /\ pc[p] \in SelectorsRead /\ classFile # Torn => OwnAreKnown(classFile, numbers[p])

NotReadYet == {"start", "waiting", "readSelectors", "readClasses"}

(* Without a new class, the classes in memory are those of the file, and   *)
(* between two scripts there is none, unless there were errors.            *)
ClassesFit(p) ==
  /\ pc[p] \in NotReadYet => ~classAdded[p]
  /\ pc[p] \in ClassesRead =>
       /\ ClassesSound(classes[p])
       /\ OwnAreKnown(classes[p], numbers[p])
       /\ ~classAdded[p] => classFile # Torn /\ SameClasses(classFile, classes[p])
  /\ pc[p] = "next" /\ ~errors[p] => ~classAdded[p]

Fit == FilesFit /\ \A p \in Proc : SelectorsFit(p) /\ ClassesFit(p)

FitInv == Cooperative => Fit

(* Two maps with the same classes, under the same supers, are sound alike. *)
SameTree(f, m) ==
  /\ Defined(m) = Defined(f)
  /\ \A class \in Defined(f) : m[class].num = f[class].num /\ m[class].super = f[class].super

LEMMA SameTreeSound ==
  ASSUME NEW f, NEW m, SameTree(f, m), ClassesSound(f)
  PROVE  ClassesSound(m)
<1>1. Defined(m) = Defined(f)
  BY DEF SameTree
<1>2. \A class \in Defined(f) : m[class].num = f[class].num /\ m[class].super = f[class].super
  BY DEF SameTree
<1>3. UniqueClasses(m) /\ NoGaps(m) /\ SupersExist(m)
  BY <1>1, <1>2 DEF ClassesSound, UniqueClasses, NoGaps, SupersExist
<1>4. Readable(f) => Readable(m)
  BY <1>1, <1>2 DEF Readable, SuperFound
<1> QED BY <1>3, <1>4 DEF ClassesSound

(* The memory of runs that are not inside does not matter to the files.    *)
LEMMA OthersFit ==
  ASSUME NEW p \in Proc, Alone(p), Fit, SelectorsFit(p)', ClassesFit(p)',
         \A q \in Proc \ {p} : /\ pc'[q] = pc[q] /\ numbers'[q] = numbers[q]
                               /\ claimed'[q] = claimed[q] /\ classAdded'[q] = classAdded[q]
  PROVE  \A q \in Proc : SelectorsFit(q)' /\ ClassesFit(q)'
<1> SUFFICES ASSUME NEW q \in Proc, q # p PROVE SelectorsFit(q)' /\ ClassesFit(q)'
  OBVIOUS
<1>1. /\ ~Inside(q) /\ SelectorsFit(q) /\ ClassesFit(q)
      /\ pc'[q] = pc[q] /\ numbers'[q] = numbers[q]
      /\ claimed'[q] = claimed[q] /\ classAdded'[q] = classAdded[q]
  BY DEF Alone, Fit
<1>2. pc[q] \notin SelectorsRead /\ pc[q] \notin ClassesRead /\ pc[q] # "next"
  BY <1>1, InsideMeansRead DEF ClassesRead
<1> QED BY <1>1, <1>2 DEF SelectorsFit, ClassesFit, NumbersFit

(* A run comes, waits or goes.                                             *)
LEMMA ComingAndGoingFits ==
  ASSUME WorkInv, FitInv, Cooperative', NEW p \in Proc,
         Lock(p) \/ Retry(p) \/ Unlock(p) \/ Crash(p) \/ (Fatal(p) /\ pc[p] \notin Writing)
  PROVE  FitInv'
<1>1. Cooperative
  <2>1. CASE Crash(p)
    BY <2>1 DEF Cooperative, Crash, flags, WorkInv, TypeOK
  <2>2. CASE ~Crash(p)
    BY <2>2 DEF Cooperative, Lock, Retry, Unlock, Fatal, flags, history, Writing
  <2> QED BY <2>1, <2>2
<1>2. PICK label \in {"readSelectors", "waiting", "done", "failed", "crashed"} :
        pc' = [pc EXCEPT ![p] = label]
  BY DEF Lock, Retry, Unlock, Fatal, Crash, Goto
<1>3. UNCHANGED <<disk, parser, memory, committed, moved>>
  BY DEF Lock, Retry, Unlock, Fatal, Crash, history
<1>4. label = "readSelectors" \/ label = "waiting" => pc[p] \in NotReadYet
  BY <1>2 DEF Lock, Retry, Unlock, Fatal, Crash, NotReadYet, Goto, WorkInv, TypeOK
<1>5. Fit /\ pc \in [Proc -> Labels]
  BY <1>1 DEF FitInv, WorkInv, TypeOK
<1>6. FilesFit'
  BY <1>3, <1>5 DEF Fit, FilesFit, ClassesSound, disk
<1>7. ASSUME NEW q \in Proc PROVE SelectorsFit(q)' /\ ClassesFit(q)'
  <2>1. /\ pc'[q] \in NotReadYet => pc[q] \in NotReadYet
        /\ \/ pc'[q] = pc[q]
           \/ pc'[q] \notin SelectorsRead /\ pc'[q] \notin ClassesRead /\ pc'[q] # "next"
    BY <1>2, <1>4, <1>5
       DEF SelectorsRead, ClassesRead, Working, Emitting, Updating, Writing, NotReadYet
  <2>2. SelectorsFit(q) /\ ClassesFit(q)
    BY <1>5 DEF Fit
  <2> QED BY <1>3, <2>1, <2>2 DEF SelectorsFit, ClassesFit, NumbersFit, ClassesSound, disk, memory
<1> QED BY <1>6, <1>7 DEF FitInv, Fit

LEMMA ReadSelectorsFits ==
  ASSUME NEW p \in Proc, Alone(p), Fit, ReadSelectors(p), ~Fatal(p)
  PROVE  Fit'
<1> DEFINE taken == {selectorFile[name] : name \in {n \in Selector \ DOMAIN Builtin :
                                                     selectorFile[n] # None}}
<1>1. /\ pc[p] = "readSelectors" /\ pc' = [pc EXCEPT ![p] = "readClasses"]
      /\ selectorFile # Torn /\ selectorFile \in SelectorMap /\ InitSelectors(p, selectorFile)
      /\ classFile # Torn /\ pc \in [Proc -> Labels]
      /\ UNCHANGED <<disk, classAdded, moved>>
  BY FilesAreWhole DEF ReadSelectors, history, Goto, Alone, WorkInv, TypeOK
<1>2. FilesFit /\ SelectorsFit(p) /\ ClassesFit(p)
  BY DEF Fit
<1>3. FilesFit'
  BY <1>1, <1>2 DEF FilesFit, ClassesSound, disk
<1>4. [name \in Selector |-> IF selectorFile[name] # None THEN selectorFile[name]
                             ELSE NoNames[name]] = selectorFile
  <2>1. \A name \in Selector : selectorFile[name] = None => NoNames[name] = None
    BY <1>1 DEF Alone, FilesAgree, NoNames
  <2> QED BY <1>1, <2>1 DEF SelectorMap
<1>5. /\ numbers' = [numbers EXCEPT ![p] = selectorFile]
      /\ claimed' = [claimed EXCEPT ![p] = claimed[p] \cup taken]
  BY <1>1, <1>4 DEF InitSelectors
<1>6. /\ numbers'[p] = selectorFile /\ claimed'[p] = claimed[p] \cup taken
      /\ pc'[p] = "readClasses" /\ classAdded' = classAdded
      /\ \A q \in Proc \ {p} : pc'[q] = pc[q] /\ numbers'[q] = numbers[q]
                               /\ claimed'[q] = claimed[q]
  BY <1>1, <1>5 DEF Alone, WorkInv, TypeOK
<1>7. ASSUME NEW name \in Selector, selectorFile[name] # None
      PROVE  selectorFile[name] \in claimed[p] \cup taken
  <2>1. CASE name \in DOMAIN Builtin
    <3>1. selectorFile[name] = numbers[p][name]
      BY <1>1, <1>2, <2>1 DEF FilesFit, SelectorsFit, NumbersFit
    <3> QED BY <1>2, <1>7, <3>1 DEF SelectorsFit, NumbersFit
  <2>2. CASE name \notin DOMAIN Builtin
    BY <1>7, <2>2
  <2> QED BY <2>1, <2>2
<1> HIDE DEF taken
<1>8. NumbersFit(numbers[p], claimed[p])'
  BY <1>1, <1>2, <1>6, <1>7 DEF FilesFit, NumbersFit
<1>9. SelectorsFit(p)'
  BY <1>1, <1>2, <1>6, <1>8 DEF SelectorsFit, FilesFit, disk
<1>10. ClassesFit(p)'
  BY <1>1, <1>2, <1>6
     DEF ClassesFit, ClassesRead, NotReadYet, Working, Emitting, Updating, Writing
<1> QED BY <1>3, <1>6, <1>9, <1>10, OthersFit DEF Fit

LEMMA ReadClassesFits ==
  ASSUME NEW p \in Proc, Alone(p), Fit, ReadClasses(p), ~Fatal(p)
  PROVE  Fit'
<1> DEFINE read == [class \in Class |-> IF class \in Defined(classFile)
                            THEN [classFile[class] EXCEPT !.own = classFile[class].own \cap Known(p)]
                            ELSE None]
<1>1. /\ pc[p] = "readClasses" /\ pc' = [pc EXCEPT ![p] = "next"]
      /\ classFile # Torn /\ classFile \in ClassMap /\ DefineClasses(p, classFile)
      /\ pc \in [Proc -> Labels]
      /\ UNCHANGED <<disk, numbers, claimed, classAdded, moved>>
  BY FilesAreWhole DEF ReadClasses, history, Goto, Alone, WorkInv, TypeOK
<1>2. FilesFit /\ SelectorsFit(p) /\ ClassesFit(p)
  BY DEF Fit
<1>3. FilesFit'
  BY <1>1, <1>2 DEF FilesFit, ClassesSound, disk
<1>4. ASSUME NEW class \in Class
      PROVE  /\ classFile[class] \in ClassRec =>
                  /\ read[class] \in ClassRec
                  /\ read[class].num = classFile[class].num
                  /\ read[class].super = classFile[class].super
                  /\ read[class].script = classFile[class].script
                  /\ read[class].own \subseteq Known(p)
             /\ read[class] \in ClassRec => classFile[class] \in ClassRec
  BY <1>1, NamesAssumption DEF Defined, ClassMap, ClassRec
<1>5. classes' = [classes EXCEPT ![p] = read] /\ DOMAIN read = Class
  BY <1>1 DEF DefineClasses
<1> HIDE DEF read
<1>6. /\ classes'[p] = read /\ pc'[p] = "next"
      /\ \A q \in Proc \ {p} : pc'[q] = pc[q]
  BY <1>1, <1>5 DEF Alone, WorkInv, TypeOK
<1>7. SameClasses(classFile, read)
  BY <1>4 DEF SameClasses
<1>8. ClassesSound(read)
  <2>1. DOMAIN classFile = Class /\ ClassesSound(classFile)
    BY <1>1, <1>2 DEF ClassMap, FilesFit
  <2>2. SameTree(classFile, read)
    BY <1>5, <1>7, <2>1 DEF SameClasses, SameTree, Defined
  <2> QED BY <2>1, <2>2, SameTreeSound
<1>9. OwnAreKnown(read, numbers[p])
  BY <1>4, <1>5 DEF OwnAreKnown, Known, Defined
<1>10. SelectorsFit(p)'
  BY <1>1, <1>2, <1>6 DEF SelectorsFit, SelectorsRead, disk
<1>11. ~classAdded[p]
  BY <1>1, <1>2 DEF ClassesFit, NotReadYet
<1>12. ClassesFit(p)'
  <2>1. ClassesSound(classes[p])'
    BY <1>1, <1>6, <1>8 DEF ClassesSound
  <2>2. OwnAreKnown(classes[p], numbers[p])'
    BY <1>1, <1>6, <1>9 DEF OwnAreKnown
  <2>3. classFile' # Torn /\ SameClasses(classFile, classes[p])' /\ ~classAdded'[p]
    BY <1>1, <1>6, <1>7, <1>11 DEF SameClasses, disk
  <2> QED BY <1>6, <2>1, <2>2, <2>3 DEF ClassesFit
<1> QED BY <1>1, <1>3, <1>6, <1>10, <1>12, OthersFit DEF Fit

(* While it compiles, a run only adds to the numbers it knows, and marks   *)
(* the classes as changed before they are.                                 *)
LEMMA CompilingFits ==
  ASSUME NEW p \in Proc, Alone(p), Fit, pc[p] = "parse" \/ pc[p] = "next",
         NEW label \in {"parse", "next", "assemble"}, Goto(p, label),
         UNCHANGED <<selectorFile, classFile>>, moved => moved',
         \A q \in Proc \ {p} : numbers'[q] = numbers[q] /\ claimed'[q] = claimed[q]
                               /\ classAdded'[q] = classAdded[q],
         NumbersFit(numbers'[p], claimed'[p]),
         \A name \in Selector : numbers[p][name] # None => numbers'[p][name] # None,
         ClassesSound(classes[p])', OwnAreKnown(classes'[p], numbers'[p]),
         ~classAdded'[p] => ~classAdded[p] /\ SameClasses(classes[p], classes'[p]),
         label = "next" /\ ~errors'[p] => ~classAdded'[p]
  PROVE  Fit'
<1>1. /\ pc'[p] = label /\ \A q \in Proc \ {p} : pc'[q] = pc[q]
      /\ classes \in [Proc -> [Class -> ClassRec \cup {None, Hollow}]]
  BY DEF Alone, WorkInv, TypeOK, Goto
<1>2. pc[p] \in SelectorsRead /\ pc[p] \in ClassesRead /\ pc'[p] \notin NotReadYet
      /\ FilesFit /\ SelectorsFit(p) /\ ClassesFit(p)
  BY <1>1 DEF Fit, SelectorsRead, ClassesRead, Working, Emitting, NotReadYet
<1>3. FilesFit'
  BY <1>2 DEF FilesFit, ClassesSound
<1>4. classFile # Torn /\ classFile \in ClassMap
  BY FilesAreWhole
<1>5. OwnAreKnown(classFile, numbers'[p])
  BY <1>2, <1>4 DEF SelectorsFit, OwnAreKnown, Defined, ClassMap, ClassRec
<1>6. SelectorsFit(p)'
  BY <1>5 DEF SelectorsFit, NumbersFit
<1>7. ~classAdded'[p] => SameClasses(classFile, classes'[p])
  BY <1>2 DEF ClassesFit, SameClasses
<1>8. ClassesFit(p)'
  BY <1>1, <1>2, <1>4, <1>7 DEF ClassesFit, SameClasses, OwnAreKnown
<1> QED BY <1>1, <1>3, <1>6, <1>8, OthersFit DEF Fit


(* A name that is used gets a number of its own.                           *)
LEMMA UseSelectorFits ==
  ASSUME NEW p \in Proc, WorkInv, NEW name \in Selector, UseSelector(p, name),
         NumbersFit(numbers[p], claimed[p])
  PROVE  /\ NumbersFit(numbers'[p], claimed'[p])
         /\ numbers'[p][name] # None
         /\ \A q \in Proc \ {p} : claimed'[q] = claimed[q]
<1>1. CASE IsSelector(p, name) /\ UNCHANGED <<numbers, claimed, selectorAdded>>
  BY <1>1 DEF IsSelector
<1>2. CASE ~IsSelector(p, name) /\ claimed[p] # Numbers /\ InstallSelector(p, name)
  <2>1. /\ numbers \in [Proc -> SelectorMap] /\ claimed \in [Proc -> SUBSET Numbers]
        /\ numbers[p][name] = None
    BY <1>2 DEF WorkInv, TypeOK, IsSelector
  <2>2. NewSelectorNum(p) \in Numbers \ claimed[p]
    <3>1. ~(0 .. SelectorLimit - 1 \subseteq claimed[p])
      BY <1>2, <2>1 DEF Numbers
    <3> QED BY <3>1, LeastFreeIsFree, NumbersAssumption DEF NewSelectorNum, Numbers
  <2> DEFINE num == NewSelectorNum(p)
  <2>3. num # None
    BY <2>2, NamesAssumption DEF Numbers
  <2>4. /\ numbers' = [numbers EXCEPT ![p] = [numbers[p] EXCEPT ![name] = num]]
        /\ claimed' = [claimed EXCEPT ![p] = claimed[p] \cup {num}]
    BY <1>2 DEF InstallSelector
  <2> HIDE DEF num
  <2>5. /\ numbers'[p] = [numbers[p] EXCEPT ![name] = num]
        /\ claimed'[p] = claimed[p] \cup {num}
        /\ \A q \in Proc \ {p} : claimed'[q] = claimed[q]
    BY <2>1, <2>4
  <2>6. numbers[p] \in [Selector -> Numbers \cup {None}]
    BY <2>1 DEF SelectorMap
  <2>7. /\ numbers'[p][name] = num
        /\ \A n \in Selector \ {name} : numbers'[p][n] = numbers[p][n]
    BY <2>5, <2>6
  <2>8. \A n \in Selector \ {name} : numbers[p][n] # num
    BY <2>2, <2>3 DEF NumbersFit, num
  <2>9. UniqueNumbers(numbers'[p])
    BY <2>3, <2>7, <2>8 DEF NumbersFit, UniqueNumbers
  <2>10. name \notin DOMAIN Builtin
    BY <2>1, NumbersAssumption, NamesAssumption DEF NumbersFit, Numbers
  <2> QED BY <2>3, <2>5, <2>7, <2>9, <2>10, NumbersAssumption DEF NumbersFit
<1> QED BY <1>1, <1>2 DEF UseSelector

(* A class that is known keeps its number; if it was right under RootObj,  *)
(* it may move.                                                            *)
LEMMA OldClassSound ==
  ASSUME NEW map \in [Class -> ClassRec \cup {None, Hollow}], ClassesSound(map),
         NEW class \in Defined(map), NEW rec \in ClassRec,
         rec.num = map[class].num,
         \/ rec.super = RootNum
         \/ \E other \in Defined(map) : map[other].num = rec.super,
         moved => moved',
         moved' \/ rec.super = map[class].super
  PROVE  LET new == [map EXCEPT ![class] = rec] IN
           UniqueClasses(new) /\ NoGaps(new) /\ SupersExist(new) /\ (moved' \/ Readable(new))
<1> DEFINE new == [map EXCEPT ![class] = rec]
<1>1. /\ Defined(new) = Defined(map)
      /\ \A c \in Defined(map) : new[c].num = map[c].num /\ (c # class => new[c] = map[c])
      /\ new[class] = rec
  BY DEF Defined
<1> HIDE DEF new
<1>2. UniqueClasses(new) /\ NoGaps(new)
  BY <1>1 DEF ClassesSound, UniqueClasses, NoGaps
<1>3. SupersExist(new)
  BY <1>1 DEF ClassesSound, SupersExist
<1>4. ASSUME ~moved' PROVE Readable(new)
  BY <1>1, <1>4 DEF ClassesSound, Readable, SuperFound
<1> QED BY <1>2, <1>3, <1>4 DEF new

(* Numbers of classes have no gaps, so that a new one comes after all.     *)
LEMMA NewClassSound ==
  ASSUME NEW map \in [Class -> ClassRec \cup {None, Hollow}], ClassesSound(map),
         NEW class \in Class, class \notin Defined(map), NEW rec \in ClassRec,
         \A other \in Defined(map) : map[other].num # rec.num,
         \A num \in ClassNumbers : (\A other \in Defined(map) : map[other].num # num)
                                    => rec.num <= num,
         \/ rec.super = RootNum
         \/ \E other \in Defined(map) : map[other].num = rec.super,
         moved => moved'
  PROVE  LET new == [map EXCEPT ![class] = rec] IN
           UniqueClasses(new) /\ NoGaps(new) /\ SupersExist(new) /\ (moved' \/ Readable(new))
<1> DEFINE new == [map EXCEPT ![class] = rec]
<1>1. /\ Defined(new) = Defined(map) \cup {class}
      /\ \A c \in Defined(map) : new[c] = map[c]
      /\ new[class] = rec
  BY DEF Defined
<1>2. /\ rec.num \in ClassNumbers /\ \A c \in Defined(map) : map[c].num \in ClassNumbers
      /\ ClassNumbers = 0 .. ClassLimit - 1 /\ ClassLimit \in Nat
  BY NumbersAssumption DEF Defined, ClassRec, ClassNumbers
<1> HIDE DEF new
<1>3. \A c \in Defined(map) : map[c].num < rec.num
  <2> SUFFICES ASSUME NEW c \in Defined(map), rec.num <= map[c].num PROVE FALSE
    BY <1>2
  <2>1. rec.num \in 0 .. map[c].num
    BY <1>2
  <2> QED BY <2>1 DEF ClassesSound, NoGaps
<1>4. UniqueClasses(new)
  BY <1>1 DEF ClassesSound, UniqueClasses
<1>5. NoGaps(new)
  <2> SUFFICES ASSUME NEW c \in Defined(new), NEW num \in 0 .. new[c].num
               PROVE  \E other \in Defined(new) : new[other].num = num
    BY DEF NoGaps
  <2>1. CASE c # class
    BY <1>1, <2>1 DEF ClassesSound, NoGaps
  <2>2. CASE c = class /\ num = rec.num
    BY <1>1, <2>2
  <2>3. CASE c = class /\ num # rec.num
    <3>1. num \in ClassNumbers /\ ~(rec.num <= num)
      BY <1>1, <1>2, <2>3
    <3>2. \E other \in Defined(map) : map[other].num = num
      BY <3>1
    <3> QED BY <1>1, <3>2
  <2> QED BY <2>1, <2>2, <2>3
<1>6. SupersExist(new)
  BY <1>1 DEF ClassesSound, SupersExist
<1>7. ASSUME ~moved' PROVE Readable(new)
  <2> SUFFICES ASSUME NEW c \in Defined(new) PROVE SuperFound(new, c)
    BY DEF Readable
  <2>1. CASE c = class
    BY <1>1, <1>3, <2>1 DEF SuperFound
  <2>2. CASE c # class
    BY <1>1, <1>7, <2>2 DEF ClassesSound, Readable, SuperFound
  <2> QED BY <2>1, <2>2
<1> QED BY <1>4, <1>5, <1>6, <1>7 DEF new

LEMMA DeclareFits ==
  ASSUME NEW p \in Proc, Alone(p), Fit, Declare(p), ~Fatal(p)
  PROVE  Fit'
<1> DEFINE name == Head(body[p]).name
           class == curClass[p]
<1>1. /\ WorkInv /\ name \in Selector /\ pc[p] = "parse" /\ InHand(p)
      /\ classes \in [Proc -> [Class -> ClassRec \cup {None, Hollow}]]
      /\ SelectorsFit(p) /\ ClassesFit(p) /\ pc[p] \in ClassesRead
  BY StatementTypes
     DEF Declare, Alone, WorkInv, TypeOK, Fit, ClassesRead, Working
<1>2. /\ Goto(p, "parse")
      /\ UNCHANGED <<selectorFile, classFile, classAdded, errors, moved>>
  BY <1>1, ParseStays DEF Declare, Statements, disk, history, memory
<1>3. CASE UNCHANGED memory
  BY <1>1, <1>2, <1>3, CompilingFits
     DEF memory, SelectorsFit, ClassesFit, ClassesSound, SameClasses
<1>4. CASE /\ class # None /\ UseSelector(p, name)
           /\ classes' = [classes EXCEPT ![p][class].own = @ \cup {name}]
  <2> DEFINE new == [classes[p][class] EXCEPT !.own = classes[p][class].own \cup {name}]
  <2>1. class \in Defined(classes[p])
    BY <1>1, <1>4 DEF InHand
  <2>2. class \in Class /\ classes[p][class] \in ClassRec
    BY <1>1, <2>1 DEF Defined
  <2>3. /\ new \in ClassRec /\ new.num = classes[p][class].num
        /\ new.super = classes[p][class].super /\ new.script = classes[p][class].script
        /\ new.own = classes[p][class].own \cup {name}
    BY <1>1, <2>2 DEF ClassRec
  <2>4. classes' = [classes EXCEPT ![p] = [classes[p] EXCEPT ![class] = new]]
    BY <1>4
  <2> HIDE DEF name, class, new
  <2>5. classes'[p] = [classes[p] EXCEPT ![class] = new]
    BY <1>1, <2>4
  <2>6. /\ SameTree(classes[p], classes'[p]) /\ SameClasses(classes[p], classes'[p])
    BY <1>1, <2>2, <2>3, <2>5 DEF SameTree, SameClasses, Defined
  <2>7. /\ NumbersFit(numbers'[p], claimed'[p])
        /\ \A q \in Proc \ {p} : numbers'[q] = numbers[q] /\ claimed'[q] = claimed[q]
        /\ \A n \in Selector : numbers[p][n] # None => numbers'[p][n] # None
        /\ numbers'[p][name] # None
    BY <1>1, <1>4, UseSelectorFits, UseSelectorAdds DEF SelectorsFit
  <2>8. ClassesSound(classes[p])
    BY <1>1 DEF ClassesFit
  <2>9. ClassesSound(classes'[p])
    BY <2>6, <2>8, SameTreeSound
  <2>10. ClassesSound(classes[p])'
    BY <1>2, <2>9 DEF ClassesSound
  <2>11. OwnAreKnown(classes'[p], numbers'[p])
    <3> SUFFICES ASSUME NEW c \in Defined(classes'[p]), NEW n \in classes'[p][c].own
                 PROVE  numbers'[p][n] # None
      BY DEF OwnAreKnown
    <3>1. c \in Defined(classes[p]) /\ (n \in classes[p][c].own \/ n = name)
      BY <1>1, <2>1, <2>2, <2>3, <2>5, <2>6 DEF SameTree, Defined
    <3>2. n \in classes[p][c].own => numbers[p][n] # None /\ n \in Selector
      BY <1>1, <3>1 DEF ClassesFit, OwnAreKnown, Defined, ClassRec
    <3> QED BY <2>7, <3>1, <3>2
  <2> QED BY <1>1, <1>2, <2>6, <2>7, <2>10, <2>11, CompilingFits
<1> QED BY <1>3, <1>4 DEF Declare

(* A class is entered.  A super that is in memory is found, and only a     *)
(* class right under RootObj can get another.                              *)
LEMMA InstallClassFits ==
  ASSUME NEW p \in Proc, Alone(p), Fit, pc[p] = "parse", Statements(p, "class"),
         NEW class \in Class, NEW super \in {RootObj} \cup Defined(classes[p]),
         SuperAllowed(p, class, super), ~NoNumberLeft(p, class),
         InstallClass(p, class, NumberOf(p, class), super)
  PROVE  Fit'
<1> DEFINE map == classes[p]
           rec == [num |-> NumberOf(p, class), super |-> SuperNum(p, super),
                   script |-> Head(files[p]).script, own |-> {}]
           new == [map EXCEPT ![class] = rec]
<1>1. /\ WorkInv /\ classes \in [Proc -> [Class -> ClassRec \cup {None, Hollow}]]
      /\ map \in [Class -> ClassRec \cup {None, Hollow}]
      /\ classAdded \in [Proc -> BOOLEAN]
      /\ SelectorsFit(p) /\ ClassesFit(p) /\ pc[p] \in ClassesRead
  BY DEF Alone, WorkInv, TypeOK, Fit, ClassesRead, Working
<1>2. /\ Goto(p, "parse") /\ classes' = [classes EXCEPT ![p] = new]
      /\ UNCHANGED <<selectorFile, classFile, numbers, claimed>>
      /\ classAdded' = [classAdded EXCEPT ![p] = TRUE]
      /\ moved' = (moved \/ (IsRoot(p, class) /\ super # RootObj))
  BY <1>1, ParseStays DEF InstallClass, disk
<1>3. /\ rec \in ClassRec
      /\ \/ rec.super = RootNum
         \/ \E other \in Defined(map) : map[other].num = rec.super
  <2>1. SuperNum(p, super) \in {RootNum} \cup ClassNumbers
    BY DEF SuperNum, Defined, ClassRec
  <2>2. Head(files[p]).script \in Script \cup {None}
    BY <1>1, StatementTypes DEF File
  <2>3. rec \in ClassRec
    BY <1>1, <2>1, <2>2, NumberOfClass DEF ClassRec
  <2> QED BY <2>3 DEF SuperNum
<1>4. ClassesSound(map) /\ OwnAreKnown(map, numbers[p])
  BY <1>1 DEF ClassesFit
<1>5. UniqueClasses(new) /\ NoGaps(new) /\ SupersExist(new) /\ (moved' \/ Readable(new))
  <2>1. CASE IsClass(p, class)
    <3>1. class \in Defined(map) /\ rec.num = map[class].num
      BY <1>1, <2>1 DEF IsClass, Defined, NumberOf
    <3>2. moved' \/ rec.super = map[class].super
      <4>1. CASE IsRoot(p, class)
        BY <1>2, <4>1 DEF IsRoot, SuperNum
      <4>2. CASE ~IsRoot(p, class)
        BY <2>1, <4>2 DEF SuperAllowed
      <4> QED BY <4>1, <4>2
    <3>3. moved => moved'
      BY <1>2
    <3> HIDE DEF map, rec
    <3>4. LET n == [map EXCEPT ![class] = rec] IN
            UniqueClasses(n) /\ NoGaps(n) /\ SupersExist(n) /\ (moved' \/ Readable(n))
      BY <1>1, <1>3, <1>4, <3>1, <3>2, <3>3, OldClassSound
    <3> QED BY <3>4
  <2>2. CASE ~IsClass(p, class)
    <3>1. class \notin Defined(map)
      BY <2>2 DEF IsClass, Defined
    <3>2. /\ rec.num \in ClassNumbers \ TakenClasses(p)
          /\ \A n \in ClassNumbers \ TakenClasses(p) : rec.num <= n
      <4>1. TakenClasses(p) \subseteq ClassNumbers
        BY DEF TakenClasses, Defined, ClassRec
      <4>2. ~(0 .. ClassLimit - 1 \subseteq TakenClasses(p))
        BY <2>2, <4>1 DEF NoNumberLeft, ClassNumbers
      <4>3. /\ GetClassNumber(p) \in ClassNumbers \ TakenClasses(p)
            /\ \A n \in ClassNumbers \ TakenClasses(p) : GetClassNumber(p) <= n
        BY <4>2, LeastFreeIsFree, NumbersAssumption DEF GetClassNumber, ClassNumbers
      <4> QED BY <2>2, <4>3 DEF NumberOf
    <3>3. \A num : num \in TakenClasses(p) <=> \E other \in Defined(map) : map[other].num = num
      BY DEF TakenClasses
    <3>4. moved => moved'
      BY <1>2
    <3> HIDE DEF map, rec
    <3>5. \A other \in Defined(map) : map[other].num # rec.num
      BY <3>2, <3>3
    <3>6. \A num \in ClassNumbers : (\A other \in Defined(map) : map[other].num # num)
                                     => rec.num <= num
      BY <3>2, <3>3
    <3>7. LET n == [map EXCEPT ![class] = rec] IN
            UniqueClasses(n) /\ NoGaps(n) /\ SupersExist(n) /\ (moved' \/ Readable(n))
      BY <1>1, <1>3, <1>4, <3>1, <3>4, <3>5, <3>6, NewClassSound
    <3> QED BY <3>7
  <2> QED BY <2>1, <2>2
<1>6. OwnAreKnown(new, numbers[p])
  BY <1>1, <1>4 DEF OwnAreKnown, Defined
<1> HIDE DEF new
<1>7. /\ classes'[p] = new /\ classAdded'[p]
      /\ \A q \in Proc \ {p} : classAdded'[q] = classAdded[q]
  BY <1>1, <1>2
<1>8. ClassesSound(classes[p])'
  BY <1>5, <1>7 DEF ClassesSound
<1> QED BY <1>1, <1>2, <1>6, <1>7, <1>8, CompilingFits DEF SelectorsFit

LEMMA RefuseClassFits ==
  ASSUME NEW p \in Proc, Alone(p), Fit, pc[p] = "parse", NEW class \in Class,
         RefuseClass(p, class)
  PROVE  Fit'
<1> DEFINE map == classes[p]
           rec == IF map[class] \in ClassRec THEN [map[class] EXCEPT !.own = {}] ELSE Hollow
           new == [map EXCEPT ![class] = rec]
<1>1. /\ WorkInv /\ classes \in [Proc -> [Class -> ClassRec \cup {None, Hollow}]]
      /\ map \in [Class -> ClassRec \cup {None, Hollow}]
      /\ classAdded \in [Proc -> BOOLEAN]
      /\ SelectorsFit(p) /\ ClassesFit(p) /\ pc[p] \in ClassesRead
  BY DEF Alone, WorkInv, TypeOK, Fit, ClassesRead, Working
<1>2. /\ Goto(p, "parse") /\ classes' = [classes EXCEPT ![p] = new]
      /\ UNCHANGED <<selectorFile, classFile, numbers, claimed, moved>>
      /\ classAdded' = [classAdded EXCEPT ![p] = TRUE]
  BY <1>1, ParseStays DEF RefuseClass, disk, history
<1>3. /\ map[class] \in ClassRec =>
           /\ rec \in ClassRec /\ rec.num = map[class].num /\ rec.super = map[class].super
           /\ rec.own = {}
      /\ map[class] \notin ClassRec => rec \notin ClassRec
  BY NamesAssumption DEF ClassRec
<1>4. SameTree(map, new)
  BY <1>1, <1>3 DEF SameTree, Defined
<1>5. OwnAreKnown(new, numbers[p])
  BY <1>1, <1>3 DEF ClassesFit, OwnAreKnown, Defined
<1>6. ClassesSound(new)
  BY <1>1, <1>4, SameTreeSound DEF ClassesFit
<1> HIDE DEF new
<1>7. /\ classes'[p] = new /\ classAdded'[p]
      /\ \A q \in Proc \ {p} : classAdded'[q] = classAdded[q]
  BY <1>1, <1>2
<1>8. ClassesSound(classes[p])'
  BY <1>2, <1>6, <1>7 DEF ClassesSound
<1> QED BY <1>1, <1>2, <1>5, <1>7, <1>8, CompilingFits DEF SelectorsFit

LEMMA CompileFits ==
  ASSUME NEW p \in Proc, Alone(p), Fit, Compile(p), ~Assemble(p), ~Fatal(p), ~Crash(p)
  PROVE  Fit'
<1>1. WorkInv /\ SelectorsFit(p) /\ ClassesFit(p)
      /\ (pc[p] = "parse" \/ pc[p] = "next" => pc[p] \in ClassesRead)
  BY DEF Alone, Fit, ClassesRead, Working
<1>2. CASE Send(p)
  <2> DEFINE name == Head(body[p]).name
  <2>1. name \in Selector /\ pc[p] = "parse" /\ UseSelector(p, name)
    BY <1>1, <1>2, StatementTypes DEF Send
  <2>2. /\ Goto(p, "parse")
        /\ UNCHANGED <<selectorFile, classFile, classes, classAdded, errors, moved>>
    BY <1>1, <1>2, <2>1, ParseStays DEF Send, disk, history
  <2> HIDE DEF name
  <2>3. /\ NumbersFit(numbers'[p], claimed'[p])
        /\ \A q \in Proc \ {p} : numbers'[q] = numbers[q] /\ claimed'[q] = claimed[q]
        /\ \A n \in Selector : numbers[p][n] # None => numbers'[p][n] # None
    BY <1>1, <2>1, UseSelectorFits, UseSelectorAdds DEF SelectorsFit
  <2>4. ClassesSound(classes[p])' /\ SameClasses(classes[p], classes'[p])
    BY <1>1, <2>1, <2>2 DEF ClassesFit, ClassesSound, SameClasses
  <2>5. OwnAreKnown(classes'[p], numbers'[p])
    BY <1>1, <2>1, <2>2, <2>3 DEF ClassesFit, OwnAreKnown, Defined, ClassRec
  <2> QED BY <2>1, <2>2, <2>3, <2>4, <2>5, CompilingFits
<1>3. CASE NextFile(p) \/ Mistake(p) \/ NoScriptNumber(p) \/ OpenObjFiles(p)
  <2>1. PICK label \in {"parse", "next", "assemble"} :
          /\ Goto(p, label)
          /\ pc[p] = "parse" \/ pc[p] = "next"
          /\ label = "next" => errors'[p]
    <3>1. CASE NextFile(p)
      BY <3>1 DEF NextFile
    <3>2. CASE Mistake(p)
      BY <1>1, <3>2, ParseStays DEF Mistake, Statements
    <3>3. CASE NoScriptNumber(p)
      BY <1>1, <3>3 DEF NoScriptNumber, WorkInv, TypeOK
    <3>4. CASE OpenObjFiles(p)
      BY <3>4 DEF OpenObjFiles
    <3> QED BY <1>3, <3>1, <3>2, <3>3, <3>4
  <2>2. UNCHANGED <<selectorFile, classFile, numbers, claimed, classes, classAdded, moved>>
    BY <1>3 DEF NextFile, Mistake, NoScriptNumber, OpenObjFiles, disk, memory, history
  <2>3. ClassesSound(classes[p])' /\ SameClasses(classes[p], classes'[p])
    BY <1>1, <2>1, <2>2 DEF ClassesFit, ClassesSound, SameClasses
  <2> QED BY <1>1, <2>1, <2>2, <2>3, CompilingFits DEF SelectorsFit, ClassesFit
<1>4. CASE DoClass(p)
  <2> DEFINE class == Head(body[p]).name
             super == Head(body[p]).super
  <2>1. Statements(p, "class") /\ class \in Class /\ pc[p] = "parse"
    BY <1>1, <1>4, StatementTypes DEF DoClass
  <2>2. CASE RefuseClass(p, class)
    BY <2>1, <2>2, RefuseClassFits
  <2>3. CASE /\ super \in {RootObj} \cup Defined(classes[p])
             /\ SuperAllowed(p, class, super) /\ ~NoNumberLeft(p, class)
             /\ InstallClass(p, class, NumberOf(p, class), super)
    <3> HIDE DEF class, super
    <3> QED BY <2>1, <2>3, InstallClassFits
  <2> QED BY <1>4, <2>2, <2>3 DEF DoClass
<1> QED BY <1>2, <1>3, <1>4, DeclareFits DEF Compile

(* Once it has compiled a script, a run has made up its mind.              *)
LEMMA WritingFits ==
  ASSUME NEW p \in Proc, Alone(p), Fit, pc[p] \in ClassesRead,
         NEW label \in ClassesRead, Goto(p, label),
         UNCHANGED <<numbers, claimed, classes, moved>>,
         \A q \in Proc \ {p} : classAdded'[q] = classAdded[q],
         FilesFit', classFile' # Torn => OwnAreKnown(classFile', numbers[p]),
         ~classAdded'[p] => classFile' # Torn /\ SameClasses(classFile', classes[p]),
         label = "next" /\ ~errors'[p] => ~classAdded'[p]
  PROVE  Fit'
<1>1. /\ pc'[p] = label /\ \A q \in Proc \ {p} : pc'[q] = pc[q]
  BY DEF Alone, WorkInv, TypeOK, Goto
<1>2. SelectorsFit(p) /\ ClassesFit(p) /\ label \notin NotReadYet
  BY DEF Fit, ClassesRead, Working, Emitting, Updating, Writing, NotReadYet
<1>3. SelectorsFit(p)'
  BY <1>2 DEF SelectorsFit, NumbersFit, OwnAreKnown
<1>4. ClassesFit(p)'
  BY <1>1, <1>2 DEF ClassesFit, ClassesSound, OwnAreKnown, SameClasses
<1> QED BY <1>1, <1>3, <1>4, OthersFit DEF Fit

LEMMA AssembleFits ==
  ASSUME NEW p \in Proc, Alone(p), Fit, Assemble(p) \/ WriteClassTbl(p), ~Crash(p)
  PROVE  Fit'
<1>1. /\ pc[p] \in ClassesRead /\ pc[p] \in SelectorsRead
      /\ UNCHANGED <<selectorFile, classFile, numbers, claimed, classes, classAdded, errors, moved>>
      /\ pc[p] \notin Writing
  BY DEF Assemble, WriteClassTbl, memory, history, ClassesRead, SelectorsRead, Working, Emitting,
         Writing
<1>2. PICK label \in {"update", "next", "unlock"} :
        Goto(p, label) /\ (label = "next" => errors[p])
  BY DEF Assemble, WriteClassTbl
<1>3. /\ FilesFit /\ SelectorsFit(p) /\ ClassesFit(p) /\ classFile # Torn
      /\ label \in ClassesRead
  BY <1>1, FilesAreWhole DEF Fit, Writing, ClassesRead, Working, Emitting, Updating
<1>4. FilesFit'
  BY <1>1, <1>3 DEF FilesFit, ClassesSound
<1> QED BY <1>1, <1>2, <1>3, <1>4, WritingFits DEF SelectorsFit, ClassesFit

LEMMA OpenFileFits ==
  ASSUME NEW p \in Proc, Alone(p), Fit, OpenSelectorFile(p) \/ OpenClassFile(p) \/ WriteSelector(p)
  PROVE  Fit'
<1>1. /\ pc[p] \in Updating /\ pc[p] \in SelectorsRead /\ pc[p] \in ClassesRead
      /\ UNCHANGED <<numbers, claimed, classes, classAdded, moved>>
  BY DEF OpenSelectorFile, OpenClassFile, WriteSelector, Updating, Writing, SelectorsRead,
         ClassesRead, Working, Emitting, memory, history
<1>2. FilesFit /\ SelectorsFit(p) /\ ClassesFit(p)
  BY DEF Fit
<1>3. PICK label \in {"writeSelectors", "updateClasses", "writeClasses"} : Goto(p, label)
  BY DEF OpenSelectorFile, OpenClassFile, WriteSelector
<1>4. label \in ClassesRead /\ label # "next"
  BY DEF ClassesRead, Working, Emitting, Updating, Writing
<1>5. CASE OpenSelectorFile(p) \/ WriteSelector(p)
  <2>1. classFile # Torn /\ classFile' = classFile
    BY <1>5, FilesAreWhole DEF OpenSelectorFile, WriteSelector
  <2>2. selectorFile' \in {selectorFile, Torn, numbers[p]}
    BY <1>5 DEF OpenSelectorFile, WriteSelector
  <2>3. FilesFit'
    BY <1>1, <1>2, <2>1, <2>2 DEF FilesFit, SelectorsFit, NumbersFit, ClassesSound
  <2> QED BY <1>1, <1>2, <1>3, <1>4, <2>1, <2>3, WritingFits DEF SelectorsFit, ClassesFit
<1>6. CASE OpenClassFile(p)
  <2>1. classFile' = Torn /\ selectorFile' = selectorFile /\ classAdded[p]
    BY <1>6 DEF OpenClassFile
  <2>2. FilesFit'
    BY <1>2, <2>1 DEF FilesFit
  <2> QED BY <1>1, <1>3, <1>4, <2>1, <2>2, WritingFits
<1> QED BY <1>5, <1>6

LEMMA EndUpdateFits ==
  ASSUME NEW p \in Proc, Alone(p), Fit, NoNewClass(p) \/ WriteClassDefs(p)
  PROVE  Fit'
<1>1. /\ pc[p] \in {"updateClasses", "writeClasses"} /\ pc[p] \in Updating
      /\ pc[p] \in SelectorsRead /\ pc[p] \in ClassesRead
      /\ classAdded \in [Proc -> BOOLEAN]
  BY DEF NoNewClass, WriteClassDefs, Alone, WorkInv, TypeOK, Updating, Writing, SelectorsRead,
         ClassesRead, Working, Emitting
<1>2. /\ FilesFit /\ SelectorsFit(p) /\ ClassesFit(p)
      /\ selectorFile # Torn /\ selectorFile = numbers[p]
  BY <1>1, FilesAreWhole DEF Fit, Alone, MemoryAgrees, SelectorsAgree
<1>3. /\ Goto(p, "next") /\ "next" \in ClassesRead
      /\ UNCHANGED <<selectorFile, numbers, claimed, classes, moved>>
      /\ ~classAdded'[p] /\ \A q \in Proc \ {p} : classAdded'[q] = classAdded[q]
  BY <1>1 DEF NoNewClass, WriteClassDefs, EndUpdate, ClassesRead
<1>4. /\ classFile' # Torn /\ ClassesSound(classFile') /\ OwnAreKnown(classFile', numbers[p])
      /\ SameClasses(classFile', classes[p])
  <2>1. CASE NoNewClass(p)
    BY <1>1, <1>2, <2>1 DEF NoNewClass, ClassesFit, FilesFit, SelectorsFit
  <2>2. CASE WriteClassDefs(p)
    <3>1. ~errors[p]
      BY <1>1 DEF Alone, WorkInv, InHand
    <3>2. classes[p] \in ClassMap
      BY <3>1 DEF Alone, WorkInv, TypeOK, InHand, ClassMap
    <3> QED BY <1>1, <1>2, <2>2, <3>2, NamesAssumption DEF WriteClassDefs, ClassesFit, SameClasses
  <2> QED BY <2>1, <2>2
<1>5. ClassesSound(classFile)'
  BY <1>3, <1>4 DEF ClassesSound
<1>6. FilesFit'
  BY <1>2, <1>3, <1>4, <1>5 DEF FilesFit, OwnAreKnown
<1> QED BY <1>1, <1>3, <1>4, <1>6, WritingFits

LEMMA FitBegins == Init => FitInv
<1> SUFFICES ASSUME Init PROVE Fit
  BY DEF FitInv
<1>1. PICK db \in Databases : selectorFile = db.selectors /\ classFile = db.classes
  BY DEF Init
<1>2. /\ UniqueNumbers(selectorFile)
      /\ \A name \in DOMAIN Builtin : selectorFile[name] = Builtin[name]
      /\ Readable(classFile) /\ UniqueClasses(classFile) /\ NoGaps(classFile)
      /\ OwnAreKnown(classFile, selectorFile)
  BY <1>1, DatabasesAssumption, InputAssumption
<1>3. SupersExist(classFile)
  BY <1>2 DEF Readable, SuperFound, SupersExist
<1>4. FilesFit
  BY <1>2, <1>3 DEF FilesFit, ClassesSound
<1>5. ASSUME NEW p \in Proc PROVE SelectorsFit(p) /\ ClassesFit(p)
  <2>1. pc[p] \notin SelectorsRead /\ pc[p] \notin ClassesRead /\ pc[p] # "next" /\ ~classAdded[p]
    BY DEF Init, SelectorsRead, ClassesRead, Working, Emitting, Updating, Writing
  <2>2. numbers[p] = NoNames /\ claimed[p] = {Builtin[name] : name \in DOMAIN Builtin}
    BY DEF Init
  <2>3. /\ \A name \in DOMAIN Builtin : NoNames[name] = Builtin[name]
        /\ \A name \in Selector : NoNames[name] # None => name \in DOMAIN Builtin
    BY NumbersAssumption DEF NoNames
  <2>4. NumbersFit(numbers[p], claimed[p])
    BY <2>2, <2>3, NumbersAssumption DEF NumbersFit, UniqueNumbers
  <2> QED BY <2>1, <2>4 DEF SelectorsFit, ClassesFit
<1> QED BY <1>4, <1>5 DEF Fit

LEMMA FitStep ==
  ASSUME HasFlock, WorkInv, Locked, AgreeInv, FitInv, [Next]_vars
  PROVE  FitInv'
<1> SUFFICES ASSUME Cooperative' PROVE FitInv'
  BY DEF FitInv
<1>1. CASE UNCHANGED vars
  BY <1>1 DEF vars, disk, flags, memory, history, FitInv, Fit, Cooperative, FilesFit,
              ClassesSound, SelectorsFit, NumbersFit, ClassesFit, SameClasses
<1>2. ASSUME NEW p \in Proc, Run(p) \/ Crash(p) PROVE FitInv'
  <2>1. CASE Lock(p) \/ Retry(p) \/ Unlock(p) \/ Crash(p)
    BY <2>1, ComingAndGoingFits
  <2>2. CASE /\ ReadSelectors(p) \/ ReadClasses(p) \/ Compile(p) \/ Update(p) \/ WriteClassTbl(p)
             /\ ~Crash(p)
    <3>1. CASE Fatal(p)
      BY <2>2, <3>1, FatalWritesNothing, ComingAndGoingFits DEF WorkInv, TypeOK
    <3>2. CASE ~Fatal(p)
      <4>1. Alone(p) /\ Fit
        BY <2>2, <3>2, StepInside DEF FitInv
      <4>2. Fit'
        BY <2>2, <3>2, <4>1, ReadSelectorsFits, ReadClassesFits, CompileFits, AssembleFits,
           OpenFileFits, EndUpdateFits DEF Update
      <4> QED BY <4>2 DEF FitInv
    <3> QED BY <3>1, <3>2
  <2> QED BY <1>2, <2>1, <2>2 DEF Run
<1> QED BY <1>1, <1>2 DEF Next, AllEnded

(* Whatever runs of sc that take the lock leave behind can be read by the  *)
(* next one, for any number of runs, sources and names: no two selectors   *)
(* and no two classes share a number, supers are there and, unless a class *)
(* under RootObj was moved, come first, and no class has a selector that   *)
(* the selector file does not know, even between the rewriting of one file *)
(* and of the other.                                                       *)
THEOREM DatabaseStaysReadable == ASSUME HasFlock PROVE Spec => []DatabaseIsReadable
<1>1. WorkInv /\ Locked /\ [Next]_vars => Locked'
  BY MutexStep DEF MutexInv, WorkInv, TypeOK
<1>2. Init => Locked
  BY DEF Init, Locked, Inside
<1>3. WorkInv /\ Locked /\ AgreeInv /\ [Next]_vars => AgreeInv'
  BY AgreeStep
<1>4. WorkInv /\ Locked /\ AgreeInv /\ FitInv /\ [Next]_vars => FitInv'
  BY FitStep
<1>5. FitInv => DatabaseIsReadable
  BY DEF FitInv, Fit, FilesFit, ClassesSound, DatabaseIsReadable
<1> QED BY <1>1, <1>2, <1>3, <1>4, <1>5, WorkBegins, WorkGoesOn, AgreeBegins, FitBegins, PTL
        DEF Spec

(* The table of classes that a run without errors writes before it unlocks *)
(* has the script of every class of the class file and no others: what the *)
(* run has in memory then is what the file says.                           *)
THEOREM TableIsOfDatabase == ASSUME HasFlock PROVE Spec => TableMatchesDatabase
<1> DEFINE Matches == \A p \in Proc :
             pc[p] = "next" /\ pc'[p] = "unlock" /\ Cooperative /\ ~errors[p] =>
               /\ \A class \in Defined(classFile) :
                    classTable'[classFile[class].num] = classFile[class].script
               /\ \A num \in ClassNumbers : classTable'[num] # None =>
                    \E class \in Defined(classFile) : classFile[class].num = num
<1>1. ASSUME WorkInv, FitInv, Next PROVE Matches
  <2> SUFFICES ASSUME NEW p \in Proc, pc[p] = "next", pc'[p] = "unlock", Cooperative, ~errors[p]
               PROVE  /\ \A class \in Defined(classFile) :
                           classTable'[classFile[class].num] = classFile[class].script
                      /\ \A num \in ClassNumbers : classTable'[num] # None =>
                           \E class \in Defined(classFile) : classFile[class].num = num
    OBVIOUS
  <2> DEFINE map == classes[p]
             table == [num \in ClassNumbers |->
                         IF num \in TakenClasses(p)
                         THEN map[CHOOSE class \in Defined(map) : map[class].num = num].script
                         ELSE None]
  <2>1. WriteClassTbl(p) /\ ~Crash(p)
    <3>1. PICK q \in Proc : Run(q) \/ Crash(q)
      BY <1>1 DEF Next, AllEnded, vars
    <3>2. pc \in [Proc -> Labels]
      BY <1>1 DEF WorkInv, TypeOK
    <3>3. PICK label : pc' = [pc EXCEPT ![q] = label]
      BY <3>1, <3>2 DEF Run, Lock, Retry, ReadSelectors, ReadClasses, Compile, Update, WriteClassTbl,
             Unlock, Crash, Fatal, NextFile, Send, Declare, DoClass, InstallClass, RefuseClass,
             Mistake, OpenObjFiles, NoScriptNumber, Assemble, OpenSelectorFile, WriteSelector,
             OpenClassFile, NoNewClass, WriteClassDefs, EndUpdate, Goto
    <3>4. q = p /\ label = "unlock"
      BY <3>2, <3>3
    <3> QED BY <3>1, <3>2, <3>4 DEF Run, Lock, Retry, ReadSelectors, ReadClasses, Compile, Update,
             Unlock, Crash, Fatal, NextFile, Send, Declare, DoClass, Statements,
             Mistake, OpenObjFiles, NoScriptNumber, Assemble, OpenSelectorFile, WriteSelector,
             OpenClassFile, NoNewClass, WriteClassDefs, EndUpdate, Goto
  <2>2. classTable' = table
    BY <2>1 DEF WriteClassTbl
  <2>3. /\ UniqueClasses(map) /\ classFile # Torn /\ SameClasses(classFile, map)
        /\ map \in [Class -> ClassRec \cup {None, Hollow}] /\ classFile \in ClassMap
    <3>1. /\ Fit /\ pc[p] \in ClassesRead /\ classFile \in ClassMap \cup {Torn}
          /\ map \in [Class -> ClassRec \cup {None, Hollow}]
      BY <1>1 DEF FitInv, ClassesRead, WorkInv, TypeOK
    <3>2. ~classAdded[p] /\ ClassesSound(map) /\ SameClasses(classFile, map) /\ classFile # Torn
      BY <3>1 DEF Fit, ClassesFit
    <3> QED BY <3>1, <3>2 DEF ClassesSound
  <2>4. /\ Defined(classFile) = Defined(map)
        /\ \A class \in Defined(map) : /\ map[class].num = classFile[class].num
                                        /\ map[class].script = classFile[class].script
                                        /\ map[class].num \in ClassNumbers
    BY <2>3 DEF SameClasses, Defined, ClassMap, ClassRec
  <2>5. \A num : num \in TakenClasses(p) <=> \E class \in Defined(map) : map[class].num = num
    BY DEF TakenClasses
  <2>6. \A class \in Defined(map) : classTable'[map[class].num] = map[class].script
    <3> SUFFICES ASSUME NEW class \in Defined(map)
                 PROVE  classTable'[map[class].num] = map[class].script
      OBVIOUS
    <3> DEFINE found == CHOOSE c \in Defined(map) : map[c].num = map[class].num
    <3>1. found \in Defined(map) /\ map[found].num = map[class].num
      OBVIOUS
    <3>2. found = class
      BY <2>3, <3>1 DEF UniqueClasses
    <3>3. table[map[class].num] = map[found].script
      BY <2>4, <2>5
    <3> QED BY <2>2, <3>2, <3>3
  <2>7. \A num \in ClassNumbers : classTable'[num] # None => num \in TakenClasses(p)
    BY <2>2
  <2> QED BY <2>4, <2>5, <2>6, <2>7
<1>2. WorkInv /\ FitInv /\ [Next]_vars => [Matches]_vars
  BY <1>1
<1>3. WorkInv /\ Locked /\ [Next]_vars => Locked'
  BY MutexStep DEF MutexInv, WorkInv, TypeOK
<1>4. Init => Locked
  BY DEF Init, Locked, Inside
<1>5. WorkInv /\ Locked /\ AgreeInv /\ [Next]_vars => AgreeInv'
  BY AgreeStep
<1>6. WorkInv /\ Locked /\ AgreeInv /\ FitInv /\ [Next]_vars => FitInv'
  BY FitStep
<1> QED BY <1>2, <1>3, <1>4, <1>5, <1>6, WorkBegins, WorkGoesOn, AgreeBegins, FitBegins, PTL
        DEF Spec, TableMatchesDatabase

=============================================================================
