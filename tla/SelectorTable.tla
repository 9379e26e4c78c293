--------------------------- MODULE SelectorTable ---------------------------
(***************************************************************************)
(* The numbers of selectors (scic/sem/selector_table.cpp).  Scripts know   *)
(* properties and methods by number, so declarations of existing scripts   *)
(* fix some numbers; selectors that are only used get the free ones, from  *)
(* 0 on, when the table is built.                                          *)
(***************************************************************************)
EXTENDS Integers, SequencesExt

CONSTANTS
  Standard,      (* the numbers of the selectors every table has           *)
  MaxSelector,   (* the largest number a selector should have              *)
  NoNumber

ASSUME SelectorAssumption ==
  /\ Standard \in [DOMAIN Standard -> Nat]
  /\ IsInjective(Standard)
  /\ MaxSelector \in Nat
  /\ NoNumber \notin Nat

VARIABLES
  selectorNum,    (* the number of each selector of name_map_              *)
  numMap,         (* num_map_: the selector with each number               *)
  newSelectors,   (* new_selectors_, those without a number                *)
  nextSelector

selectorVars == <<selectorNum, numMap, newSelectors, nextSelector>>

(* CreateBuilder declares the standard selectors.                          *)
InitSelectors ==
  /\ selectorNum = Standard
  /\ numMap = [num \in Range(Standard) |->
                 CHOOSE name \in DOMAIN Standard : Standard[name] = num]
  /\ newSelectors = <<>>
  /\ nextSelector = 0

(* What a key has, it keeps.                                               *)
Emplace(map, key, value) ==
  [k \in DOMAIN map \cup {key} |-> IF k \in DOMAIN map THEN map[k] ELSE value]

HasNumber(num) == num \in DOMAIN numMap
HasName(name) == name \in DOMAIN selectorNum

(* Mutant: a number somebody else has is taken.                            *)
CanDeclare_NewName(name, num) == ~HasName(name)

CanDeclare(name, num) == ~HasNumber(num) /\ ~HasName(name)

IsDeclared(name, num) == HasNumber(num) /\ HasName(name) /\ numMap[num] = name

DeclareSelector(name, num) ==
  \/ /\ CanDeclare(name, num)
     /\ selectorNum' = Emplace(selectorNum, name, num)
     /\ numMap' = Emplace(numMap, num, name)
     /\ UNCHANGED <<newSelectors, nextSelector>>
  \/ /\ IsDeclared(name, num)
     /\ UNCHANGED selectorVars

AddNewSelector(name) ==
  \/ /\ ~HasName(name)
     /\ selectorNum' = Emplace(selectorNum, name, NoNumber)
     /\ newSelectors' = Append(newSelectors, name)
     /\ UNCHANGED <<numMap, nextSelector>>
  \/ HasName(name) /\ UNCHANGED selectorVars

(* Build: one round of the search for a free number.  Only a search that   *)
(* goes on is asked whether it went too far.                               *)
SkipSelector ==
  /\ newSelectors # <<>>
  /\ HasNumber(nextSelector)
  /\ nextSelector < MaxSelector
  /\ nextSelector' = nextSelector + 1
  /\ UNCHANGED <<selectorNum, numMap, newSelectors>>

TooManySelectors ==
  newSelectors # <<>> /\ HasNumber(nextSelector) /\ nextSelector >= MaxSelector

(* Mutant: the last of them gets it.                                       *)
AssignSelector_Last ==
  /\ newSelectors # <<>>
  /\ ~HasNumber(nextSelector)
  /\ selectorNum' = [selectorNum EXCEPT ![Last(newSelectors)] = nextSelector]
  /\ numMap' = Emplace(numMap, nextSelector, Last(newSelectors))
  /\ newSelectors' = Front(newSelectors)
  /\ nextSelector' = nextSelector + 1

AssignSelector ==
  /\ newSelectors # <<>>
  /\ ~HasNumber(nextSelector)
  /\ selectorNum' = [selectorNum EXCEPT ![Head(newSelectors)] = nextSelector]
  /\ numMap' = Emplace(numMap, nextSelector, Head(newSelectors))
  /\ newSelectors' = Tail(newSelectors)
  /\ nextSelector' = nextSelector + 1

-----------------------------------------------------------------------------
(* LookupByName and LookupByNumber agree: no number stands for two         *)
(* selectors, no selector has two numbers, and only those that wait for    *)
(* Build have none.                                                        *)
SelectorsAgree ==
  /\ \A num \in DOMAIN numMap :
       HasName(numMap[num]) /\ selectorNum[numMap[num]] = num
  /\ \A name \in DOMAIN selectorNum :
       IF selectorNum[name] = NoNumber
       THEN \E i \in 1..Len(newSelectors) : newSelectors[i] = name
       ELSE HasNumber(selectorNum[name]) /\ numMap[selectorNum[name]] = name

=============================================================================
