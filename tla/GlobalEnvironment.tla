------------------------- MODULE GlobalEnvironment -------------------------
(***************************************************************************)
(* What the scripts of a compilation share, made from their items          *)
(* (BuildGlobalEnvironment in scic/sem/module_env.cpp): the numbers of the *)
(* selectors, then the classes, and then the objects of each script.  The  *)
(* first error ends the compilation.  The tables of externs and of global  *)
(* variables are left out.                                                 *)
(***************************************************************************)
EXTENDS SelectorTable, ClassTable

CONSTANT
  Programs   (* global items, and the items of each script                 *)

VARIABLES
  source,    (* the items of each kind, and the calls for the selectors    *)
  phase,     (* what is done, or "done", "failed" or "crashed"             *)
  cursor     (* the item it is done for                                    *)

vars == <<selectorVars, classVars, source, phase, cursor>>

-----------------------------------------------------------------------------
ItemsOf(items, kind) == SelectSeq(items, LAMBDA i : i.kind = kind)

(* AddItemsToSelectorTable: the selectors declared in a script, then those *)
(* of the properties and methods of its classes and objects.               *)
Uses(names) == [i \in 1..Len(names) |-> [name |-> names[i], num |-> NoNumber]]

SelectorCalls(items) ==
  LET users == SelectSeq(items, LAMBDA i : i.kind \in {"class", "instance"})
      declared == ItemsOf(items, "selectors")
  IN  FlattenSeq([i \in 1..Len(declared) |-> declared[i].entries])
      \o FlattenSeq([i \in 1..Len(users) |->
           Uses(SelectorsOf(users[i].props) \o users[i].methods)])

(* GetElemsOfType, of the global items and then of each script.            *)
Source(program) ==
  LET all == <<program.global>> \o program.modules
      each(kind) == FlattenSeq([k \in 1..Len(all) |-> ItemsOf(all[k], kind)])
  IN  [calls |-> FlattenSeq([k \in 1..Len(all) |-> SelectorCalls(all[k])]),
       decls |-> each("classdef"),
       defs |-> each("class"),
       objects |-> each("instance"),
       globalClass |-> ItemsOf(program.global, "class") # <<>>]

(* Items and calls come in lists, each of one kind, and so do the          *)
(* properties of an item.                                                  *)
IsList(list) == list \in Seq(Range(list))

IsProps(list) ==
  list \in Seq([sel : {list[i].sel : i \in 1..Len(list)},
                value : {list[i].value : i \in 1..Len(list)}])

IsSource(s) ==
  /\ IsList(s.calls) /\ IsList(s.decls) /\ IsList(s.defs) /\ IsList(s.objects)
  /\ \A item \in Range(s.decls) \cup Range(s.defs) \cup Range(s.objects) : IsProps(item.props)
  /\ \A item \in Range(s.decls) : item.kind = "classdef" /\ item.species \in Nat
  /\ \A item \in Range(s.defs) : item.kind = "class"

ASSUME ProgramsAssumption == \A program \in Programs : IsSource(Source(program))

Decls == source.decls
Defs == source.defs
Objects == source.objects
Calls == source.calls

Init ==
  /\ \E program \in Programs : source = Source(program)
  /\ InitSelectors
  /\ InitClasses
  /\ phase = "selectors"
  /\ cursor = 1

IsText(value) == value.type = "text"
HasText(item) == \E i \in 1..Len(item.props) : IsText(item.props[i].value)

(* The declared classes nobody defined anew.                               *)
Copies ==
  LET upTo[k \in 0..Len(Decls)] ==
        IF k = 0 THEN <<>>
        ELSE IF Decls[k].species \in defSpecies THEN upTo[k - 1]
        ELSE Append(upTo[k - 1], Decls[k])
  IN  upTo[Len(Decls)]

-----------------------------------------------------------------------------
(* Phases that go over a list, and what they do for an item of it.         *)
Order == <<"selectors", "numbering", "gather", "decls", "declSupers", "declProps", "defs",
           "copies", "defSupers", "copySupers", "defProps", "objects", "done">>

After(p) == Order[(CHOOSE i \in 1..Len(Order) : Order[i] = p) + 1]

ListOf(p) ==
  CASE p = "selectors" -> Calls
    [] p = "numbering" -> newSelectors
    [] p = "gather" -> <<>>
    [] p \in {"decls", "declSupers"} -> Decls
    [] p = "declProps" -> layers.decl
    [] p \in {"defs", "defSupers"} -> Defs
    [] p \in {"copies", "copySupers"} -> Copies
    [] p = "defProps" -> layers.def
    [] p = "objects" -> Objects

Working == phase \notin {"done", "failed", "crashed"}
At(p) == phase = p /\ cursor <= Len(ListOf(p))
Item == ListOf(phase)[cursor]

Advance == cursor' = cursor + 1 /\ UNCHANGED <<source, phase>>
Stay == UNCHANGED <<source, phase, cursor>>
Tables == <<selectorVars, classVars>>

EndPhase ==
  /\ Working
  /\ cursor > Len(ListOf(phase))
  /\ resolving = <<>>
  /\ phase = "gather" => /\ ~\E i \in 1..Len(Decls) : HasText(Decls[i])
                         /\ ~source.globalClass
  /\ phase' = After(phase)
  /\ cursor' = 1
  /\ UNCHANGED <<source, Tables>>

AddSelector ==
  /\ At("selectors")
  /\ \/ Item.num = NoNumber /\ AddNewSelector(Item.name)
     \/ Item.num # NoNumber /\ DeclareSelector(Item.name, Item.num)
  /\ Advance
  /\ UNCHANGED classVars

NumberSelectors ==
  /\ At("numbering")
  /\ SkipSelector \/ AssignSelector
  /\ Stay
  /\ UNCHANGED classVars

SelectorsKnown(item) ==
  \A name \in Range(SelectorsOf(item.props) \o item.methods) : HasName(name)

AddDecl ==
  /\ At("decls") \/ At("copies")
  /\ SelectorsKnown(Item)
  /\ WriteDecl(IF phase = "decls" THEN "decl" ELSE "def", Item)
  /\ Advance
  /\ UNCHANGED selectorVars

AddDef ==
  /\ At("defs")
  /\ ~HasText(Item)
  /\ WriteDef(Item)
  /\ Advance
  /\ UNCHANGED selectorVars

SetClassSuper ==
  /\ \/ At("declSupers") /\ SetSuper("decl", Item.species, Item.super)
     \/ At("copySupers") /\ SetSuper("def", Item.species, Item.super)
     \/ /\ At("defSupers")
        /\ SuperSpecies(Item) # Unset
        /\ SetSuper("def", layers.def[LookupByName(layers.def, Item.name)].species,
                    SuperSpecies(Item))
  /\ Advance
  /\ UNCHANGED selectorVars

(* LookupByName of the standard properties: only "name" has to be declared *)
(* by somebody, and without it a null pointer is followed.                 *)
NameKnown == HasName("name")

Layer(p) == IF p = "declProps" THEN "decl" ELSE "def"

ResolveProperties ==
  /\ At("declProps") \/ At("defProps")
  /\ NameKnown
  /\ \/ ResolveNext(Layer(phase), cursor) /\ Stay
     \/ ResolveSuper(Layer(phase)) /\ Stay
     \/ Resolve(Layer(phase)) /\ (IF Len(resolving) = 1 THEN Advance ELSE Stay)
  /\ UNCHANGED selectorVars

BuildObject ==
  /\ At("objects")
  /\ AddObject(Item)
  /\ Advance
  /\ UNCHANGED selectorVars

(* An error, which ends the compilation.                                   *)
Refused ==
  \/ At("selectors") /\ Item.num # NoNumber
     /\ ~CanDeclare(Item.name, Item.num) /\ ~IsDeclared(Item.name, Item.num)
  \/ At("numbering") /\ TooManySelectors
  \/ phase = "gather"
     /\ (source.globalClass \/ \E i \in 1..Len(Decls) : HasText(Decls[i]))
  \/ At("decls") /\ ~(SelectorsKnown(Item) /\ CanAdd(layers.decl, Item, Item.species))
  \/ At("copies") /\ ~(SelectorsKnown(Item) /\ CanAdd(layers.def, Item, Item.species))
  \/ At("defs") /\ ~HasText(Item) /\ ~CanAdd(layers.def, Item, SpeciesFor(Item))
  \/ At("declSupers") /\ Item.super # NoSuper /\ LookupBySpecies(layers.decl, Item.super) = 0
  \/ At("copySupers") /\ Item.super # NoSuper /\ LookupBySpecies(layers.def, Item.super) = 0
  \/ At("defSupers") /\ SuperSpecies(Item) = Unset
  \/ At("objects") /\ ~CanAddObject(Item)

Fail ==
  /\ Refused
  /\ phase' = "failed"
  /\ UNCHANGED <<source, cursor, Tables>>

(* The compiler throws, follows a null pointer or runs out of stack.       *)
Crash ==
  /\ \/ At("defs") /\ HasText(Item)
     \/ At("declProps") /\ (~NameKnown \/ EndlessSupers("decl"))
     \/ At("defProps") /\ (~NameKnown \/ EndlessSupers("def"))
  /\ phase' = "crashed"
  /\ UNCHANGED <<source, cursor, Tables>>

(* Nothing else stops it: what an error does not answer has a step.        *)
Terminated == ~Working /\ UNCHANGED vars

Next ==
  \/ AddSelector \/ NumberSelectors
  \/ AddDecl \/ AddDef \/ SetClassSuper \/ ResolveProperties
  \/ BuildObject
  \/ EndPhase \/ Fail \/ Crash
  \/ Terminated

Spec == Init /\ [][Next]_vars

-----------------------------------------------------------------------------
(* The first use of a selector nobody declared before.                     *)
IsFirstUse(i) ==
  /\ Calls[i].num = NoNumber
  /\ Calls[i].name \notin DOMAIN Standard
  /\ \A k \in 1..(i - 1) : Calls[k].name # Calls[i].name

FirstUses == {i \in 1..Len(Calls) : IsFirstUse(i)}
Given == {Calls[i].num : i \in 1..Len(Calls)} \cup Range(Standard)
NumberOf(i) == selectorNum[Calls[i].name]

Numbered == phase \notin {"selectors", "numbering", "failed", "crashed"}

(* The selectors nobody declared before they were used have the smallest   *)
(* numbers that are free, in the order in which the scripts use them       *)
(* (Build in selector_table.cpp), so that compiling the same scripts again *)
(* gives the same numbers.                                                 *)
SelectorsFillTheGaps ==
  Numbered =>
    \A i \in FirstUses :
      /\ NumberOf(i) \in Nat /\ NumberOf(i) \notin Given
      /\ \A k \in FirstUses : k < i => NumberOf(k) < NumberOf(i)
      /\ \A num \in 0..(NumberOf(i) - 1) :
           num \in Given \/ \E k \in FirstUses : k < i /\ NumberOf(k) = num

-----------------------------------------------------------------------------
Built == phase \in {"objects", "done"}

(* What a list of properties says of one of them last, if it does.         *)
Mentions(list, sel) == {i \in 1..Len(list) : list[i].sel = sel}

LastSaid(list, sel) ==
  list[CHOOSE i \in Mentions(list, sel) : \A k \in Mentions(list, sel) : k <= i].value

(* The item a class is made from: its definition, if there is one.         *)
ItemOf(name) ==
  LET all == Defs \o Decls
  IN  all[CHOOSE i \in 1..Len(all) : /\ all[i].name = name
                                     /\ \A k \in 1..(i - 1) : all[k].name # name]

(* A class that is not defined anew and whose number another class took.   *)
IsLost(d) ==
  /\ \A i \in 1..Len(Defs) : Defs[i].name # d.name
  /\ \E i \in 1..Len(layers.def) : layers.def[i].species = d.species
                                   /\ layers.def[i].name # d.name

SomeLost == \E i \in 1..Len(Decls) : IsLost(Decls[i])

(* Every declared class is in the table the scripts use, with the number   *)
(* it was declared with (Build in class_table.cpp).                        *)
DeclaredClassesKept ==
  \A i \in 1..Len(Decls) :
    \E c \in 1..Len(layers.def) : /\ layers.def[c].name = Decls[i].name
                                  /\ layers.def[c].species = Decls[i].species

(* The name of the super the item of a class gives: a declaration gives    *)
(* the number the super was declared with, whoever of them is defined      *)
(* anew.                                                                   *)
SuperName(item) ==
  IF item.super = NoSuper \/ item.kind = "class" THEN item.super
  ELSE Decls[CHOOSE k \in 1..Len(Decls) : Decls[k].species = item.super].name

(* The super of a class is the one its item names.  No two classes have    *)
(* one number.  Declared classes that lose their number to a new class, as *)
(* they may, are left out.                                                 *)
SupersAreAsWritten ==
  Built /\ ~SomeLost =>
    /\ DeclaredClassesKept
    /\ \A i \in 1..Len(layers.def) :
         LET c == layers.def[i]
         IN  /\ SuperName(ItemOf(c.name)) =
                  IF c.super = NoSuper THEN NoSuper ELSE layers.def[c.super].name
             /\ \A k \in 1..Len(layers.def) : layers.def[k].species = c.species => k = i

(* The properties a class starts with, and what the one at a place is in   *)
(* the end.                                                                *)
Inherited(c) == IF c.super = NoSuper THEN BasicProps ELSE layers.def[c.super].props

ClassValue(c, k) ==
  LET sel == c.props[k].sel
      says == Mentions(c.own, sel) # {}
  IN  CASE sel = "-size-" -> Number(Len(c.props))
        [] sel # "-size-" /\ says -> LastSaid(c.own, sel)
        [] ~says /\ sel = "-script-" -> Number(c.species)
        [] ~says /\ sel = "-info-" -> IsClass
        [] ~says /\ sel = "-super-" ->
             IF c.super = NoSuper THEN NoSpecies ELSE Number(layers.def[c.super].species)
        [] OTHER -> Inherited(c)[k].value

IsInherited(c) ==
  /\ Len(Inherited(c)) <= Len(c.props)
  /\ \A k \in 1..Len(Inherited(c)) : c.props[k].sel = Inherited(c)[k].sel
  /\ IsInjective(SelectorsOf(c.props))
  /\ Range(SelectorsOf(c.props)) = Range(SelectorsOf(Inherited(c))) \cup Range(SelectorsOf(c.own))
  /\ \A k \in 1..Len(c.props) : c.props[k].value = ClassValue(c, k)

(* The place of a property in a class is its place in every subclass, also *)
(* when the subclass sets it, so that the methods of the class work for    *)
(* the subclass; its value is the one of the nearest class that sets it    *)
(* (ResolveProperties).                                                    *)
PropertiesAreInherited ==
  Built => \A i \in 1..Len(layers.def) : IsInherited(layers.def[i])

(* A class is what its item and those of its supers say (class_table.cpp,  *)
(* property_list.cpp).                                                     *)
ClassesAreAsWritten == SupersAreAsWritten /\ PropertiesAreInherited

(* What the property at a place of an object is.                          *)
ObjectValue(o, item, k) ==
  LET sel == o.props[k].sel
      says == Mentions(item.props, sel) # {}
      cls == layers.def[o.class]
  IN  CASE says -> LastSaid(item.props, sel)
        [] ~says /\ sel = "-script-" -> NoSpecies
        [] ~says /\ sel = "name" -> item.text
        [] ~says /\ sel = "-super-" -> Number(cls.species)
        [] ~says /\ sel = "-info-" -> Number(0)
        [] ~says /\ sel = "-size-" -> Number(Len(o.props))
        [] OTHER -> cls.props[k].value

IsInstance(o, item) ==
  /\ layers.def[o.class].name = item.class
  /\ SelectorsOf(o.props) = SelectorsOf(layers.def[o.class].props)
  /\ \A k \in 1..Len(o.props) : o.props[k].value = ObjectValue(o, item, k)

(* An object has the properties of the class its item names, at their      *)
(* places, with the values the item gives them or else those of the class, *)
(* but for the four that tell an object from a class, and is as long as    *)
(* the size it inherits (AddObject).                                       *)
ObjectsMatchTheirClass ==
  \A n \in 1..Len(objects) : IsInstance(objects[n], Objects[n])

=============================================================================
