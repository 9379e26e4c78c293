----------------------------- MODULE ClassTable -----------------------------
(***************************************************************************)
(* The classes and objects of a compilation (scic/sem/class_table.cpp,     *)
(* property_list.cpp and object_table.cpp).                                *)
(*                                                                         *)
(* Classes of existing scripts are declared with their number (species)    *)
(* and the number of their super; classes of this compilation are defined  *)
(* with the name of their super and get a number here.  There are two      *)
(* layers of them: as declared, and as defined, with the declared ones     *)
(* nobody defines anew.  An instance is laid out as the properties of its  *)
(* class, a class as those of its super and then its own, so that the      *)
(* place of a property compiled into a method is right in every subclass.  *)
(***************************************************************************)
EXTENDS Integers, SequencesExt, FiniteSetsExt

CONSTANTS
  NoSuper,     (* a class without a super                                  *)
  Unset,       (* a super nobody has set                                   *)
  Basic        (* the properties of a class without a super, in order      *)

ASSUME ClassAssumption ==
  /\ NoSuper # Unset /\ NoSuper \notin Nat /\ Unset \notin Nat
  /\ Basic \in Seq(Range(Basic)) /\ IsInjective(Basic)
  /\ {"-size-", "-script-", "-super-", "-info-", "name"} \subseteq Range(Basic)

VARIABLES
  layers,       (* layers.decl and layers.def: the classes, in order       *)
  currSpecies,  (* where find_next_species goes on                         *)
  defSpecies,   (* def_species: the numbers of the defined classes         *)
  resolving,    (* the calls of ResolveProperties that have not returned   *)
  objects       (* the objects of the scripts                              *)

classVars == <<layers, currSpecies, defSpecies, resolving, objects>>

InitClasses ==
  /\ layers = [decl |-> <<>>, def |-> <<>>]
  /\ currSpecies = 0
  /\ defSpecies = {}
  /\ resolving = <<>>
  /\ objects = <<>>

Number(n) == [type |-> "int", val |-> n]

(* What stands for 0xFFFF and 0x8000.                                      *)
NoSpecies == Number(65535)
IsClass == Number(32768)

-----------------------------------------------------------------------------
(* Lists of properties.                                                    *)
Prop(sel, value) == [sel |-> sel, value |-> value]

SelectorsOf(props) == [i \in 1..Len(props) |-> props[i].sel]
HasProp(props, sel) == \E i \in 1..Len(props) : props[i].sel = sel
IndexOf(props, sel) == CHOOSE i \in 1..Len(props) : props[i].sel = sel

(* Mutant: new properties come first.                                      *)
UpdatePropertyDef_Front(props, sel, value) ==
  IF HasProp(props, sel)
  THEN [props EXCEPT ![IndexOf(props, sel)].value = value]
  ELSE <<Prop(sel, value)>> \o props

(* A property that exists keeps its place, a new one comes last.           *)
UpdatePropertyDef(props, sel, value) ==
  IF HasProp(props, sel)
  THEN [props EXCEPT ![IndexOf(props, sel)].value = value]
  ELSE Append(props, Prop(sel, value))

Update(props, more) ==
  LET upTo[k \in 0..Len(more)] ==
        IF k = 0 THEN props
        ELSE UpdatePropertyDef(upTo[k - 1], more[k].sel, more[k].value)
  IN  upTo[Len(more)]

-----------------------------------------------------------------------------
(* Layers.                                                                 *)
Find(layer, Test(_)) ==
  IF \E i \in 1..Len(layer) : Test(layer[i])
  THEN CHOOSE i \in 1..Len(layer) : Test(layer[i]) ELSE 0

LookupByName(layer, name) == Find(layer, LAMBDA c : c.name = name)
LookupBySpecies(layer, species) == Find(layer, LAMBDA c : c.species = species)

(* Its super is not set, and its list is not made: a list that is has the  *)
(* basic properties at least.                                              *)
NewClass(base, species) ==
  [name |-> base.name, species |-> species, own |-> base.props,
   super |-> Unset, props |-> <<>>]

CanAdd(layer, base, species) ==
  LookupByName(layer, base.name) = 0 /\ LookupBySpecies(layer, species) = 0

(* WriteDeclToLayer, of the declaration layer and of the definition layer. *)
WriteDecl(which, decl) ==
  /\ CanAdd(layers[which], decl, decl.species)
  /\ layers' = [layers EXCEPT ![which] = Append(@, NewClass(decl, decl.species))]
  /\ UNCHANGED <<currSpecies, defSpecies, resolving, objects>>

(* The next number no class of the definition layer has so far.            *)
NextSpecies ==
  CHOOSE n \in currSpecies..(currSpecies + Len(layers.def)) :
    /\ LookupBySpecies(layers.def, n) = 0
    /\ \A k \in currSpecies..(n - 1) : LookupBySpecies(layers.def, k) # 0

PrevDecl(name) == LookupByName(layers.decl, name)

(* A class that is defined anew keeps its number.                          *)
SpeciesFor(def) ==
  IF PrevDecl(def.name) # 0 THEN layers.decl[PrevDecl(def.name)].species ELSE NextSpecies

WriteDef(def) ==
  /\ CanAdd(layers.def, def, SpeciesFor(def))
  /\ layers' = [layers EXCEPT !.def = Append(@, NewClass(def, SpeciesFor(def)))]
  /\ defSpecies' = defSpecies \cup {SpeciesFor(def)}
  /\ currSpecies' = IF PrevDecl(def.name) # 0 THEN currSpecies ELSE NextSpecies + 1
  /\ UNCHANGED <<resolving, objects>>

(* SetClassSuper: a super that is given must be in the layer.              *)
SetSuper(which, species, super) ==
  LET layer == layers[which]
      index == IF super = NoSuper THEN NoSuper ELSE LookupBySpecies(layer, super)
  IN  /\ index # 0
      /\ layers' = [layers EXCEPT ![which][LookupBySpecies(layer, species)].super = index]
      /\ UNCHANGED <<currSpecies, defSpecies, resolving, objects>>

(* The number of the super of a definition, which gives its name.          *)
SuperSpecies(def) ==
  IF def.super = NoSuper THEN NoSuper
  ELSE LET index == LookupByName(layers.def, def.super)
       IN  IF index = 0 THEN Unset ELSE layers.def[index].species

-----------------------------------------------------------------------------
(* ResolveProperties of a layer.                                           *)
BasicProps ==
  [i \in 1..Len(Basic) |-> Prop(Basic[i], Number(IF Basic[i] = "-objID-" THEN 4660 ELSE 0))]

(* The last word: the size, whatever the class says.                       *)
SizeProps(list) == UpdatePropertyDef(list, "-size-", Number(Len(list)))

PropertiesOf(layer, c) ==
  LET cls == layer[c]
      inherited == IF cls.super = NoSuper THEN BasicProps ELSE layer[cls.super].props
      standard ==
        <<Prop("-script-", Number(cls.species)),
          Prop("-super-", IF cls.super = NoSuper THEN NoSpecies
                          ELSE Number(layer[cls.super].species)),
          Prop("-info-", IsClass)>>
  IN  SizeProps(Update(Update(inherited, standard), cls.own))

Current == Last(resolving)
IsResolved(layer, c) == layer[c].props # <<>>

(* The loop over the classes calls it for the next.                        *)
ResolveNext(which, c) ==
  /\ resolving = <<>>
  /\ resolving' = <<c>>
  /\ UNCHANGED <<layers, currSpecies, defSpecies, objects>>

(* For its super first, unless there is nothing to do.                     *)
ResolveSuper(which) ==
  /\ resolving # <<>>
  /\ LET cls == layers[which][Current]
     IN  /\ ~IsResolved(layers[which], Current)
         /\ cls.super # NoSuper
         /\ ~IsResolved(layers[which], cls.super)
         /\ cls.super \notin Range(resolving)
         /\ resolving' = Append(resolving, cls.super)
  /\ UNCHANGED <<layers, currSpecies, defSpecies, objects>>

(* Classes that are each other's super: the calls never return.            *)
EndlessSupers(which) ==
  /\ resolving # <<>>
  /\ ~IsResolved(layers[which], Current)
  /\ layers[which][Current].super \in Range(resolving)

(* A call returns, having made the list unless it was there.               *)
Resolve(which) ==
  /\ resolving # <<>>
  /\ LET layer == layers[which]
         super == layer[Current].super
     IN  /\ ~IsResolved(layer, Current) /\ super # NoSuper => IsResolved(layer, super)
         /\ layers' = IF IsResolved(layer, Current) THEN layers
                      ELSE [layers EXCEPT ![which][Current].props =
                              PropertiesOf(layer, Current)]
  /\ resolving' = Front(resolving)
  /\ UNCHANGED <<currSpecies, defSpecies, objects>>

-----------------------------------------------------------------------------
(* The properties of an object, before those it gives itself.              *)
ObjectProps(cls, name) ==
  Update(cls.props,
         <<Prop("-script-", NoSpecies), Prop("name", name),
           Prop("-super-", Number(cls.species)), Prop("-info-", Number(0))>>)

(* Mutant: an object may have properties its class has not.                *)
CanAddObject_AnyProps(object) == LookupByName(layers.def, object.class) # 0

CanAddObject(object) ==
  LET c == LookupByName(layers.def, object.class)
  IN  /\ c # 0
      /\ \A i \in 1..Len(object.props) : HasProp(ObjectProps(layers.def[c], object.text),
                                                 object.props[i].sel)

AddObject(object) ==
  /\ CanAddObject(object)
  /\ LET c == LookupByName(layers.def, object.class)
     IN  objects' = Append(objects,
           [class |-> c,
            props |-> Update(ObjectProps(layers.def[c], object.text), object.props)])
  /\ UNCHANGED <<layers, currSpecies, defSpecies, resolving>>

=============================================================================
