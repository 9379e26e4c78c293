--------------------------- MODULE MCEnvironment ---------------------------
(***************************************************************************)
(* Environments of up to two declared and two defined classes, with every  *)
(* choice of their numbers and supers, and of several ways to declare and  *)
(* use selectors.  Selectors are numbered 0..MaxSelector.                  *)
(***************************************************************************)
EXTENDS GlobalEnvironment

MCBasic == <<"-objID-", "-size-", "-propDict-", "-methDict-", "-classScript-",
             "-script-", "-super-", "-info-", "name">>

MCStandard ==
  [name \in Range(MCBasic) \ {"name"} |->
     4095 + (CHOOSE i \in 1..8 : MCBasic[i] = name)]

Selectors(entries) == [kind |-> "selectors", entries |-> entries]
Entry(name, num) == [name |-> name, num |-> num]

Decl(name, species, super, props) ==
  [kind |-> "classdef", name |-> name, species |-> species, super |-> super,
   props |-> props, methods |-> <<>>]
Def(name, super, props, methods) ==
  [kind |-> "class", name |-> name, super |-> super, props |-> props, methods |-> methods]
Instance(class, props) ==
  [kind |-> "instance", class |-> class, text |-> [type |-> "text", val |-> 0],
   props |-> props, methods |-> <<>>]

(* What the classes say of their properties: they set inherited ones, add  *)
(* some, set standard ones, and set one twice.                             *)
DeclProps == [A |-> <<Prop("x", Number(1))>>,
              B |-> <<Prop("y", Number(2)), Prop("-info-", Number(3))>>]
DefProps == [B |-> <<Prop("y", Number(4)), Prop("x", Number(5))>>,
             C |-> <<Prop("z", Number(6)), Prop("-size-", Number(7)), Prop("z", Number(8))>>]

Some(S) == {<<>>} \cup {<<s>> : s \in S}
Pairs(S, T) == {<<s, t>> : s \in S, t \in T}

DeclsOf(name) ==
  {Decl(name, species, super, DeclProps[name]) : species \in {0, 1}, super \in {NoSuper, 0, 1}}

DeclLists ==
  LET a == DeclsOf("A")
      b == DeclsOf("B")
      twice == {Decl("A", species, NoSuper, <<>>) : species \in {0, 1}}
  IN  Some(a \cup b) \cup Pairs(a, b) \cup Pairs(twice, twice)

DefsOf(name) ==
  {Def(name, super, DefProps[name], <<"go">>) : super \in {NoSuper, "A", "B", "C"}}

DefLists ==
  LET b == DefsOf("B")
      c == DefsOf("C")
      twice == {Def("B", NoSuper, <<>>, <<>>)}
  IN  Some(b \cup c) \cup Pairs(b, c) \cup Pairs(c, b) \cup Pairs(twice, twice)

Header == Selectors(<<Entry("name", 2), Entry("x", 0), Entry("y", 10), Entry("z", 11)>>)

(* Declarations among the global items, definitions in two scripts.        *)
ClassPrograms ==
  {[global |-> <<Header>> \o decls,
    modules |-> << (IF defs = <<>> THEN <<>> ELSE <<Head(defs)>>)
                     \o <<Instance("B", <<Prop("x", Number(9))>>)>>,
                   IF defs = <<>> THEN <<>> ELSE Tail(defs) >>] :
     decls \in DeclLists, defs \in DefLists}

(* Selectors declared before or after they are used, with one another's    *)
(* numbers or more of them than there are numbers.                         *)
SelectorPrograms ==
  LET entries == {Entry(name, num) : name \in {"name", "x"}, num \in 0..2}
      class == Def("C", NoSuper, <<Prop("x", Number(1)), Prop("name", Number(2))>>,
                   <<"go", "stop">>)
      crowd == {<<>>, <<Selectors(<<Entry("b", 0), Entry("c", 1)>>)>>,
                <<Selectors(<<Entry("b", 0), Entry("c", 1), Entry("d", 3)>>)>>,
                <<Selectors(<<Entry("a", 0), Entry("b", 1), Entry("c", 2), Entry("d", 3)>>)>>}
  IN  {[global |-> first, modules |-> <<<<class, Selectors(es)>>, <<Selectors(more)>>>>] :
         first \in crowd, es \in Some(entries) \cup Pairs(entries, entries), more \in Some(entries)}

(* What classes and objects are refused or bring the compiler down.        *)
OddPrograms ==
  LET text == [type |-> "text", val |-> 0]
      plain == Def("C", NoSuper, <<Prop("x", Number(1))>>, <<>>)
      odd == {Def("C", NoSuper, <<Prop("x", text)>>, <<>>),
              Decl("A", 0, NoSuper, <<Prop("x", text)>>),
              Decl("A", 0, NoSuper, <<Prop("w", Number(1))>>),
              Def("B", "C", <<Prop("y", Number(1))>>, <<>>),
              Instance("D", <<>>),
              Instance("C", <<Prop("y", Number(1))>>),
              Instance("C", <<Prop("x", text), Prop("name", Number(1))>>),
              Instance("C", <<Prop("x", text), Prop("-super-", Number(9)), Prop("x", Number(2))>>)}
  IN  {[global |-> global, modules |-> <<<<i, plain>>, <<j>>>>] :
         global \in {<<>>, <<Header>>, <<Header, plain>>}, i \in odd, j \in odd}

MCPrograms == ClassPrograms \cup SelectorPrograms \cup OddPrograms

=============================================================================
