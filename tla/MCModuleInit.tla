----------------------------- MODULE MCModuleInit -----------------------------
(***************************************************************************)
(* Builds of a small library: a foreign type that has two names, an opaque *)
(* type, a generic type with a variant of each, nested generics; one build *)
(* exports more than the other, one needs a type it does not export yet.   *)
(***************************************************************************)
EXTENDS ModuleInit

E(name, type, kind, needs) == [name |-> name, type |-> type, kind |-> kind, needs |-> needs]

Foreign == E("F", "F", "foreign", {})
Opaque == E("O", "O", "opaque", {})
Inner == <<E("B", "B", "base", {}), E("B", "BO", "variant", {"B", "O"})>>
Outer == <<E("W", "W", "base", {}), E("W", "WBO", "variant", {"W", "BO"})>>

\* Three builds are for Julia 1.9 or newer, and in one of these the foreign type is opaque.
MCLibraries ==
    {[plain |-> <<Foreign, Opaque, E("G", "F", "foreign", {})>>, inner |-> Inner,
      outer |-> Outer,
      rest |-> <<E("c", "c", "const", {}), E("A", "A", "alias", {"F"})>>,
      since_1_9 |-> TRUE],
     [plain |-> <<Foreign, Opaque, E("G", "F", "foreign", {})>>, inner |-> Inner,
      outer |-> <<>>, rest |-> <<E("f", "f", "fn", {"BO"})>>, since_1_9 |-> FALSE],
     [plain |-> <<E("F", "F", "opaque", {}), Opaque>>, inner |-> <<>>, outer |-> <<>>,
      rest |-> <<E("f", "f", "fn", {"F"})>>, since_1_9 |-> TRUE],
     [plain |-> <<Foreign>>, inner |-> <<>>, outer |-> Inner \o Outer,
      rest |-> <<E("f", "f", "fn", {"BO"})>>, since_1_9 |-> TRUE],
     [plain |-> <<Opaque>>, inner |-> Inner, outer |-> <<>>,
      rest |-> <<E("f", "f", "fn", {"F"}), E("A", "A", "alias", {"F"})>>,
      since_1_9 |-> FALSE]}

MCTypes == {"F", "O", "B", "BO", "W", "WBO", "c", "A", "f", "P"}
=============================================================================
