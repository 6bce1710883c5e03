----------------------------- MODULE MCImporter -----------------------------
(***************************************************************************)
(* A package "p" that owns the modules "p.a" and "p.b", a module "x" and   *)
(* the name "gone" of a module that is not on disk.  They import each      *)
(* other in many ways, cycles included, and "p" may be a source itself.    *)
(***************************************************************************)
EXTENDS Importer

MCModules == {"p", "p.a", "p.b", "x", "gone"}

Alias(name, line, uses) == [name |-> name, line |-> line, uses |-> uses]

NoAliases == [m \in MCModules |-> <<>>]

Tree(imports, attributes, statements) ==
  [onDisk |-> MCModules \ {"gone"}, imports |-> imports,
   packages |-> [m \in MCModules |-> IF m \in {"p.a", "p.b"} THEN <<"p">> ELSE <<>>],
   attributes |-> attributes, statements |-> statements]

ImportGraphs ==
  {[m \in MCModules |-> CASE m = "p" -> g[1] [] m = "p.a" -> g[2] [] m = "p.b" -> g[3]
                          [] m = "x" -> g[4] [] OTHER -> {}] :
     g \in {{}, {"x"}} \X (SUBSET {"p", "p.b", "gone"}) \X (SUBSET {"p.a", "x"})
             \X {{}, {"p.b"}, {"p"}}}

\* x declares an alias over one of p.b's.
MCTrees ==
  {Tree(g, [NoAliases EXCEPT !["p.b"] = <<Alias("B", 1, {})>>],
           [NoAliases EXCEPT !["x"] = <<Alias("X", 1, {"B"})>>]) : g \in ImportGraphs}

MCSources == {<<"p.a">>, <<"p.a", "x">>, <<"p.a", "p">>}

\* p.a imports p.b and x, and x, which imports p.b, declares an alias over
\* p.b's; or p.b alone writes an attribute below the type statement it uses.
OrderTrees ==
  {Tree([m \in MCModules |-> CASE m = "p.a" -> {"p.b", "x"} [] m = "x" -> {"p.b"} [] OTHER -> {}],
        [NoAliases EXCEPT !["p.b"] = <<Alias("B", 1, {})>>],
        [NoAliases EXCEPT !["x"] = <<Alias("X", 1, {"B"})>>]),
   Tree([m \in MCModules |-> IF m = "p.a" THEN {"p.b"} ELSE {}],
        [NoAliases EXCEPT !["p.b"] = <<Alias("List", 2, {"Id"})>>],
        [NoAliases EXCEPT !["p.b"] = <<Alias("Id", 1, {})>>])}
=============================================================================
