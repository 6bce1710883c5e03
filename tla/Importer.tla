------------------------------ MODULE Importer ------------------------------
(***************************************************************************)
(* compiler/importer.py, Importer.load_all: opens the source files, the    *)
(* packages that own them and whatever their imports lead to, then makes   *)
(* one pass over the type aliases of everything loaded.  Types resolve     *)
(* through one table filled before anything is parsed; aliases resolve     *)
(* while they are parsed, so their order matters.                          *)
(*                                                                         *)
(* A source tree is a record                                               *)
(*   onDisk     : SUBSET Modules           found under an import path      *)
(*   imports    : [Modules -> SUBSET Modules]   _imports_of                *)
(*   packages   : [Modules -> Seq(Modules)]     enclosing, innermost first *)
(*   attributes, statements : [Modules -> Seq(aliases)]                    *)
(* where attributes holds the aliases written `X = ...` and statements     *)
(* those written `type X = ...`, each a record [name, line, uses] with the *)
(* names of the aliases its right-hand side mentions.  (A definition named *)
(* X_... is X with a plausible mistake in it.)                             *)
(***************************************************************************)
EXTENDS Naturals, Sequences

CONSTANTS
  Modules,    (* dotted module names                                       *)
  Trees,      (* the source trees a run may start from                     *)
  SourceLists,(* the command lines: sequences of source files              *)
  NoModule    (* no module's imports are being walked                      *)

IsTree(tr) ==
  /\ tr.onDisk \subseteq Modules
  /\ tr.imports \in [Modules -> SUBSET Modules]
  /\ tr.packages \in [Modules -> Seq(Modules)]

ASSUME TreesAssumption    == \A tr \in Trees : IsTree(tr)
ASSUME SourcesAssumption  == SourceLists \subseteq Seq(Modules)
ASSUME NoModuleAssumption == NoModule \notin Modules

VARIABLES
  tree,       (* the files                                                 *)
  outputs,    (* output_names                                              *)
  phase,      (* what load_all is doing                                    *)
  left,       (* the modules its current loop has not come to              *)
  parents,    (* _load_owning_packages: the inner loop's packages left     *)
  loaded,     (* the keys of griffe_modules, in insertion order            *)
  pending,    (* _follow_imports: its worklist, popped from the end        *)
  scanning,   (* _follow_imports: the module popped last, or NoModule      *)
  deps,       (* _follow_imports: the imports of it left in the inner loop *)
  walk,       (* the alias pass: the module's aliases left                 *)
  aliases     (* the alias pass: the keys of aliases_by_name               *)

vars == <<tree, outputs, phase, left, parents, loaded, pending, scanning,
          deps, walk, aliases>>

Members(s) == {s[i] : i \in 1 .. Len(s)}
Loaded     == Members(loaded)

\* dict assignment: a key that is there keeps its place.
WithKey(m) == IF m \in Loaded THEN loaded ELSE Append(loaded, m)

Init ==
  /\ tree \in Trees
  /\ outputs \in SourceLists
  /\ phase = "sources"
  /\ left = outputs
  /\ parents = <<>> /\ loaded = <<>> /\ pending = <<>>
  /\ scanning = NoModule /\ deps = {}
  /\ walk = <<>> /\ aliases = {}

-----------------------------------------------------------------------------
\* load_all's loop over the sources.
OpenSource ==
  /\ phase = "sources" /\ left # <<>>
  /\ loaded' = WithKey(Head(left))
  /\ left' = Tail(left)
  /\ UNCHANGED <<tree, outputs, phase, parents, pending, scanning, deps, walk, aliases>>

BeginOwners ==
  /\ phase = "sources" /\ left = <<>>
  /\ phase' = "owners"
  /\ left' = outputs
  /\ UNCHANGED <<tree, outputs, parents, loaded, pending, scanning, deps, walk, aliases>>

\* _load_owning_packages: its outer and its inner loop.
NextSource_DownToNothing ==
  /\ phase = "owners" /\ parents = <<>> /\ left # <<>>
  /\ parents' = Append(tree.packages[Head(left)], NoModule)
  /\ left' = Tail(left)
  /\ UNCHANGED <<tree, outputs, phase, loaded, pending, scanning, deps, walk, aliases>>
NextSource ==
  /\ phase = "owners" /\ parents = <<>> /\ left # <<>>
  /\ parents' = tree.packages[Head(left)]
  /\ left' = Tail(left)
  /\ UNCHANGED <<tree, outputs, phase, loaded, pending, scanning, deps, walk, aliases>>

OpenPackage ==
  /\ phase = "owners" /\ parents # <<>>
  /\ loaded' = IF Head(parents) \in tree.onDisk THEN WithKey(Head(parents)) ELSE loaded
  /\ parents' = Tail(parents)
  /\ UNCHANGED <<tree, outputs, phase, left, pending, scanning, deps, walk, aliases>>

-----------------------------------------------------------------------------
\* _follow_imports starts from the sources alone.
BeginFollow ==
  /\ phase = "owners" /\ parents = <<>> /\ left = <<>>
  /\ phase' = "follow"
  /\ pending' = outputs
  /\ UNCHANGED <<tree, outputs, left, parents, loaded, scanning, deps, walk, aliases>>

Pop ==
  /\ phase = "follow" /\ deps = {} /\ pending # <<>>
  /\ scanning' = pending[Len(pending)]
  /\ deps' = tree.imports[pending[Len(pending)]]
  /\ pending' = SubSeq(pending, 1, Len(pending) - 1)
  /\ UNCHANGED <<tree, outputs, phase, left, parents, loaded, walk, aliases>>

\* _imports_of returns a set, so its members come in any order.
SkipImport(d) ==
  /\ phase = "follow" /\ d \in deps
  /\ d \in Loaded \/ d \notin tree.onDisk
  /\ deps' = deps \ {d}
  /\ UNCHANGED <<tree, outputs, phase, left, parents, loaded, pending, scanning, walk, aliases>>

OpenImport_NotFollowed(d) ==
  /\ phase = "follow" /\ d \in deps
  /\ d \notin Loaded /\ d \in tree.onDisk
  /\ deps' = deps \ {d}
  /\ loaded' = Append(loaded, d)
  /\ UNCHANGED <<tree, outputs, phase, left, parents, pending, scanning, walk, aliases>>
OpenImport_Anew(d) ==
  /\ phase = "follow" /\ d \in deps
  /\ d # scanning /\ d \in tree.onDisk
  /\ deps' = deps \ {d}
  /\ loaded' = WithKey(d)
  /\ pending' = Append(pending, d)
  /\ UNCHANGED <<tree, outputs, phase, left, parents, scanning, walk, aliases>>
OpenImport(d) ==
  /\ phase = "follow" /\ d \in deps
  /\ d \notin Loaded /\ d \in tree.onDisk
  /\ deps' = deps \ {d}
  /\ loaded' = Append(loaded, d)
  /\ pending' = Append(pending, d)
  /\ UNCHANGED <<tree, outputs, phase, left, parents, scanning, walk, aliases>>

-----------------------------------------------------------------------------
\* _classify's alias pass: the modules in the order they were loaded, and in
\* each the attributes before the type statements.
BeginAliases ==
  /\ phase = "follow" /\ deps = {} /\ pending = <<>>
  /\ phase' = "aliases"
  /\ scanning' = NoModule
  /\ left' = loaded
  /\ UNCHANGED <<tree, outputs, parents, loaded, pending, deps, walk, aliases>>

NextModule ==
  /\ phase = "aliases" /\ walk = <<>> /\ left # <<>>
  /\ walk' = tree.attributes[Head(left)] \o tree.statements[Head(left)]
  /\ left' = Tail(left)
  /\ UNCHANGED <<tree, outputs, phase, parents, loaded, pending, scanning, deps, aliases>>

\* parse_alias finds what the right-hand side names, or returns None and the
\* alias is passed over.
ParseAlias ==
  /\ phase = "aliases" /\ walk # <<>>
  /\ aliases' = IF Head(walk).uses \subseteq aliases
                THEN aliases \cup {Head(walk).name} ELSE aliases
  /\ walk' = Tail(walk)
  /\ UNCHANGED <<tree, outputs, phase, left, parents, loaded, pending, scanning, deps>>

Finish ==
  /\ phase = "aliases" /\ walk = <<>> /\ left = <<>>
  /\ phase' = "done"
  /\ UNCHANGED <<tree, outputs, left, parents, loaded, pending, scanning, deps, walk, aliases>>

Done == phase = "done" /\ UNCHANGED vars

Next ==
  \/ OpenSource \/ BeginOwners \/ NextSource \/ OpenPackage
  \/ BeginFollow \/ Pop
  \/ \E d \in Modules : SkipImport(d) \/ OpenImport(d)
  \/ BeginAliases \/ NextModule \/ ParseAlias \/ Finish
  \/ Done

\* load_all runs to its end on one thread.
Spec == Init /\ [][Next]_vars /\ WF_vars(Next)

-----------------------------------------------------------------------------
\* Types of the variables the loading uses.
TypeOK ==
  /\ tree \in Trees
  /\ outputs \in Seq(Modules)
  /\ phase \in {"sources", "owners", "follow", "aliases", "done"}
  /\ left \in Seq(Modules) /\ parents \in Seq(Modules)
  /\ loaded \in Seq(Modules) /\ pending \in Seq(Modules)
  /\ scanning \in Modules \cup {NoModule}
  /\ deps \subseteq Modules

Sources  == Members(outputs)
Packages == (UNION {Members(tree.packages[m]) : m \in Sources}) \cap tree.onDisk

\* The packages nothing is followed from: opened for a source, no source.
OwnersOnly == Packages \ Sources

Settled(m) == tree.imports[m] \cap tree.onDisk \subseteq Loaded

\* S holds the sources, their packages and, but for the packages, the imports
\* of what it holds.
LoadClosed(S) ==
  /\ Sources \cup Packages \subseteq S
  /\ \A m \in S \ OwnersOnly : tree.imports[m] \cap tree.onDisk \subseteq S

\* What a run loads, whatever order it meets the imports in.
Expected == {m \in Modules : \A S \in SUBSET Modules : LoadClosed(S) => m \in S}

\* Every source is loaded, or still to come in the first loop.
SourcesAccounted ==
  /\ phase \in {"sources", "owners"} => Members(left) \subseteq Sources
  /\ phase = "sources" => Sources \subseteq Loaded \cup Members(left)
  /\ phase # "sources" => Sources \subseteq Loaded

\* So is every package of a source, in the loops of _load_owning_packages, and
\* so far there is nothing else.
PackagesAccounted ==
  /\ phase \in {"sources", "owners"} => Loaded \subseteq Sources \cup Packages
  /\ Members(parents) \cap tree.onDisk \subseteq Packages
  /\ phase = "sources" => parents = <<>>
  /\ phase = "owners" =>
       \A m \in Sources \ Members(left) :
         Members(tree.packages[m]) \cap tree.onDisk \subseteq Loaded \cup Members(parents)
  /\ phase \notin {"sources", "owners"} => Packages \subseteq Loaded

\* A loaded module that is no mere owner is still to be popped, is being
\* walked, or has every import loaded.
ImportsAccounted ==
  /\ phase # "follow" => deps = {}
  /\ phase = "follow" =>
       /\ Members(pending) \subseteq Loaded \ OwnersOnly
       /\ deps # {} => scanning \in Loaded \ OwnersOnly /\ deps \subseteq tree.imports[scanning]
       /\ \A m \in Loaded \ OwnersOnly :
            \/ m \in Members(pending)
            \/ m = scanning /\ tree.imports[m] \cap tree.onDisk \subseteq Loaded \cup deps
            \/ Settled(m)
  /\ phase \in {"aliases", "done"} => \A m \in Loaded \ OwnersOnly : Settled(m)

\* The three loops lose nothing, whatever order they meet it in, and load
\* nothing that is not called for: the inductive form of LoadDetermined.
WorklistInv ==
  /\ Loaded \subseteq Expected
  /\ SourcesAccounted
  /\ PackagesAccounted
  /\ ImportsAccounted

\* The FileSet does not depend on the order the imports of a module come in:
\* load_all loads the sources, their packages and what the imports of anything
\* but a mere owner lead to, all of it and nothing else.
LoadDetermined == phase \in {"aliases", "done"} => Loaded = Expected

\* load_all returns, import cycles included.
LoadEnds == <>(phase = "done")

-----------------------------------------------------------------------------
\* What an import chain leads to from the sources.
ImportClosed(S) == \A m \in S : tree.imports[m] \cap tree.onDisk \subseteq S
Reached == {m \in Modules : \A S \in SUBSET Modules : Sources \subseteq S /\ ImportClosed(S) => m \in S}

\* load_all's docstring: "Load every source file plus its transitive imports,
\* returning the complete `FileSet`".
LoadsTransitiveImports == phase = "done" => Reached \subseteq Loaded

\* The aliases a module may use by the rules of the language: those above it
\* in its own text and those of the modules it imports.
AliasesOf(m)    == Members(tree.attributes[m]) \cup Members(tree.statements[m])
InScope(m, line) ==
  {a.name : a \in {b \in AliasesOf(m) : b.line < line}
              \cup UNION {AliasesOf(d) : d \in tree.imports[m] \cap tree.onDisk}}

\* The comment on the alias pass: "Declaration order is the resolution order":
\* an alias over aliases declared before it is resolved.
AliasesResolve ==
  phase = "done" =>
    \A m \in Loaded : \A a \in AliasesOf(m) :
      a.uses \subseteq InScope(m, a.line) \cap aliases => a.name \in aliases
=============================================================================
