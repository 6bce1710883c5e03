--------------------------- MODULE PoolRefinement ---------------------------
(***************************************************************************)
(* The pool of DescriptorPool implements PoolContract: what the backends   *)
(* are promised, the schemas it is promised for, and what the planning     *)
(* loops of _plan_snapshots keep true on the way.                          *)
(***************************************************************************)
EXTENDS DescriptorPool, Selectors

\* The schemas the promise is made for.  Every name used in a file is imported
\* there by name, which leaves out names an alias of another module brings in;
\* members reference nothing, and only enums are followed; and an enumerator's
\* number decides its spelling on the wire.
WellScoped(sch) ==
  \A t \in Types :
    /\ \A r \in References(sch, t) : Home(sch, r) \in {Home(sch, t)} \cup Imports(sch, Home(sch, t))
    /\ \A p \in sch.decl[t].parts :
         /\ IsEnum(sch, t) => p.refs = {}
         /\ \A e \in p.follows : IsEnum(sch, e)
         /\ \A q \in sch.decl[t].parts : p.name = q.name /\ p.shape = q.shape => p.wire = q.wire

-----------------------------------------------------------------------------
(* Plans.                                                                  *)

\* Each snapshot is given the last definition made up to it.
LatestDefined(vt) ==
  \A s \in DOMAIN vt :
    /\ vt[s] \in DOMAIN vt /\ vt[s] <= s /\ vt[vt[s]] = vt[s]
    /\ \A q \in DOMAIN vt : vt[s] < q /\ q <= s => vt[q] = vt[s]

\* A resolved file r has planned t at every snapshot t is declared at, and its
\* snapshots are fine enough for t.
Planned(r, t) ==
  /\ 0 \in r.points /\ ChangePoints(schema, t) \subseteq r.points
  /\ DOMAIN r.views[t] = {s \in r.points : InForce(schema.decl[t], s)}
  /\ LatestDefined(r.views[t])

BuiltPlansKept ==
  \A f \in Files : IsBuilt(f) =>
    /\ DOMAIN built[f].views = Owned(schema, f) \cap built[f].versioned
    /\ \A t \in DOMAIN built[f].views : Planned(built[f], t)
    /\ \A g \in Imports(schema, f) : IsBuilt(g) /\ built[g].points \subseteq built[f].points

\* The snapshots the inner loop is through with for t.
PointsDone(t) == IF t = planning THEN points \ remaining ELSE points

\* n is a definition of its own because it differs from the snapshot before.
NewShape(t, n) ==
  \A p \in DOMAIN views[t] :
    p < n /\ (\A q \in DOMAIN views[t] : q < n => q <= p) =>
      \/ Key(KnownEnums(Top.file), t, n) # Key(KnownEnums(Top.file), t, p)
      \/ \E d \in Deps(t) : DepConcrete(d, n) # DepConcrete(d, p)

DraftKept ==
  phase = "plan" =>
    /\ 0 \in points
    /\ \A t \in ToPlan : ChangePoints(schema, t) \subseteq points
    /\ \A g \in BuiltImports(Top.file) : built[g].points \subseteq points
    /\ DOMAIN views \subseteq ToPlan
    /\ remaining \subseteq points
    /\ \A q \in points \ remaining, s \in remaining : q < s
    /\ \A t \in DOMAIN views :
         /\ DOMAIN views[t] = {s \in PointsDone(t) : InForce(schema.decl[t], s)}
         /\ LatestDefined(views[t])
         /\ \A n \in DOMAIN views[t] : views[t][n] = n => NewShape(t, n)

\* What the planning loops keep true when imports form no cycle (_plan_snapshots):
\* a snapshot shares the last definition made, no version at which something a
\* file imports changes is missing from its snapshots, and a definition is made
\* only where the type or the namespace of a type it references changed.
PlansKept == BuiltPlansKept /\ DraftKept

-----------------------------------------------------------------------------
Contract == INSTANCE PoolContract WITH
  resolved <- built, Unresolved <- Unbuilt

\* The pool keeps its promise to the backends: each step is either invisible
\* or resolves one file, after its imports, faithfully to the declarations at
\* every protocol version (DescriptorPool.build_file, _plan_snapshots and the
\* selectors cpp/file.py derives from them).
KeepsContract == Contract!Spec

\* A file may declare an alias over any types it imports.  At a version all of
\* them are declared at, the alias's selector names one snapshot, and what the
\* alias spells there are the definitions its types' own selectors hand out
\* (_alias_plan and _versioned_entries of cpp/file.py): sharing a spelling with
\* an earlier snapshot, adjacent or not, never brings back a past definition.
AliasesAgree ==
  stack = <<>> => \A f \in Files : IsBuilt(f) =>
    LET home == [d \in Types |-> built[Home(schema, d)]]
        near == {t \in Types : Home(schema, t) \in {f} \cup Imports(schema, f)}
    IN  \A cases \in (SUBSET (near \cap Moving(schema))) \ {{}}, v \in Versions :
          (\A d \in cases : InForce(schema.decl[d], v)) =>
            \E c \in Versions :
              /\ AliasSelected(built[f], cases, home, v) = {c}
              /\ \A d \in cases : SpelledAt(home[d], d, c) = Selected(schema, home[d], d, v)
=============================================================================
