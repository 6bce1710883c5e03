--------------------------- MODULE DescriptorPool ---------------------------
(***************************************************************************)
(* compiler/descriptor_pool.py: the pool that turns parsed files into      *)
(* cross-referenced ones.  cli.py asks it for each output file in turn;    *)
(* build_file answers from the memo, or builds the file's imports first    *)
(* and then classifies the file's types, lays out its snapshot points and  *)
(* plans one view per (type, snapshot).                                    *)
(*                                                                         *)
(* The recursion of build_file is an explicit stack of frames.  Imports    *)
(* are all done before a frame classifies, so the locals of the later      *)
(* phases belong to the top frame only.                                    *)
(***************************************************************************)
EXTENDS Schema, FiniteSets

CONSTANTS
  Schemas,    (* the parsed schemas a run may start from                   *)
  OutputLists,(* the command lines: sequences of output files              *)
  NoType      (* no type is being planned                                  *)

ASSUME SchemasAssumption == \A sch \in Schemas : IsSchema(sch)
ASSUME OutputsAssumption == OutputLists \subseteq Seq(Files)
ASSUME NoTypeAssumption  == NoType \notin Types

VARIABLES
  schema,     (* FileSet.files                                             *)
  outputs,    (* FileSet.outputs not yet asked for                         *)
  built,      (* DescriptorPool._built; a file maps to its ResolvedFile    *)
  stack,      (* the active build_file calls, outermost first              *)
  phase,      (* what the innermost call is doing                          *)
  versioned,  (* _versioned_types: its local set                           *)
  points,     (* _snapshot_points: its result                              *)
  views,      (* _plan_snapshots: concrete[name][snapshot]                 *)
  planning,   (* _plan_snapshots: the type of the outer loop, or NoType    *)
  remaining   (* _plan_snapshots: the snapshots the inner loop has left    *)

vars == <<schema, outputs, built, stack, phase, versioned, points, views,
          planning, remaining>>
locals == <<versioned, points, views, planning, remaining>>

Unbuilt == [status |-> "unbuilt"]
IsBuilt(f) == built[f] # Unbuilt

NoViews == [x \in {} |-> x]

Top    == stack[Len(stack)]
Active == {stack[k].file : k \in 1 .. Len(stack)}

-----------------------------------------------------------------------------
(* The recursion over imports.                                             *)

Frame_ForgetsItself(f, visiting) ==
  [file |-> f, deeper |-> visiting, left |-> schema.imports[f]]
Frame(f, visiting) ==
  [file |-> f, deeper |-> visiting \cup {f}, left |-> schema.imports[f]]

Init ==
  /\ schema \in Schemas
  /\ outputs \in OutputLists
  /\ built = [f \in Files |-> Unbuilt]
  /\ stack = <<>>
  /\ phase = "imports"
  /\ versioned = {} /\ points = {} /\ views = NoViews
  /\ planning = NoType /\ remaining = {}

\* main()'s loop: the next output file, answered from the memo ...
OutputFromMemo ==
  /\ stack = <<>> /\ outputs # <<>>
  /\ IsBuilt(Head(outputs))
  /\ outputs' = Tail(outputs)
  /\ UNCHANGED <<schema, built, stack, phase, locals>>

\* ... or built.
OutputBuild_Rebuilds ==
  /\ stack = <<>> /\ outputs # <<>>
  /\ outputs' = Tail(outputs)
  /\ stack' = <<Frame(Head(outputs), {})>>
  /\ UNCHANGED <<schema, built, phase, locals>>
OutputBuild ==
  /\ stack = <<>> /\ outputs # <<>>
  /\ ~ IsBuilt(Head(outputs))
  /\ outputs' = Tail(outputs)
  /\ stack' = <<Frame(Head(outputs), {})>>
  /\ UNCHANGED <<schema, built, phase, locals>>

\* The import loop of _build: `imp not in deeper`, then build_file.
ImportLoop == stack # <<>> /\ phase = "imports" /\ Top.left # <<>>
NextImport == Head(Top.left)
Advanced_Breaks == [stack EXCEPT ![Len(stack)].left = <<>>]
Advanced   == [stack EXCEPT ![Len(stack)].left = Tail(@)]

SkipImport ==
  /\ ImportLoop
  /\ NextImport \in Top.deeper \/ IsBuilt(NextImport)
  /\ stack' = Advanced
  /\ UNCHANGED <<schema, outputs, built, phase, locals>>

EnterImport ==
  /\ ImportLoop
  /\ NextImport \notin Top.deeper /\ ~ IsBuilt(NextImport)
  /\ stack' = Append(Advanced, Frame(NextImport, Top.deeper))
  /\ UNCHANGED <<schema, outputs, built, phase, locals>>

-----------------------------------------------------------------------------
(* What a build sees of its imports: the pool answers only for files       *)
(* already built.                                                          *)

BuiltImports(f) == {g \in Imports(schema, f) : IsBuilt(g)}

\* ResolvedFile.snapshots_of walks the built imports of built imports.
BuiltVisible(f) ==
  {g \in Files : \A G \in SUBSET Files :
     BuiltImports(f) \subseteq G /\ (\A h \in G : IsBuilt(h) => BuiltImports(h) \subseteq G)
     => g \in G}

-----------------------------------------------------------------------------
(* _versioned_types: seed, then spread along references until nothing      *)
(* grows.  The scan order of the loop does not matter to its result, so    *)
(* any type that can be added may be added next.                           *)

Classify ==
  /\ stack # <<>> /\ phase = "imports" /\ Top.left = <<>>
  /\ phase' = "classify"
  /\ versioned' = {t \in Owned(schema, Top.file) : ChangePoints(schema, t) # {}}
                    \cup (UNION {built[g].versioned : g \in BuiltImports(Top.file)})
  /\ UNCHANGED <<schema, outputs, built, stack, points, views, planning, remaining>>

CanSpread_Again(t) ==
  /\ t \in Owned(schema, Top.file)
  /\ References(schema, t) \cap versioned # {}
CanSpread_Downwards(t) ==
  /\ t \in Owned(schema, Top.file) \ versioned
  /\ \E u \in versioned : t \in References(schema, u)
CanSpread(t) ==
  /\ t \in Owned(schema, Top.file) \ versioned
  /\ References(schema, t) \cap versioned # {}

Spread(t) ==
  /\ phase = "classify"
  /\ CanSpread(t)
  /\ versioned' = versioned \cup {t}
  /\ UNCHANGED <<schema, outputs, built, stack, phase, points, views, planning, remaining>>

\* _snapshot_points, once the classification is closed.
LayOut_OwnPoints ==
  /\ phase = "classify"
  /\ \A t \in Types : ~ CanSpread(t)
  /\ phase' = "plan"
  /\ points' = {0}
       \cup (UNION {ChangePoints(schema, t) : t \in Owned(schema, Top.file) \cap versioned})
  /\ UNCHANGED <<schema, outputs, built, stack, versioned, views, planning, remaining>>
LayOut ==
  /\ phase = "classify"
  /\ \A t \in Types : ~ CanSpread(t)
  /\ phase' = "plan"
  /\ points' = {0}
       \cup (UNION {ChangePoints(schema, t) : t \in Owned(schema, Top.file) \cap versioned})
       \cup (UNION {built[g].points : g \in BuiltImports(Top.file)})
  /\ UNCHANGED <<schema, outputs, built, stack, versioned, views, planning, remaining>>

-----------------------------------------------------------------------------
(* _plan_snapshots.                                                        *)

\* _module_underlyings and _module_members know the file's own enums and
\* those its direct imports declare.
KnownEnums(f) ==
  OwnedEnums(schema, f) \cup (UNION {OwnedEnums(schema, g) : g \in BuiltImports(f)})

\* A field that follows an enum _rebind does not find keeps what was parsed.
Followed(known, p, s) ==
  [e \in p.follows |-> IF e \in known THEN Numbering(schema, e, s) ELSE {}]

\* _snapshot_view's identity key: an enumerator's name and number, a field's
\* name and rebound type.
Key(known, t, s) ==
  {<<p.name, p.shape, Followed(known, p, s)>> : p \in PartsAt(schema, t, s)}

\* ResolvedFile.present_at for an imported type: the view whose range
\* [lo, next snapshot) holds s.
Covering(g, d, s) ==
  {lo \in DOMAIN built[g].views[d] :
     lo <= s /\ \A q \in built[g].points : lo < q => s < q}

\* dep_concrete: the namespace that defines d for s, as a set; empty where
\* there is no view of d (None).
ImportedConcrete(d, s) ==
  LET g == Home(schema, d)
  IN  IF g \in BuiltVisible(Top.file) /\ IsBuilt(g) /\ d \in DOMAIN built[g].views
      THEN {built[g].views[d][lo] : lo \in Covering(g, d, s)} ELSE {}

DepConcrete(d, s) ==
  IF d \in DOMAIN views /\ s \in DOMAIN views[d] THEN {views[d][s]} ELSE ImportedConcrete(d, s)

Deps(t) == (References(schema, t) \cap versioned) \ {t}

ToPlan == Owned(schema, Top.file) \cap versioned

\* The outer loop follows _topo_order: a type comes after the file's own
\* types it references.  Ties are left open.
PlanType(t) ==
  /\ phase = "plan" /\ remaining = {}
  /\ t \in ToPlan \ DOMAIN views
  /\ Deps(t) \cap ToPlan \subseteq DOMAIN views
  /\ planning' = t
  /\ remaining' = points
  /\ views' = [u \in DOMAIN views \cup {t} |-> IF u = t THEN NoViews ELSE views[u]]
  /\ UNCHANGED <<schema, outputs, built, stack, phase, versioned, points>>

\* The inner loop takes the snapshots in ascending order.
IsNext(s) == s \in remaining /\ \A q \in remaining : s <= q

\* The snapshot `previous` names: the last one the type was present at.
IsPrevious(p) ==
  /\ p \in DOMAIN views[planning]
  /\ \A q \in DOMAIN views[planning] : q <= p

Changed_OwnFieldsOnly(p, s) ==
  Key(KnownEnums(Top.file), planning, s) # Key(KnownEnums(Top.file), planning, p)
Changed(p, s) ==
  \/ Key(KnownEnums(Top.file), planning, s) # Key(KnownEnums(Top.file), planning, p)
  \/ \E d \in Deps(planning) : DepConcrete(d, s) # DepConcrete(d, p)

Record(s, c) ==
  views' = [views EXCEPT ![planning] =
              [q \in DOMAIN @ \cup {s} |-> IF q = s THEN c ELSE @[q]]]

InnerLoop(s) ==
  /\ phase = "plan" /\ IsNext(s)
  /\ remaining' = remaining \ {s}
  /\ UNCHANGED <<schema, outputs, built, stack, phase, versioned, points, planning>>

\* The type is not declared at this snapshot.
SkipAbsent(s) ==
  /\ InnerLoop(s)
  /\ ~ InForce(schema.decl[planning], s)
  /\ UNCHANGED views

\* A new shape: the first snapshot, or one that differs from the previous.
Define(s) ==
  /\ InnerLoop(s)
  /\ InForce(schema.decl[planning], s)
  /\ \A p \in DOMAIN views[planning] : IsPrevious(p) => Changed(p, s)
  /\ Record(s, s)

\* The previous snapshot's definition, reused.
Share(s) ==
  /\ InnerLoop(s)
  /\ InForce(schema.decl[planning], s)
  /\ \E p \in DOMAIN views[planning] :
       /\ IsPrevious(p)
       /\ ~ Changed(p, s)
       /\ Record(s, views[planning][p])

-----------------------------------------------------------------------------
\* build_file memoises the descriptor and returns to its caller.
Seal ==
  /\ phase = "plan" /\ remaining = {}
  /\ ToPlan \subseteq DOMAIN views
  /\ built' = [built EXCEPT ![Top.file] =
                 [status |-> "built", versioned |-> versioned, points |-> points,
                  views |-> views, known |-> KnownEnums(Top.file)]]
  /\ stack' = SubSeq(stack, 1, Len(stack) - 1)
  /\ phase' = "imports"
  /\ versioned' = {} /\ points' = {} /\ views' = NoViews
  /\ planning' = NoType
  /\ UNCHANGED <<schema, outputs, remaining>>

Done == stack = <<>> /\ outputs = <<>> /\ UNCHANGED vars

Next ==
  \/ OutputFromMemo \/ OutputBuild
  \/ SkipImport \/ EnterImport
  \/ Classify \/ (\E t \in Types : Spread(t)) \/ LayOut
  \/ \E t \in Types : PlanType(t)
  \/ \E s \in Versions : SkipAbsent(s) \/ Define(s) \/ Share(s)
  \/ Seal
  \/ Done

\* bpc runs to its end on one thread: it never stops while a step is left.
Spec == Init /\ [][Next]_vars /\ WF_vars(Next)

-----------------------------------------------------------------------------
\* concrete[name][snapshot], for some types at some snapshots.
IsPlan(vw) ==
  /\ DOMAIN vw \subseteq Types
  /\ vw = [t \in DOMAIN vw |-> vw[t]]
  /\ \A t \in DOMAIN vw :
       DOMAIN vw[t] \subseteq Versions /\ vw[t] \in [DOMAIN vw[t] -> Versions]

IsResolved(r) ==
  /\ r = [status |-> "built", versioned |-> r.versioned, points |-> r.points,
          views |-> r.views, known |-> r.known]
  /\ r.versioned \subseteq Types /\ r.points \subseteq Versions
  /\ IsPlan(r.views) /\ r.known \subseteq Types

Frames == [file : Files, deeper : SUBSET Files, left : Seq(Files)]

\* Types of the variables.
TypeOK ==
  /\ schema \in Schemas
  /\ outputs \in Seq(Files)
  /\ built = [f \in Files |-> built[f]]
  /\ \A f \in Files : IsBuilt(f) => IsResolved(built[f])
  /\ stack \in Seq(Frames)
  /\ phase \in {"imports", "classify", "plan"}
  /\ phase # "imports" => stack # <<>>
  /\ versioned \subseteq Types
  /\ points \subseteq Versions
  /\ IsPlan(views)
  /\ planning \in Types \cup {NoType}
  /\ remaining \subseteq Versions

\* The recursion is finite even when imports form a cycle: no file is being
\* built twice at once, and none that is being built is built already.
NeverReentered ==
  \A j, k \in 1 .. Len(stack) :
    /\ ~ IsBuilt(stack[k].file)
    /\ j # k => stack[j].file # stack[k].file

\* What the import loop of a frame still has before it.
Pending(fr) == {fr.left[i] : i \in 1 .. Len(fr.left)}

\* `deeper` holds the files of the calls down to this one, each of which was
\* reached through imports of the ones above it.
DeeperIsChain ==
  \A k \in 1 .. Len(stack) :
    /\ stack[k].deeper = {stack[j].file : j \in 1 .. k}
    /\ Pending(stack[k]) \subseteq Imports(schema, stack[k].file)
    /\ \A j \in 1 .. k : stack[k].file \in Visible(schema, stack[j].file)

\* No import of a call is lost: it is ahead in the loop, built, or being built.
ImportsAccounted ==
  \A k \in 1 .. Len(stack) :
    \A g \in Imports(schema, stack[k].file) :
      g \in Pending(stack[k]) \/ IsBuilt(g) \/ g \in Active

\* An import that a built file lacks is still being built further out.
LacksOnlyActive ==
  \A f \in Files : IsBuilt(f) =>
    \A g \in Imports(schema, f) : IsBuilt(g) \/ g \in Active

\* What the recursion keeps true at every step: the inductive form of
\* NeverReentered and ImportsResolved.
RecursionInv ==
  /\ DeeperIsChain
  /\ NeverReentered
  /\ ImportsAccounted
  /\ LacksOnlyActive
  /\ phase # "imports" => Top.left = <<>>

\* When build_file has returned to main(), which then renders the file, every
\* lookup through the imports of a built file finds its target in the pool,
\* import cycles included (ResolvedFile.is_versioned, snapshots_of).
ImportsResolved ==
  stack = <<>> =>
    \A f \in Files : IsBuilt(f) => \A g \in Imports(schema, f) : IsBuilt(g)

\* A descriptor never changes once a backend or an importing file may have
\* read it (DescriptorPool._built is written once per name).
BuiltOnce == [][\A f \in Files : IsBuilt(f) => built'[f] = built[f]]_vars

\* No file splits a type whose definition never moves, on any import graph
\* (_versioned_types).
NothingSplitInVain ==
  /\ versioned \subseteq Moving(schema)
  /\ \A f \in Files : IsBuilt(f) => built[f].versioned \subseteq Moving(schema)

\* S holds every type of f that moves if the types in S do.
ClosedAt(f, S) ==
  \A t \in Owned(schema, f) :
    ChangePoints(schema, t) # {} \/ References(schema, t) \cap S # {} => t \in S

\* What the classification keeps true when imports form no cycle: each file's
\* set is closed under its own references and holds its imports' sets.
ClassificationInv ==
  /\ \A f \in Files : IsBuilt(f) =>
       /\ ClosedAt(f, built[f].versioned)
       /\ \A g \in Imports(schema, f) :
            IsBuilt(g) /\ built[g].versioned \subseteq built[f].versioned
  /\ phase # "imports" =>
       /\ \A t \in Owned(schema, Top.file) : ChangePoints(schema, t) # {} => t \in versioned
       /\ \A g \in BuiltImports(Top.file) : built[g].versioned \subseteq versioned
  /\ phase = "plan" => ClosedAt(Top.file, versioned)

\* Every type whose definition moves is split in the file that declares it,
\* however far away the change is (_versioned_types).
SplitsAllMoving ==
  \A f \in Files : IsBuilt(f) => Owned(schema, f) \cap Moving(schema) \subseteq built[f].versioned

\* A snapshot that shares an earlier definition agrees with it on the type's
\* own fields and on the namespace of every type it references: comparing
\* neighbours is enough, however long the run of shared snapshots
\* (_plan_snapshots).
SharesAgree(known, vw, t) ==
  \A s \in DOMAIN vw[t] :
    /\ vw[t][s] \in DOMAIN vw[t]
    /\ vw[t][vw[t][s]] = vw[t][s]
    /\ Key(known, t, vw[t][s]) = Key(known, t, s)
SharedViewsAgree ==
  /\ \A f \in Files : IsBuilt(f) =>
       \A t \in DOMAIN built[f].views : SharesAgree(built[f].known, built[f].views, t)
  /\ phase = "plan" =>
       \A t \in DOMAIN views :
         /\ SharesAgree(KnownEnums(Top.file), views, t)
         /\ \A s \in DOMAIN views[t], d \in Deps(t) :
              DepConcrete(d, s) = DepConcrete(d, views[t][s])

\* What the planning loops keep true besides: a type is planned after the
\* types it references and is not planned again, and a snapshot once.
PlanInv ==
  /\ phase # "plan" => views = NoViews /\ remaining = {}
  /\ phase = "plan" =>
       /\ \A t \in DOMAIN views : planning \notin Deps(t) /\ Deps(t) \cap ToPlan \subseteq DOMAIN views
       /\ remaining # {} =>
            planning \in DOMAIN views /\ remaining \cap DOMAIN views[planning] = {}
  /\ SharedViewsAgree

\* Every output ends up built: the recursion, the classification loop and the
\* planning loops all terminate, on every import graph.
EveryOutputBuilt == <>(outputs = <<>> /\ stack = <<>>)

\* The docstring of find_file_by_name: "a file's imports are always built
\* before it, so a lookup during a build finds them".
ImportsBuiltFirst ==
  phase # "imports" => \A g \in Imports(schema, Top.file) : IsBuilt(g)
=============================================================================
