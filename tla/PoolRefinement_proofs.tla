------------------------ MODULE PoolRefinement_proofs -----------------------
(***************************************************************************)
(* Proof that the pool keeps its contract, for every set of files, types   *)
(* and versions, every list of outputs and every set of well-scoped        *)
(* schemas whose imports form no cycle.                                    *)
(***************************************************************************)
EXTENDS PoolRefinement, DescriptorPool_proofs, Induction

-----------------------------------------------------------------------------
(* Snapshots.                                                              *)

\* s is the last snapshot in P up to v.
IsLast(P, s, v) == s \in P /\ s <= v /\ \A q \in P : q <= v => q <= s

\* There is one, if 0 is a snapshot.
LEMMA LastExists ==
  ASSUME NEW P \in SUBSET Versions, 0 \in P, NEW v \in Versions
  PROVE  \E s \in P : IsLast(P, s, v)
<1>1. P \in SUBSET Nat /\ v \in Nat /\ 0 <= v
  BY OpenAssumption DEF Versions
<1> QED
  BY <1>1, GreatestUpTo DEF IsLast

\* No bound that is a snapshot is crossed after the last one.
LEMMA SameForce ==
  ASSUME NEW P \in SUBSET Versions, NEW v \in Versions, NEW s, IsLast(P, s, v),
         NEW x, Span(x), Gates(x) \subseteq P
  PROVE  InForce(x, s) <=> InForce(x, v)
<1>1. /\ Open \in Nat /\ s \in Nat /\ v \in Nat /\ v < Open /\ s <= v
      /\ x.since \in Nat /\ x.until \in Nat /\ x.until # 0
  BY OpenAssumption DEF Versions, IsLast, Span
<1>2. x.since <= v => x.since <= s
  <2>1. CASE x.since = 0
    BY <1>1, <2>1
  <2>2. CASE x.since # 0
    <3>1. x.since # Open
      BY OpenAssumption DEF Span, Versions
    <3>2. x.since \in P
      BY <2>2, <3>1 DEF Gates
    <3> QED
      BY <3>2 DEF IsLast
  <2> QED
    BY <2>1, <2>2
<1>3. x.until <= v => x.until <= s
  <2>1. SUFFICES ASSUME x.until <= v PROVE x.until \in P
    BY DEF IsLast
  <2>2. x.until # Open
    BY <1>1, <2>1
  <2> QED
    BY <1>1, <2>2 DEF Gates
<1> QED
  BY <1>1, <1>2, <1>3 DEF InForce

\* Nor does anything a type is made of change after the last one.
LEMMA SameParts ==
  ASSUME NEW sch, IsSchema(sch), NEW t \in Types, NEW P \in SUBSET Versions,
         ChangePoints(sch, t) \subseteq P, NEW v \in Versions, NEW s, IsLast(P, s, v)
  PROVE  /\ InForce(sch.decl[t], s) <=> InForce(sch.decl[t], v)
         /\ PartsAt(sch, t, s) = PartsAt(sch, t, v)
         /\ Numbering(sch, t, s) = Numbering(sch, t, v)
<1>1. Span(sch.decl[t]) /\ \A p \in sch.decl[t].parts : Span(p)
  BY DEF IsSchema
<1>2. Gates(sch.decl[t]) \subseteq P /\ \A p \in sch.decl[t].parts : Gates(p) \subseteq P
  BY DEF ChangePoints
<1>3. InForce(sch.decl[t], s) <=> InForce(sch.decl[t], v)
  BY <1>1, <1>2, SameForce
<1>4. \A p \in sch.decl[t].parts : InForce(p, s) <=> InForce(p, v)
  BY <1>1, <1>2, SameForce
<1>5. PartsAt(sch, t, s) = PartsAt(sch, t, v)
  BY <1>4 DEF PartsAt
<1> QED
  BY <1>3, <1>5 DEF Numbering

\* The last snapshot of a file's is the last of those a file it imports has.
LEMMA LastOfFewer ==
  ASSUME NEW P \in SUBSET Versions, NEW Q \in SUBSET P, NEW v \in Versions, NEW s,
         IsLast(P, s, v), NEW q
  PROVE  IsLast(Q, q, s) <=> IsLast(Q, q, v)
<1>1. /\ \A x \in P : x \in Nat
      /\ v \in Nat /\ s \in P /\ s <= v /\ \A x \in P : x <= v => x <= s
  BY OpenAssumption DEF Versions, IsLast
<1>2. \A x \in Q : x <= s <=> x <= v
  BY <1>1
<1> QED
  BY <1>2 DEF IsLast

-----------------------------------------------------------------------------
(* Selectors over a plan.                                                  *)

\* What a selector, a spelling and packet_of answer at v, by the last
\* snapshot up to v.
LEMMA AnswersOfPlan ==
  ASSUME IsSchema(schema), NEW r, NEW t \in Types, Planned(r, t),
         r.points \subseteq Versions, NEW v \in Versions, NEW s, IsLast(r.points, s, v)
  PROVE  /\ InForce(schema.decl[t], v) <=> s \in DOMAIN r.views[t]
         /\ s \in DOMAIN r.views[t] =>
              /\ Selected(schema, r, t, v) = {r.views[t][s]}
              /\ ViewAt(r, t, v) = {s}
              /\ SpelledAt(r, t, v) = {r.views[t][s]}
              /\ PacketResolves(schema, r, t, v)
         /\ s \notin DOMAIN r.views[t] =>
              /\ Selected(schema, r, t, v) = {}
              /\ ViewAt(r, t, v) = {}
              /\ SpelledAt(r, t, v) = {}
              /\ ~ PacketResolves(schema, r, t, v)
<1> DEFINE D == DOMAIN r.views[t]
           decl == schema.decl[t]
<1>1. /\ D = {q \in r.points : InForce(decl, q)}
      /\ ChangePoints(schema, t) \subseteq r.points /\ 0 \in r.points
      /\ \A q \in D : /\ r.views[t][q] \in D /\ r.views[t][q] <= q
                      /\ r.views[t][r.views[t][q]] = r.views[t][q]
                      /\ \A p \in D : r.views[t][q] < p /\ p <= q => r.views[t][p] = r.views[t][q]
  BY DEF Planned, LatestDefined
<1>2. /\ \A q \in r.points : q \in Nat
      /\ v \in Nat /\ s \in Nat /\ s \in r.points /\ s <= v /\ \A q \in r.points : q <= v => q <= s
      /\ decl.since \in Nat /\ decl.until \in Nat
  BY OpenAssumption DEF Versions, IsLast, IsSchema, Span
<1>3. InForce(decl, s) <=> InForce(decl, v)
  BY <1>1, SameParts
<1>4. InForce(decl, v) <=> s \in D
  BY <1>1, <1>2, <1>3
<1>5. ViewAt(r, t, v) = {lo \in D : lo = s}
  <2>1. \A lo \in D : lo \in r.points
    BY <1>1
  <2>2. ASSUME NEW lo \in D
        PROVE  (lo <= v /\ \A q \in r.points : lo < q => v < q) <=> lo = s
    BY <1>2, <2>1, <2>2
  <2> QED
    BY <2>2 DEF ViewAt
<1>6. CASE s \in D
  <2> DEFINE c == r.views[t][s]
  <2>1. /\ c \in D /\ c \in Nat /\ c <= s /\ r.views[t][c] = c
        /\ \A p \in D : c < p /\ p <= s => r.views[t][p] = c
    BY <1>1, <1>2, <1>6
  <2>2. c \in Fresh(r, t) /\ Fresh(r, t) \subseteq D
    BY <2>1 DEF Fresh
  <2>3. ASSUME NEW l \in Fresh(r, t), c < l
        PROVE  v < l
    <3>1. l \in D /\ r.views[t][l] = l /\ l \in r.points /\ l \in Nat
      BY <1>1, <1>2 DEF Fresh
    <3>2. ~ (l <= s)
      BY <2>1, <2>3, <3>1
    <3> QED
      BY <1>2, <3>1, <3>2
  <2>4. v < decl.until
    BY <1>4, <1>6 DEF InForce
  <2>5. ASSUME NEW lo \in Selected(schema, r, t, v)
        PROVE  lo = c
    <3>1. lo \in Fresh(r, t) /\ lo <= v /\ \A l \in Fresh(r, t) : lo < l => v < l
      BY DEF Selected
    <3>2. lo \in Nat /\ ~ (lo < c) /\ ~ (c < lo)
      BY <1>1, <1>2, <2>1, <2>2, <2>3, <3>1
    <3> QED
      BY <2>1, <3>2
  <2>6. c <= v
    BY <1>2, <2>1
  <2>7. c \in Selected(schema, r, t, v)
    BY <2>2, <2>3, <2>4, <2>6 DEF Selected
  <2>8. Selected(schema, r, t, v) = {c}
    BY <2>5, <2>7
  <2>9. ViewAt(r, t, v) = {s}
    BY <1>5, <1>6
  <2>10. SpelledAt(r, t, v) = {c}
    BY <2>9 DEF SpelledAt
  <2>11. PacketResolves(schema, r, t, v)
    BY <2>2, <2>4, <2>6 DEF PacketResolves
  <2> QED
    BY <1>4, <1>6, <2>8, <2>9, <2>10, <2>11
<1>7. CASE s \notin D
  <2>1. ViewAt(r, t, v) = {}
    BY <1>5, <1>7
  <2>2. SpelledAt(r, t, v) = {}
    BY <2>1 DEF SpelledAt
  <2>3. ASSUME NEW lo \in Fresh(r, t), lo <= v, v < decl.until
        PROVE  FALSE
    <3>1. lo \in r.points /\ InForce(decl, lo)
      BY <1>1 DEF Fresh
    <3>2. InForce(decl, v)
      BY <1>2, <2>3, <3>1 DEF InForce
    <3> QED
      BY <1>4, <1>7, <3>2
  <2>4. Selected(schema, r, t, v) = {} /\ ~ PacketResolves(schema, r, t, v)
    BY <2>3 DEF Selected, PacketResolves
  <2> QED
    BY <1>4, <1>7, <2>1, <2>2, <2>4
<1> QED
  BY <1>6, <1>7

-----------------------------------------------------------------------------
(* The planning loops.                                                     *)

\* A step that leaves the memo alone keeps the plans in it.
LEMMA BuiltPlansUnmoved ==
  ASSUME BuiltPlansKept, UNCHANGED <<schema, built>>
  PROVE  BuiltPlansKept'
<1>1. \A f : IsBuilt(f)' <=> IsBuilt(f)
  BY DEF IsBuilt
<1>2. \A r, t : Planned(r, t)' <=> Planned(r, t)
  BY DEF Planned
<1> QED
  BY <1>1, <1>2 DEF BuiltPlansKept

\* A definition stays new while what it was compared with stays.
LEMMA NewShapeStable ==
  ASSUME UNCHANGED <<schema, built, stack, versioned>>, NEW t, views'[t] = views[t],
         \A d \in Deps(t) : \A q : DepConcrete(d, q)' = DepConcrete(d, q),
         NEW n, NewShape(t, n)
  PROVE  NewShape(t, n)'
<1>1. KnownEnums(Top.file)' = KnownEnums(Top.file)
  BY ImportedStable
<1>2. Deps(t)' = Deps(t)
  BY DEF Deps
<1>3. \A known, q : Key(known, t, q)' = Key(known, t, q)
  BY DEF Key, Followed
<1> QED
  BY <1>1, <1>2, <1>3 DEF NewShape

\* _snapshot_points starts the draft.
LEMMA DraftLaidOut ==
  ASSUME TypeOK, PlanInv, LayOut
  PROVE  DraftKept'
<1>1. /\ phase # "plan" /\ UNCHANGED <<schema, built, stack, versioned, views, planning, remaining>>
      /\ views = NoViews /\ remaining = {}
  BY DEF LayOut, PlanInv
<1>2. Top' = Top /\ \A f : BuiltImports(f)' = BuiltImports(f)
  BY <1>1 DEF Top, BuiltImports, IsBuilt
<1>3. ToPlan' = ToPlan
  BY <1>1, <1>2 DEF ToPlan
<1>4. /\ 0 \in points'
      /\ \A t \in ToPlan : ChangePoints(schema, t) \subseteq points'
      /\ \A g \in BuiltImports(Top.file) : built[g].points \subseteq points'
  BY DEF LayOut, ToPlan
<1>5. DOMAIN views' = {}
  BY <1>1 DEF NoViews
<1> QED
  BY <1>1, <1>2, <1>3, <1>4, <1>5 DEF DraftKept

\* The facts of a step inside the planning loops.
LEMMA PlanFrame ==
  ASSUME UNCHANGED <<schema, built, stack, versioned>>
  PROVE  /\ Top' = Top /\ ToPlan' = ToPlan
         /\ \A f : BuiltImports(f)' = BuiltImports(f)
         /\ \A t : Deps(t)' = Deps(t)
<1>1. Top' = Top /\ \A f : BuiltImports(f)' = BuiltImports(f)
  BY DEF Top, BuiltImports, IsBuilt
<1> QED
  BY <1>1 DEF ToPlan, Deps

\* The outer loop takes the next type.
LEMMA DraftTakesType ==
  ASSUME TypeOK, PlanInv, DraftKept, NEW u \in Types, PlanType(u)
  PROVE  DraftKept'
<1>1. /\ phase = "plan" /\ phase' = "plan" /\ remaining = {} /\ remaining' = points
      /\ u \in ToPlan /\ u \notin DOMAIN views
      /\ planning' = u
      /\ DOMAIN views' = DOMAIN views \cup {u}
      /\ views'[u] = NoViews /\ \A t \in DOMAIN views : views'[t] = views[t]
      /\ UNCHANGED <<schema, built, stack, versioned, points>>
  BY DEF PlanType
<1>2. Top' = Top /\ ToPlan' = ToPlan /\ \A f : BuiltImports(f)' = BuiltImports(f)
  BY <1>1, PlanFrame
<1>3. DOMAIN NoViews = {}
  BY DEF NoViews
<1>4. ASSUME NEW t \in DOMAIN views
      PROVE  \A d \in Deps(t) : \A q : DepConcrete(d, q)' = DepConcrete(d, q)
  <2>1. Deps(t) \cap ToPlan \subseteq DOMAIN views
    BY <1>1 DEF PlanInv
  <2>2. \A d \in Deps(t) : (d \in DOMAIN views <=> d \in DOMAIN views') /\ (d \in DOMAIN views => views'[d] = views[d])
    BY <1>1, <2>1
  <2> QED
    BY <1>1, <2>2, DepStable
<1>5. ASSUME NEW t \in DOMAIN views'
      PROVE  /\ DOMAIN views'[t] = {s \in PointsDone(t)' : InForce(schema'.decl[t], s)}
             /\ LatestDefined(views'[t])
             /\ \A n \in DOMAIN views'[t] : views'[t][n] = n => NewShape(t, n)'
  <2>1. CASE t = u
    <3>1. PointsDone(t)' = {}
      BY <1>1, <2>1 DEF PointsDone
    <3> QED
      BY <1>1, <1>3, <2>1, <3>1 DEF LatestDefined
  <2>2. CASE t # u
    <3>1. t \in DOMAIN views /\ views'[t] = views[t]
      BY <1>1, <2>2
    <3>2. PointsDone(t)' = points /\ PointsDone(t) = points
      BY <1>1, <2>2 DEF PointsDone
    <3>3. /\ DOMAIN views[t] = {s \in PointsDone(t) : InForce(schema.decl[t], s)}
          /\ LatestDefined(views[t])
          /\ \A n \in DOMAIN views[t] : views[t][n] = n => NewShape(t, n)
      BY <1>1, <3>1 DEF DraftKept
    <3>4. \A n \in DOMAIN views[t] : views[t][n] = n => NewShape(t, n)'
      BY <1>1, <1>4, <3>1, <3>3, NewShapeStable
    <3> QED
      BY <1>1, <3>1, <3>2, <3>3, <3>4
  <2> QED
    BY <2>1, <2>2
<1>6. /\ 0 \in points
      /\ \A t \in ToPlan : ChangePoints(schema, t) \subseteq points
      /\ \A g \in BuiltImports(Top.file) : built[g].points \subseteq points
      /\ DOMAIN views \subseteq ToPlan
  BY <1>1 DEF DraftKept
<1> QED
  BY <1>1, <1>2, <1>5, <1>6 DEF DraftKept

\* The inner loop leaves a snapshot behind it: the ones done stay below the
\* ones to come.
LEMMA InnerLoopOrder ==
  ASSUME TypeOK, PlanInv, DraftKept, NEW s \in Versions, InnerLoop(s)
  PROVE  /\ phase = "plan" /\ phase' = "plan" /\ s \in remaining /\ remaining' = remaining \ {s}
         /\ UNCHANGED <<schema, built, stack, versioned, points, planning>>
         /\ planning \in DOMAIN views /\ s \notin DOMAIN views[planning]
         /\ s \in Nat /\ \A q \in points : q \in Nat
         /\ \A q \in DOMAIN views[planning] : q \in points /\ q < s
         /\ remaining' \subseteq points'
         /\ \A q \in points' \ remaining', r \in remaining' : q < r
         /\ PointsDone(planning)' = PointsDone(planning) \cup {s}
         /\ \A t : t # planning => PointsDone(t)' = PointsDone(t)
<1>1. /\ phase = "plan" /\ phase' = "plan" /\ s \in remaining /\ remaining' = remaining \ {s}
      /\ UNCHANGED <<schema, built, stack, versioned, points, planning>>
      /\ \A q \in remaining : s <= q
  BY DEF InnerLoop, IsNext
<1>2. planning \in DOMAIN views /\ s \notin DOMAIN views[planning]
  BY <1>1 DEF PlanInv
<1>3. s \in Nat /\ \A q \in points : q \in Nat
  BY OpenAssumption DEF TypeOK, Versions
<1>4. /\ remaining \subseteq points /\ \A q \in points \ remaining : q < s
      /\ DOMAIN views[planning] = {q \in PointsDone(planning) : InForce(schema.decl[planning], q)}
      /\ \A q \in points \ remaining, r \in remaining : q < r
  BY <1>1, <1>2 DEF DraftKept
<1>5. PointsDone(planning) = points \ remaining
  BY DEF PointsDone
<1>6. PointsDone(planning)' = PointsDone(planning) \cup {s} /\ \A t : t # planning => PointsDone(t)' = PointsDone(t)
  BY <1>1, <1>4 DEF PointsDone
<1>7. \A q \in points' \ remaining', r \in remaining' : q < r
  BY <1>1, <1>3, <1>4
<1> QED
  BY <1>1, <1>2, <1>3, <1>4, <1>5, <1>6, <1>7

\* The type is not declared at the snapshot.
LEMMA DraftSkips ==
  ASSUME TypeOK, PlanInv, DraftKept, NEW s \in Versions, SkipAbsent(s)
  PROVE  DraftKept'
<1>1. InnerLoop(s) /\ ~ InForce(schema.decl[planning], s) /\ views' = views
  BY DEF SkipAbsent
<1>2. /\ phase = "plan" /\ phase' = "plan"
      /\ UNCHANGED <<schema, built, stack, versioned, points, planning>>
      /\ remaining' \subseteq points'
      /\ \A q \in points' \ remaining', r \in remaining' : q < r
      /\ PointsDone(planning)' = PointsDone(planning) \cup {s}
      /\ \A t : t # planning => PointsDone(t)' = PointsDone(t)
  BY <1>1, InnerLoopOrder
<1>3. Top' = Top /\ ToPlan' = ToPlan /\ \A f : BuiltImports(f)' = BuiltImports(f)
  BY <1>2, PlanFrame
<1>4. \A d, q : DepConcrete(d, q)' = DepConcrete(d, q)
  BY <1>1, <1>2, DepStable
<1>5. ASSUME NEW t \in DOMAIN views
      PROVE  /\ DOMAIN views[t] = {q \in PointsDone(t)' : InForce(schema.decl[t], q)}
             /\ LatestDefined(views[t])
             /\ \A n \in DOMAIN views[t] : views[t][n] = n => NewShape(t, n)'
  <2>1. /\ DOMAIN views[t] = {q \in PointsDone(t) : InForce(schema.decl[t], q)}
        /\ LatestDefined(views[t])
        /\ \A n \in DOMAIN views[t] : views[t][n] = n => NewShape(t, n)
    BY <1>2 DEF DraftKept
  <2>2. DOMAIN views[t] = {q \in PointsDone(t)' : InForce(schema.decl[t], q)}
    BY <1>1, <1>2, <2>1
  <2>3. \A n \in DOMAIN views[t] : views[t][n] = n => NewShape(t, n)'
    BY <1>1, <1>2, <1>4, <2>1, NewShapeStable
  <2> QED
    BY <2>1, <2>2, <2>3
<1>6. /\ 0 \in points
      /\ \A t \in ToPlan : ChangePoints(schema, t) \subseteq points
      /\ \A g \in BuiltImports(Top.file) : built[g].points \subseteq points
      /\ DOMAIN views \subseteq ToPlan
  BY <1>2 DEF DraftKept
<1> QED
  BY <1>1, <1>2, <1>3, <1>5, <1>6 DEF DraftKept

\* The definition recorded for a later snapshot is the last one made.
LEMMA RecordsLatest ==
  ASSUME NEW vt, NEW wt, LatestDefined(vt), NEW s \in Nat, NEW c,
         \A q \in DOMAIN vt : q \in Nat /\ q < s,
         DOMAIN wt = DOMAIN vt \cup {s}, \A q \in DOMAIN vt : wt[q] = vt[q], wt[s] = c,
         \/ c = s
         \/ \E p \in DOMAIN vt : c = vt[p] /\ \A q \in DOMAIN vt : q <= p
  PROVE  LatestDefined(wt)
<1>1. \A q \in DOMAIN vt :
        /\ vt[q] \in DOMAIN vt /\ vt[q] <= q /\ vt[vt[q]] = vt[q] /\ vt[q] \in Nat /\ q \in Nat /\ q < s
        /\ \A p \in DOMAIN vt : vt[q] < p /\ p <= q => vt[p] = vt[q]
  BY DEF LatestDefined
<1>2. ASSUME NEW q \in DOMAIN vt
      PROVE  /\ wt[q] \in DOMAIN wt /\ wt[q] <= q /\ wt[wt[q]] = wt[q]
             /\ \A p \in DOMAIN wt : wt[q] < p /\ p <= q => wt[p] = wt[q]
  BY <1>1
<1>3. c \in DOMAIN wt /\ c <= s /\ wt[c] = c /\ \A p \in DOMAIN wt : c < p /\ p <= s => wt[p] = c
  <2>1. CASE c = s
    BY <1>1, <2>1
  <2>2. ASSUME NEW p \in DOMAIN vt, c = vt[p], \A q \in DOMAIN vt : q <= p
        PROVE  c \in DOMAIN wt /\ c <= s /\ wt[c] = c /\ \A q \in DOMAIN wt : c < q /\ q <= s => wt[q] = c
    <3>1. c \in DOMAIN vt /\ c <= p /\ vt[c] = c /\ c \in Nat /\ p \in Nat /\ p < s
      BY <1>1, <2>2
    <3>2. \A q \in DOMAIN vt : c < q => vt[q] = c
      BY <1>1, <2>2
    <3> QED
      BY <3>1, <3>2
  <2> QED
    BY <2>1, <2>2
<1> QED
  BY <1>2, <1>3 DEF LatestDefined

\* The inner loop records a definition of its own for a snapshot that differs
\* from the one before, or the one before's.
LEMMA DraftRecords ==
  ASSUME TypeOK, PlanInv, DraftKept, NEW s \in Versions, NEW c, InnerLoop(s), Record(s, c),
         InForce(schema.decl[planning], s),
         \/ c = s /\ \A p \in DOMAIN views[planning] : IsPrevious(p) => Changed(p, s)
         \/ \E p \in DOMAIN views[planning] : c = views[planning][p] /\ IsPrevious(p)
  PROVE  DraftKept'
<1>1. PICK u : u = planning /\ u = planning'
  BY DEF InnerLoop
<1>2. /\ phase = "plan" /\ phase' = "plan"
      /\ UNCHANGED <<schema, built, stack, versioned, points, planning>>
      /\ u \in DOMAIN views /\ s \notin DOMAIN views[u] /\ s \in Nat
      /\ \A q \in DOMAIN views[u] : q \in Nat /\ q < s
      /\ remaining' \subseteq points'
      /\ \A q \in points' \ remaining', r \in remaining' : q < r
      /\ PointsDone(u)' = PointsDone(u) \cup {s}
      /\ \A t : t # u => PointsDone(t)' = PointsDone(t)
  BY <1>1, InnerLoopOrder
<1>3. /\ DOMAIN views' = DOMAIN views
      /\ \A t \in DOMAIN views : t # u => views'[t] = views[t]
      /\ DOMAIN views'[u] = DOMAIN views[u] \cup {s}
      /\ \A q \in DOMAIN views[u] : views'[u][q] = views[u][q]
      /\ views'[u][s] = c
  BY <1>1, <1>2, RecordOne
<1>4. Top' = Top /\ ToPlan' = ToPlan /\ (\A f : BuiltImports(f)' = BuiltImports(f)) /\ \A t : Deps(t)' = Deps(t)
  BY <1>2, PlanFrame
<1>5. ASSUME NEW t \in DOMAIN views, NEW d \in Deps(t), NEW q
      PROVE  DepConcrete(d, q)' = DepConcrete(d, q)
  <2>1. d # u
    BY <1>1, <1>2, <1>5 DEF PlanInv
  <2> QED
    BY <1>2, <1>3, <2>1, DepStable
<1>6. ASSUME NEW t \in DOMAIN views
      PROVE  /\ DOMAIN views[t] = {q \in PointsDone(t) : InForce(schema.decl[t], q)}
             /\ LatestDefined(views[t])
             /\ \A n \in DOMAIN views[t] : views[t][n] = n => NewShape(t, n)
  BY <1>2 DEF DraftKept
<1>7. ASSUME NEW t \in DOMAIN views, t # u
      PROVE  /\ DOMAIN views'[t] = {q \in PointsDone(t)' : InForce(schema'.decl[t], q)}
             /\ LatestDefined(views'[t])
             /\ \A n \in DOMAIN views'[t] : views'[t][n] = n => NewShape(t, n)'
  <2>1. \A n \in DOMAIN views[t] : views[t][n] = n => NewShape(t, n)'
    BY <1>2, <1>3, <1>5, <1>6, <1>7, NewShapeStable
  <2>2. views'[t] = views[t] /\ PointsDone(t)' = PointsDone(t) /\ schema' = schema
    BY <1>2, <1>3, <1>7
  <2>3. DOMAIN views'[t] = {q \in PointsDone(t)' : InForce(schema'.decl[t], q)}
    BY <1>6, <2>2
  <2>4. LatestDefined(views'[t])
    BY <1>6, <2>2
  <2>5. \A n \in DOMAIN views'[t] : views'[t][n] = n => NewShape(t, n)'
    BY <2>1, <2>2
  <2> QED
    BY <2>3, <2>4, <2>5
<1>8. DOMAIN views'[u] = {q \in PointsDone(u)' : InForce(schema'.decl[u], q)}
  BY <1>1, <1>2, <1>3, <1>6
<1>9. LatestDefined(views'[u])
  <2>1. \/ c = s
        \/ \E p \in DOMAIN views[u] : c = views[u][p] /\ \A q \in DOMAIN views[u] : q <= p
    BY <1>1 DEF IsPrevious
  <2>2. LatestDefined(views[u])
    BY <1>2, <1>6
  <2> QED
    BY <1>2, <1>3, <2>1, <2>2, RecordsLatest
<1>10. PICK K : K = KnownEnums(Top.file) /\ K = KnownEnums(Top.file)'
  BY <1>2, ImportedStable
<1>11. \A q : Key(K, u, q)' = Key(K, u, q)
  BY <1>2 DEF Key, Followed
\* A definition made before was compared within the snapshots before it.
<1>12. ASSUME NEW n \in DOMAIN views[u], views'[u][n] = n
       PROVE  NewShape(u, n)'
  <2>1. NewShape(u, n) /\ n \in Nat /\ n < s
    BY <1>2, <1>3, <1>6, <1>12
  <2>2. ASSUME NEW p \in DOMAIN views'[u], p < n, \A q \in DOMAIN views'[u] : q < n => q <= p
        PROVE  \/ Key(K, u, n) # Key(K, u, p)
               \/ \E d \in Deps(u) : DepConcrete(d, n) # DepConcrete(d, p)
    <3>1. p \in DOMAIN views[u]
      BY <1>2, <1>3, <2>1, <2>2
    <3>2. \A q \in DOMAIN views[u] : q < n => q <= p
      BY <1>3, <2>2
    <3> QED
      BY <1>10, <2>1, <2>2, <3>1, <3>2 DEF NewShape
  <2> QED
    BY <1>2, <1>4, <1>5, <1>10, <1>11, <2>2 DEF NewShape
\* The new one was compared with the snapshot before.
<1>13. ASSUME c = s
       PROVE  NewShape(u, s)'
  <2>1. \A p \in DOMAIN views[u] : IsPrevious(p) => Changed(p, s)
    <3>1. \A p \in DOMAIN views[u] : views[u][p] # s
      BY <1>2, <1>6 DEF LatestDefined
    <3> QED
      BY <1>1, <1>13, <3>1
  <2>2. ASSUME NEW p \in DOMAIN views'[u], p < s, \A q \in DOMAIN views'[u] : q < s => q <= p
        PROVE  \/ Key(K, u, s) # Key(K, u, p)
               \/ \E d \in Deps(u) : DepConcrete(d, s) # DepConcrete(d, p)
    <3>1. p \in DOMAIN views[u] /\ \A q \in DOMAIN views[u] : q <= p
      BY <1>2, <1>3, <2>2
    <3>2. Changed(p, s)
      BY <1>1, <2>1, <3>1 DEF IsPrevious
    <3> QED
      BY <1>1, <1>10, <3>2 DEF Changed
  <2> QED
    BY <1>2, <1>4, <1>5, <1>10, <1>11, <2>2 DEF NewShape
<1>14. \A n \in DOMAIN views'[u] : views'[u][n] = n => NewShape(u, n)'
  BY <1>3, <1>12, <1>13
<1>15. /\ 0 \in points
       /\ \A t \in ToPlan : ChangePoints(schema, t) \subseteq points
       /\ \A g \in BuiltImports(Top.file) : built[g].points \subseteq points
       /\ DOMAIN views \subseteq ToPlan
  BY <1>2 DEF DraftKept
<1>16. ASSUME NEW t \in DOMAIN views'
       PROVE  /\ DOMAIN views'[t] = {q \in PointsDone(t)' : InForce(schema'.decl[t], q)}
              /\ LatestDefined(views'[t])
              /\ \A n \in DOMAIN views'[t] : views'[t][n] = n => NewShape(t, n)'
  BY <1>3, <1>7, <1>8, <1>9, <1>14
<1> QED
  BY <1>2, <1>3, <1>4, <1>15, <1>16 DEF DraftKept

\* build_file keeps the plan: it is complete, and as fine as its imports'.
LEMMA PlansSealed ==
  ASSUME TypeOK, RecursionInv, ImportsBuiltFirst, BuiltPlansKept, DraftKept, Seal,
         NEW f, f = Top.file
  PROVE  /\ BuiltPlansKept'
         /\ f \in Files /\ ~ IsBuilt(f) /\ IsBuilt(f)'
         /\ \A g \in Files : g # f => built'[g] = built[g]
         /\ built'[f] = [status |-> "built", versioned |-> versioned, points |-> points,
                         views |-> views, known |-> KnownEnums(f)]
<1>1. /\ phase = "plan" /\ remaining = {} /\ ToPlan \subseteq DOMAIN views
      /\ schema' = schema /\ stack # <<>> /\ IsSchema(schema)
  BY SchemasAssumption DEF Seal, TypeOK
<1>2. f \in Files
  BY <1>1, TopType DEF Frames
<1>3. ~ IsBuilt(f)
  BY <1>1, TopType DEF RecursionInv, NeverReentered, Top
<1>4. /\ \A g \in Files : g # f => built'[g] = built[g]
      /\ built'[f] = [status |-> "built", versioned |-> versioned, points |-> points,
                      views |-> views, known |-> KnownEnums(f)]
  BY <1>2 DEF Seal, TypeOK
<1>5. built'[f] # Unbuilt
  <2>1. built'[f].status = "built" /\ Unbuilt.status = "unbuilt"
    BY <1>4 DEF Unbuilt
  <2> QED
    BY <2>1
<1>6. \A g \in Files : IsBuilt(g)' <=> (g = f \/ IsBuilt(g))
  BY <1>4, <1>5 DEF IsBuilt
<1>7. /\ 0 \in points
      /\ \A t \in ToPlan : ChangePoints(schema, t) \subseteq points
      /\ \A g \in BuiltImports(f) : built[g].points \subseteq points
      /\ DOMAIN views = ToPlan
      /\ \A t \in DOMAIN views :
           DOMAIN views[t] = {s \in PointsDone(t) : InForce(schema.decl[t], s)} /\ LatestDefined(views[t])
  BY <1>1, <1>2 DEF DraftKept
<1>8. \A t : PointsDone(t) = points
  BY <1>1 DEF PointsDone
<1>9. /\ DOMAIN built'[f].views = Owned(schema, f) \cap built'[f].versioned
      /\ \A t \in DOMAIN built'[f].views : Planned(built'[f], t)
  <2>1. /\ built'[f].views = views /\ built'[f].versioned = versioned /\ built'[f].points = points
        /\ ToPlan = Owned(schema, f) \cap versioned
    BY <1>4 DEF ToPlan
  <2>2. \A t \in DOMAIN views :
          /\ 0 \in points /\ ChangePoints(schema, t) \subseteq points
          /\ DOMAIN views[t] = {s \in points : InForce(schema.decl[t], s)}
          /\ LatestDefined(views[t])
    BY <1>7, <1>8
  <2> QED
    BY <1>7, <2>1, <2>2 DEF Planned
<1>10. \A g \in Imports(schema, f) : g \in Files /\ IsBuilt(g) /\ g # f
  BY <1>1, <1>2, <1>3, ImportsAreFiles DEF ImportsBuiltFirst
<1>11. \A g \in Imports(schema, f) : IsBuilt(g)' /\ built'[g].points \subseteq built'[f].points
  BY <1>4, <1>6, <1>7, <1>10 DEF BuiltImports
<1>12. ASSUME NEW h \in Files, h # f, IsBuilt(h)
       PROVE  /\ DOMAIN built'[h].views = Owned(schema, h) \cap built'[h].versioned
              /\ \A t \in DOMAIN built'[h].views : Planned(built'[h], t)
              /\ \A g \in Imports(schema, h) : IsBuilt(g)' /\ built'[g].points \subseteq built'[h].points
  <2>1. built'[h] = built[h]
    BY <1>4, <1>12
  <2>2. \A g \in Imports(schema, h) : g \in Files /\ IsBuilt(g) /\ built[g].points \subseteq built[h].points
    BY <1>1, <1>12, ImportsAreFiles DEF BuiltPlansKept
  <2>3. \A g \in Imports(schema, h) : g # f /\ IsBuilt(g)' /\ built'[g] = built[g]
    BY <1>3, <1>4, <1>6, <2>2
  <2> QED
    BY <1>12, <2>1, <2>2, <2>3 DEF BuiltPlansKept
<1>13. \A r, t : Planned(r, t)' <=> Planned(r, t)
  BY <1>1 DEF Planned
<1>14. BuiltPlansKept'
  <2>1. ASSUME NEW h \in Files, IsBuilt(h)'
        PROVE  /\ DOMAIN built'[h].views = Owned(schema, h) \cap built'[h].versioned
               /\ \A t \in DOMAIN built'[h].views : Planned(built'[h], t)
               /\ \A g \in Imports(schema, h) : IsBuilt(g)' /\ built'[g].points \subseteq built'[h].points
    BY <1>6, <1>9, <1>11, <1>12, <2>1
  <2> QED
    BY <1>1, <1>13, <2>1 DEF BuiltPlansKept
<1> QED
  BY <1>2, <1>3, <1>4, <1>6, <1>14

\* Every step keeps the plans.
LEMMA PlansStep ==
  ASSUME TypeOK, RecursionInv, ImportsBuiltFirst, PlanInv, PlansKept, [Next]_vars
  PROVE  PlansKept'
<1> USE DEF PlansKept
<1>1. ASSUME OutputFromMemo \/ OutputBuild \/ SkipImport \/ EnterImport \/ Classify
      PROVE  PlansKept'
  <2>1. phase' # "plan" /\ UNCHANGED <<schema, built>>
    BY <1>1 DEF OutputFromMemo, OutputBuild, SkipImport, EnterImport, ImportLoop, Classify, TypeOK, locals
  <2> QED
    BY <2>1, BuiltPlansUnmoved DEF DraftKept
<1>2. ASSUME NEW t \in Types, Spread(t)
      PROVE  PlansKept'
  BY <1>2, BuiltPlansUnmoved DEF Spread, DraftKept
<1>3. CASE LayOut
  BY <1>3, BuiltPlansUnmoved, DraftLaidOut DEF LayOut
<1>4. ASSUME NEW t \in Types, PlanType(t)
      PROVE  PlansKept'
  BY <1>4, BuiltPlansUnmoved, DraftTakesType DEF PlanType
<1>5. ASSUME NEW s \in Versions, SkipAbsent(s)
      PROVE  PlansKept'
  BY <1>5, BuiltPlansUnmoved, DraftSkips DEF SkipAbsent, InnerLoop
<1>6. ASSUME NEW s \in Versions, Define(s)
      PROVE  PlansKept'
  <2>1. DraftKept'
    BY <1>6, DraftRecords DEF Define
  <2> QED
    BY <1>6, <2>1, BuiltPlansUnmoved DEF Define, InnerLoop
<1>7. ASSUME NEW s \in Versions, Share(s)
      PROVE  PlansKept'
  <2>1. PICK p \in DOMAIN views[planning] : IsPrevious(p) /\ Record(s, views[planning][p])
    BY <1>7 DEF Share
  <2>2. InnerLoop(s) /\ InForce(schema.decl[planning], s)
    BY <1>7 DEF Share
  <2>3. DraftKept'
    BY <2>1, <2>2, DraftRecords
  <2> QED
    BY <2>2, <2>3, BuiltPlansUnmoved DEF InnerLoop
<1>8. CASE Seal
  BY <1>8, PlansSealed DEF Seal, DraftKept
<1>9. ASSUME Done \/ UNCHANGED vars
      PROVE  PlansKept'
  <2>1. UNCHANGED vars
    BY <1>9 DEF Done
  <2>2. /\ \A f : BuiltImports(f)' = BuiltImports(f)
        /\ ToPlan' = ToPlan /\ Top' = Top
        /\ \A t : PointsDone(t)' = PointsDone(t)
    BY <2>1, PlanFrame DEF vars, PointsDone
  <2>3. \A d, q : DepConcrete(d, q)' = DepConcrete(d, q)
    BY <2>1, DepStable DEF vars
  <2>4. \A t, n : NewShape(t, n) => NewShape(t, n)'
    BY <2>1, <2>3, NewShapeStable DEF vars
  <2>5. DraftKept'
    <3>1. CASE phase # "plan"
      BY <2>1, <3>1 DEF DraftKept, vars
    <3>2. ASSUME phase = "plan", NEW t \in DOMAIN views
          PROVE  /\ DOMAIN views'[t] = {q \in PointsDone(t)' : InForce(schema'.decl[t], q)}
                 /\ LatestDefined(views'[t])
                 /\ \A n \in DOMAIN views'[t] : views'[t][n] = n => NewShape(t, n)'
      BY <2>1, <2>2, <2>4, <3>2 DEF DraftKept, vars
    <3> QED
      BY <2>1, <2>2, <3>1, <3>2 DEF DraftKept, vars
  <2> QED
    BY <2>1, <2>5, BuiltPlansUnmoved DEF vars
<1> QED
  BY <1>1, <1>2, <1>3, <1>4, <1>5, <1>6, <1>7, <1>8, <1>9 DEF Next

\* Where imports form no cycle, every plan is complete, gives each snapshot the
\* last definition made, has a snapshot wherever an imported file has one, and
\* makes a definition only where something changed (_plan_snapshots).
THEOREM PlansComplete ==
  ASSUME \A sch \in Schemas : Acyclic(sch)
  PROVE  Spec => []PlansKept
<1>1. Spec => []ImportsBuiltFirst
  BY ImportsFirstWhenAcyclic
<1>2. Init => PlansKept
  BY DEF Init, PlansKept, BuiltPlansKept, DraftKept, IsBuilt
<1>3. TypeOK /\ RecursionInv /\ ImportsBuiltFirst /\ PlanInv /\ PlansKept /\ [Next]_vars => PlansKept'
  BY PlansStep
<1> QED
  BY <1>1, <1>2, <1>3, TypeCorrect, RecursionInOrder, PlanInvariant, PTL DEF Spec

-----------------------------------------------------------------------------
(* The namespaces a resolved file spells its references in.                *)

\* A spelling follows the selector of the type it names, at every version.
LEMMA SpelledIsSelected ==
  ASSUME IsSchema(schema), NEW r, NEW d \in Types, Planned(r, d), r.points \subseteq Versions,
         NEW P \in SUBSET Versions, r.points \subseteq P, NEW v \in Versions, NEW s, IsLast(P, s, v)
  PROVE  /\ SpelledAt(r, d, s) = SpelledAt(r, d, v)
         /\ SpelledAt(r, d, v) = Selected(schema, r, d, v)
         /\ s \in Versions
<1>1. s \in Versions
  BY DEF IsLast
<1>2. PICK q : IsLast(r.points, q, v)
  BY LastExists DEF Planned
<1>3. IsLast(r.points, q, s)
  BY <1>2, LastOfFewer
<1>4. \A w \in {s, v} :
        /\ q \in DOMAIN r.views[d] => SpelledAt(r, d, w) = {r.views[d][q]} /\ Selected(schema, r, d, w) = {r.views[d][q]}
        /\ q \notin DOMAIN r.views[d] => SpelledAt(r, d, w) = {} /\ Selected(schema, r, d, w) = {}
  BY <1>1, <1>2, <1>3, AnswersOfPlan
<1> QED
  BY <1>1, <1>4

\* The type's own file and its imports have the types it references.
LEMMA ReferencesAreNear ==
  ASSUME NEW sch, IsSchema(sch), WellScoped(sch), NEW t \in Types
  PROVE  /\ References(sch, t) = UNION {p.refs : p \in sch.decl[t].parts}
         /\ References(sch, t) \subseteq Types
         /\ \A r \in References(sch, t) :
              r \in Owned(sch, Home(sch, t)) \/ \E g \in Imports(sch, Home(sch, t)) : r \in Owned(sch, g)
<1>1. References(sch, t) = UNION {p.refs : p \in sch.decl[t].parts}
  BY DEF References, WellScoped
<1>2. References(sch, t) \subseteq Types
  BY <1>1 DEF IsSchema
<1> QED
  BY <1>1, <1>2 DEF WellScoped, Owned

\* So every schema in scope has its references where imports lead.
LEMMA ScopedIsVisible ==
  ASSUME NEW sch, IsSchema(sch), WellScoped(sch)
  PROVE  RefsVisible(sch)
<1> SUFFICES ASSUME NEW t \in Types, NEW r \in References(sch, t)
             PROVE  Home(sch, r) \in Visible(sch, Home(sch, t))
  BY DEF RefsVisible
<1>1. Home(sch, t) \in Files
  BY DEF IsSchema, Home
<1>2. Home(sch, r) \in {Home(sch, t)} \cup Imports(sch, Home(sch, t))
  BY DEF WellScoped
<1> QED
  BY <1>1, <1>2, VisibleCloses

-----------------------------------------------------------------------------
(* What a resolved file holds.                                             *)

\* The key the planning loop compares is decided by the definition, ...
LEMMA DefinitionDecidesKey ==
  ASSUME NEW sch, NEW r, NEW t, NEW c, NEW s, schema = sch,
         Defined(sch, r, t, c) = Defined(sch, r, t, s)
  PROVE  Key(r.known, t, c) = Key(r.known, t, s)
<1>1. ASSUME NEW x, NEW y, Defined(sch, r, t, x) = Defined(sch, r, t, y), NEW p \in PartsAt(sch, t, x)
      PROVE  \E q \in PartsAt(sch, t, y) :
               p.name = q.name /\ p.shape = q.shape /\ Followed(r.known, p, x) = Followed(r.known, q, y)
  <2>1. PICK q \in PartsAt(sch, t, y) :
          <<p.name, p.shape, p.wire, [e \in p.follows |-> IF e \in r.known THEN Numbering(sch, e, x) ELSE {}]>>
            = <<q.name, q.shape, q.wire, [e \in q.follows |-> IF e \in r.known THEN Numbering(sch, e, y) ELSE {}]>>
    BY <1>1 DEF Defined
  <2> QED
    BY <2>1 DEF Followed
<1>2. \A x, y : Defined(sch, r, t, x) = Defined(sch, r, t, y) => Key(r.known, t, x) \subseteq Key(r.known, t, y)
  <2> SUFFICES ASSUME NEW x, NEW y, Defined(sch, r, t, x) = Defined(sch, r, t, y), NEW k \in Key(r.known, t, x)
               PROVE  k \in Key(r.known, t, y)
    OBVIOUS
  <2>1. PICK p \in PartsAt(sch, t, x) : k = <<p.name, p.shape, Followed(r.known, p, x)>>
    BY DEF Key
  <2>2. PICK q \in PartsAt(sch, t, y) :
          p.name = q.name /\ p.shape = q.shape /\ Followed(r.known, p, x) = Followed(r.known, q, y)
    BY <1>1
  <2> QED
    BY <2>1, <2>2 DEF Key
<1> QED
  BY <1>2

\* ... and decides it, if a number decides its spelling.
LEMMA KeyDecidesDefinition ==
  ASSUME NEW r, NEW t \in Types, WellScoped(schema), NEW c, NEW s,
         Key(r.known, t, c) = Key(r.known, t, s)
  PROVE  Defined(schema, r, t, c) = Defined(schema, r, t, s)
<1>1. ASSUME NEW x, NEW y, Key(r.known, t, x) = Key(r.known, t, y), NEW p \in PartsAt(schema, t, x)
      PROVE  \E q \in PartsAt(schema, t, y) :
               /\ p.name = q.name /\ p.shape = q.shape /\ p.wire = q.wire
               /\ Followed(r.known, p, x) = Followed(r.known, q, y)
  <2>1. PICK q \in PartsAt(schema, t, y) :
          <<p.name, p.shape, Followed(r.known, p, x)>> = <<q.name, q.shape, Followed(r.known, q, y)>>
    BY <1>1 DEF Key
  <2>2. p.name = q.name /\ p.shape = q.shape /\ Followed(r.known, p, x) = Followed(r.known, q, y)
    BY <2>1
  <2>3. p.wire = q.wire
    BY <2>2 DEF WellScoped, PartsAt
  <2> QED
    BY <2>2, <2>3
<1>2. \A x, y : Key(r.known, t, x) = Key(r.known, t, y) => Defined(schema, r, t, x) \subseteq Defined(schema, r, t, y)
  <2> SUFFICES ASSUME NEW x, NEW y, Key(r.known, t, x) = Key(r.known, t, y), NEW k \in Defined(schema, r, t, x)
               PROVE  k \in Defined(schema, r, t, y)
    OBVIOUS
  <2>1. PICK p \in PartsAt(schema, t, x) : k = <<p.name, p.shape, p.wire, Followed(r.known, p, x)>>
    BY DEF Defined, Followed
  <2>2. PICK q \in PartsAt(schema, t, y) :
          /\ p.name = q.name /\ p.shape = q.shape /\ p.wire = q.wire
          /\ Followed(r.known, p, x) = Followed(r.known, q, y)
    BY <1>1
  <2>3. k = <<q.name, q.shape, q.wire, Followed(r.known, q, y)>>
    BY <2>1, <2>2
  <2> QED
    BY <2>3 DEF Defined, Followed
<1> QED
  BY <1>2

-----------------------------------------------------------------------------
(* The step that resolves a file.                                          *)

\* build_file is about to keep f, with all that is known of the step.
Sealing(f) ==
  /\ TypeOK /\ RecursionInv /\ ImportsBuiltFirst /\ ClassificationInv /\ PlanInv /\ PlansKept
  /\ (TypeOK /\ NothingSplitInVain /\ SplitsAllMoving /\ PlansKept)'
  /\ WellScoped(schema)
  /\ Seal /\ f = Top.file

\* What is kept.
LEMMA SealedFile ==
  ASSUME NEW f, Sealing(f)
  PROVE  /\ f \in Files /\ IsSchema(schema) /\ schema' = schema /\ phase = "plan" /\ remaining = {}
         /\ ~ IsBuilt(f) /\ built'[f] # Unbuilt
         /\ \A g \in Files : g # f => built'[g] = built[g]
         /\ built'[f].points = points /\ built'[f].versioned = versioned
         /\ built'[f].views = views /\ built'[f].known = KnownEnums(f)
         /\ f = Top.file
         /\ \A g \in Imports(schema, f) : g \in Files /\ g # f /\ IsBuilt(g) /\ built'[g] = built[g]
         /\ DOMAIN views = Owned(schema, f) \cap Moving(schema)
         /\ DOMAIN views = Owned(schema, f) \cap versioned
         /\ versioned \subseteq Moving(schema)
         /\ points \subseteq Versions /\ 0 \in points
<1>1. /\ phase = "plan" /\ remaining = {} /\ ToPlan \subseteq DOMAIN views /\ schema' = schema
      /\ IsSchema(schema)
  BY SchemasAssumption DEF Sealing, Seal, TypeOK
<1>2. /\ BuiltPlansKept'
      /\ f \in Files /\ ~ IsBuilt(f) /\ IsBuilt(f)'
      /\ \A g \in Files : g # f => built'[g] = built[g]
      /\ built'[f] = [status |-> "built", versioned |-> versioned, points |-> points,
                      views |-> views, known |-> KnownEnums(f)]
  BY PlansSealed DEF Sealing, PlansKept
<1>3. built'[f] # Unbuilt
  BY <1>2 DEF IsBuilt
<1>4. \A g \in Imports(schema, f) : g \in Files /\ g # f /\ IsBuilt(g) /\ built'[g] = built[g]
  BY <1>1, <1>2, ImportsAreFiles DEF Sealing, ImportsBuiltFirst
<1>5. DOMAIN views = Owned(schema, f) \cap versioned
  BY <1>1 DEF Sealing, PlansKept, DraftKept, ToPlan
<1>6. versioned \subseteq Moving(schema)
  BY <1>1, <1>2 DEF Sealing, NothingSplitInVain
<1>7. Owned(schema, f) \cap Moving(schema) \subseteq versioned
  BY <1>1, <1>2 DEF Sealing, SplitsAllMoving
<1>8. points \subseteq Versions /\ 0 \in points
  BY <1>1 DEF Sealing, TypeOK, PlansKept, DraftKept
<1>9. /\ built'[f].points = points /\ built'[f].versioned = versioned
      /\ built'[f].views = views /\ built'[f].known = KnownEnums(f)
  BY <1>2
<1>10. f = Top.file
  BY DEF Sealing
<1> QED
  BY <1>1, <1>2, <1>3, <1>4, <1>5, <1>6, <1>7, <1>8, <1>9, <1>10

\* Every type that moves, of the file's own and of its imports', is split and
\* planned, at no snapshot the file lacks.
LEMMA NearIsPlanned ==
  ASSUME NEW f, Sealing(f), NEW g \in Files, g = f \/ g \in Imports(schema, f),
         NEW d \in Owned(schema, g), d \in Moving(schema)
  PROVE  /\ d \in Types /\ d \in versioned /\ d \in DOMAIN built'[g].views
         /\ Planned(built'[g], d)
         /\ built'[g].points \subseteq points
         /\ ChangePoints(schema, d) \subseteq points
<1>1. /\ f \in Files /\ schema' = schema /\ phase = "plan" /\ ~ IsBuilt(f) /\ built'[f] # Unbuilt
      /\ built'[f].points = points /\ built'[f].versioned = versioned
      /\ \A h \in Imports(schema, f) : h # f /\ IsBuilt(h) /\ built'[h] = built[h]
      /\ f = Top.file
  BY SealedFile
<1>2. IsBuilt(g)' /\ built'[g] # Unbuilt
  BY <1>1 DEF IsBuilt
<1>3. d \in Types
  BY DEF Owned
<1>4. d \in built'[g].versioned
  BY <1>1, <1>2 DEF Sealing, SplitsAllMoving
<1>5. d \in DOMAIN built'[g].views
  BY <1>1, <1>2, <1>4 DEF Sealing, PlansKept, BuiltPlansKept
<1>6. Planned(built[g], d)'
  BY <1>2, <1>5 DEF Sealing, PlansKept, BuiltPlansKept
<1>7. Planned(built'[g], d)
  BY <1>1, <1>6 DEF Planned
<1>8. built'[g].points \subseteq points
  <2>1. CASE g = f
    BY <1>1, <2>1
  <2>2. CASE g \in Imports(schema, f)
    BY <1>1, <2>2 DEF Sealing, PlansKept, DraftKept, BuiltImports
  <2> QED
    BY <2>1, <2>2
<1>9. d \in versioned
  <2>1. CASE g = f
    BY <1>1, <1>4, <2>1
  <2>2. CASE g \in Imports(schema, f)
    <3>1. built[g].versioned \subseteq versioned
      BY <1>1, <2>2 DEF Sealing, ClassificationInv, BuiltImports
    <3> QED
      BY <1>1, <1>4, <2>2, <3>1
  <2> QED
    BY <2>1, <2>2
<1>10. ChangePoints(schema, d) \subseteq points
  BY <1>7, <1>8 DEF Planned
<1> QED
  BY <1>3, <1>5, <1>7, <1>8, <1>9, <1>10

\* The namespace the planning loop compared is the one the header spells.
LEMMA ConcreteIsSpelled ==
  ASSUME NEW f, Sealing(f), NEW g \in Files, g = f \/ g \in Imports(schema, f),
         NEW d \in Owned(schema, g), d \in Moving(schema), NEW c \in points
  PROVE  DepConcrete(d, c) = SpelledAt(built'[g], d, c)
<1>0. Home(schema, d) = g
  BY DEF Owned
<1>1. /\ f \in Files /\ IsSchema(schema) /\ schema' = schema /\ phase = "plan" /\ ~ IsBuilt(f)
      /\ built'[f].points = points /\ built'[f].views = views
      /\ \A h \in Imports(schema, f) : h # f /\ IsBuilt(h) /\ built'[h] = built[h]
      /\ DOMAIN views = Owned(schema, f) \cap Moving(schema)
      /\ points \subseteq Versions /\ f = Top.file
  BY SealedFile
<1>2. d \in Types /\ d \in DOMAIN built'[g].views /\ Planned(built'[g], d) /\ built'[g].points \subseteq Versions
  BY <1>1, NearIsPlanned
<1>3. CASE g = f
  <2>1. IsLast(points, c, c) /\ c \in Versions
    BY <1>1, OpenAssumption DEF IsLast, Versions
  <2>2. ImportedConcrete(d, c) = {}
    BY <1>0, <1>1, <1>3 DEF ImportedConcrete
  <2>3. DepConcrete(d, c) = IF c \in DOMAIN views[d] THEN {views[d][c]} ELSE {}
    BY <1>1, <1>2, <1>3, <2>2 DEF DepConcrete
  <2>4. SpelledAt(built'[g], d, c) = IF c \in DOMAIN views[d] THEN {views[d][c]} ELSE {}
    <3>1. Planned(built'[f], d) /\ built'[f].points \subseteq Versions /\ IsLast(built'[f].points, c, c)
      BY <1>1, <1>2, <1>3, <2>1
    <3>2. /\ c \in DOMAIN built'[f].views[d] => SpelledAt(built'[f], d, c) = {built'[f].views[d][c]}
          /\ c \notin DOMAIN built'[f].views[d] => SpelledAt(built'[f], d, c) = {}
      BY <1>1, <1>2, <2>1, <3>1, AnswersOfPlan
    <3> QED
      BY <1>1, <1>3, <3>2
  <2> QED
    BY <2>3, <2>4
<1>4. CASE g \in Imports(schema, f)
  <2>1. d \notin DOMAIN views
    BY <1>0, <1>1, <1>4 DEF Owned
  <2>2. g \in BuiltVisible(f)
    BY <1>1, <1>4 DEF BuiltVisible, BuiltImports
  <2>3. Covering(g, d, c) = ViewAt(built'[g], d, c)
    BY <1>1, <1>4 DEF Covering, ViewAt
  <2>4. DepConcrete(d, c) = {built[g].views[d][lo] : lo \in Covering(g, d, c)}
    BY <1>0, <1>1, <1>2, <1>4, <2>1, <2>2 DEF DepConcrete, ImportedConcrete
  <2> QED
    BY <1>1, <1>4, <2>3, <2>4 DEF SpelledAt
<1> QED
  BY <1>3, <1>4

\* Every selector answers exactly the versions its type is declared at, and
\* so does packet_of.
LEMMA SealedAnswers ==
  ASSUME NEW f, Sealing(f), NEW t \in Owned(schema, f), t \in Moving(schema), NEW v \in Versions
  PROVE  \E s \in points :
           /\ IsLast(points, s, v)
           /\ InForce(schema.decl[t], v) <=> s \in DOMAIN views[t]
           /\ s \in DOMAIN views[t] =>
                /\ Selected(schema, built'[f], t, v) = {views[t][s]}
                /\ ViewAt(built'[f], t, v) = {s}
                /\ PacketResolves(schema, built'[f], t, v)
           /\ s \notin DOMAIN views[t] =>
                /\ Selected(schema, built'[f], t, v) = {}
                /\ ~ PacketResolves(schema, built'[f], t, v)
<1>1. /\ f \in Files /\ IsSchema(schema) /\ points \subseteq Versions /\ 0 \in points
      /\ built'[f].points = points /\ built'[f].views = views
  BY SealedFile
<1>2. t \in Types /\ Planned(built'[f], t)
  BY <1>1, NearIsPlanned
<1>3. PICK s : IsLast(points, s, v)
  BY <1>1, LastExists
<1>4. s \in points
  BY <1>3 DEF IsLast
<1>5. /\ InForce(schema.decl[t], v) <=> s \in DOMAIN views[t]
      /\ s \in DOMAIN views[t] =>
           /\ Selected(schema, built'[f], t, v) = {views[t][s]}
           /\ ViewAt(built'[f], t, v) = {s}
           /\ PacketResolves(schema, built'[f], t, v)
      /\ s \notin DOMAIN views[t] =>
           /\ Selected(schema, built'[f], t, v) = {}
           /\ ~ PacketResolves(schema, built'[f], t, v)
  BY <1>1, <1>2, <1>3, AnswersOfPlan
<1> QED
  BY <1>3, <1>4, <1>5

\* The definition handed out is the one declared for the version.
LEMMA SealedShapes ==
  ASSUME NEW f, Sealing(f), NEW t \in Owned(schema, f), t \in Moving(schema), NEW v \in Versions,
         NEW c \in Selected(schema, built'[f], t, v)
  PROVE  Defined(schema, built'[f], t, c) = DeclaredShape(schema, t, v)
<1> DEFINE r == built'[f]
<1>1. /\ f \in Files /\ IsSchema(schema) /\ points \subseteq Versions /\ phase = "plan"
      /\ r.known = KnownEnums(f) /\ f = Top.file
      /\ DOMAIN views = Owned(schema, f) \cap Moving(schema)
      /\ \A g \in Imports(schema, f) : g \in Files /\ IsBuilt(g)
  BY SealedFile
<1>2. PICK s \in points : IsLast(points, s, v) /\ s \in DOMAIN views[t] /\ c = views[t][s]
  BY SealedAnswers
<1>3. Key(r.known, t, c) = Key(r.known, t, s)
  BY <1>1, <1>2 DEF Sealing, PlanInv, SharedViewsAgree, SharesAgree
<1>4. t \in Types /\ ChangePoints(schema, t) \subseteq points /\ WellScoped(schema) /\ Home(schema, t) = f
  BY <1>1, NearIsPlanned DEF Sealing, Owned
<1>5. Defined(schema, r, t, c) = Defined(schema, r, t, s)
  BY <1>3, <1>4, KeyDecidesDefinition
<1>6. PartsAt(schema, t, s) = PartsAt(schema, t, v)
  BY <1>1, <1>2, <1>4, SameParts
<1>7. ASSUME NEW p \in PartsAt(schema, t, v), NEW e \in p.follows
      PROVE  e \in r.known /\ Numbering(schema, e, s) = Numbering(schema, e, v)
  <2>1. p \in schema.decl[t].parts /\ e \in p.refs /\ IsEnum(schema, e)
    BY <1>1, <1>4, <1>7 DEF PartsAt, IsSchema, WellScoped
  <2>2. e \in References(schema, t) /\ e \in Types
    BY <1>1, <1>4, <2>1, ReferencesAreNear
  <2>3. PICK g \in Files : (g = f \/ g \in Imports(schema, f)) /\ e \in Owned(schema, g)
    BY <1>1, <1>4, <2>2, ReferencesAreNear
  <2>4. e \in r.known
    BY <1>1, <2>1, <2>3 DEF KnownEnums, OwnedEnums, BuiltImports
  <2>5. ChangePoints(schema, e) \subseteq points
    <3>1. CASE e \in Moving(schema)
      BY <2>3, <3>1, NearIsPlanned
    <3>2. CASE e \notin Moving(schema)
      BY <2>2, <3>2, MovingCloses DEF ReferenceClosed
    <3> QED
      BY <3>1, <3>2
  <2>6. Numbering(schema, e, s) = Numbering(schema, e, v)
    BY <1>1, <1>2, <2>2, <2>5, SameParts
  <2> QED
    BY <2>4, <2>6
<1>8. ASSUME NEW p \in PartsAt(schema, t, v)
      PROVE  [e \in p.follows |-> IF e \in r.known THEN Numbering(schema, e, s) ELSE {}]
               = [e \in p.follows |-> Numbering(schema, e, v)]
  BY <1>7
<1>9. Defined(schema, r, t, s) = DeclaredShape(schema, t, v)
  BY <1>6, <1>8 DEF Defined, DeclaredShape
<1> QED
  BY <1>5, <1>9

\* What a definition references moves with it, and has been compared.
LEMMA SealedDeps ==
  ASSUME NEW f, Sealing(f), NEW t \in Owned(schema, f), t \in Moving(schema)
  PROVE  /\ Deps(t) = (References(schema, t) \cap Moving(schema)) \ {t}
         /\ \A d \in Deps(t) :
              /\ Home(schema, d) \in Files
              /\ Home(schema, d) = f \/ Home(schema, d) \in Imports(schema, f)
              /\ d \in Owned(schema, Home(schema, d)) /\ d \in Types
<1>1. IsSchema(schema) /\ WellScoped(schema) /\ t \in Types /\ Home(schema, t) = f /\ versioned \subseteq Moving(schema)
  BY SealedFile DEF Sealing, Owned
<1>2. ASSUME NEW d \in References(schema, t)
      PROVE  /\ Home(schema, d) \in Files
             /\ Home(schema, d) = f \/ Home(schema, d) \in Imports(schema, f)
             /\ d \in Owned(schema, Home(schema, d)) /\ d \in Types
  BY <1>1, <1>2, ReferencesAreNear DEF Owned, IsSchema, Home
<1>3. References(schema, t) \cap Moving(schema) \subseteq versioned
  BY <1>2, NearIsPlanned
<1> QED
  BY <1>1, <1>2, <1>3 DEF Deps

\* A reference is spelled with the definition its own type hands out.
LEMMA SealedReferences ==
  ASSUME NEW f, Sealing(f), NEW t \in Owned(schema, f), t \in Moving(schema), NEW v \in Versions,
         NEW c \in Selected(schema, built'[f], t, v), NEW d \in Deps(t)
  PROVE  SpelledAt(built'[Home(schema, d)], d, c) = Selected(schema, built'[Home(schema, d)], d, v)
<1>1. PICK g \in Files : g = Home(schema, d) /\ (g = f \/ g \in Imports(schema, f)) /\ d \in Owned(schema, g)
  BY SealedDeps
<1>2. /\ IsSchema(schema) /\ points \subseteq Versions /\ phase = "plan"
      /\ DOMAIN views = Owned(schema, f) \cap Moving(schema)
  BY SealedFile
<1>3. d \in Moving(schema)
  BY SealedDeps
<1>4. PICK s \in points : IsLast(points, s, v) /\ s \in DOMAIN views[t] /\ c = views[t][s]
  BY SealedAnswers
<1>5. DepConcrete(d, s) = DepConcrete(d, c)
  BY <1>2, <1>4 DEF Sealing, PlanInv, SharedViewsAgree
<1>6. c \in points
  <2>1. c \in DOMAIN views[t]
    BY <1>2, <1>4 DEF Sealing, PlanInv, SharedViewsAgree, SharesAgree
  <2>2. DOMAIN views[t] \subseteq points
    BY <1>2 DEF Sealing, PlansKept, DraftKept, PointsDone
  <2> QED
    BY <2>1, <2>2
<1>7. SpelledAt(built'[g], d, c) = SpelledAt(built'[g], d, s)
  BY <1>1, <1>3, <1>4, <1>5, <1>6, ConcreteIsSpelled
<1>8. d \in Types /\ Planned(built'[g], d) /\ built'[g].points \subseteq points
  BY <1>1, <1>3, NearIsPlanned
<1>9. SpelledAt(built'[g], d, s) = SpelledAt(built'[g], d, v) /\ SpelledAt(built'[g], d, v) = Selected(schema, built'[g], d, v)
  BY <1>2, <1>4, <1>8, SpelledIsSelected
<1> QED
  BY <1>1, <1>7, <1>9

\* A definition that follows another differs from it in the snapshot before.
LEMMA SealedNotRedundant ==
  ASSUME NEW f, Sealing(f), NEW t \in Owned(schema, f), t \in Moving(schema),
         NEW c \in Fresh(built'[f], t), NEW n \in Fresh(built'[f], t), c < n
  PROVE  \E p \in ViewAt(built'[f], t, n - 1) :
           \/ Defined(schema, built'[f], t, p) # Defined(schema, built'[f], t, n)
           \/ \E d \in Deps(t) :
                SpelledAt(built'[Home(schema, d)], d, p) # SpelledAt(built'[Home(schema, d)], d, n)
<1>1. /\ IsSchema(schema) /\ points \subseteq Versions /\ phase = "plan" /\ remaining = {} /\ f = Top.file
      /\ built'[f].views = views /\ built'[f].known = KnownEnums(f)
      /\ t \in DOMAIN views
  BY SealedFile
<1>2. /\ DOMAIN views[t] = {s \in points : InForce(schema.decl[t], s)}
      /\ \A m \in DOMAIN views[t] : views[t][m] = m => NewShape(t, m)
  BY <1>1 DEF Sealing, PlansKept, DraftKept, PointsDone
<1>3. c \in DOMAIN views[t] /\ n \in DOMAIN views[t] /\ views[t][n] = n
  BY <1>1 DEF Fresh
<1>4. /\ c \in Nat /\ n \in Nat /\ c < Open /\ n < Open /\ c < n /\ Open \in Nat
      /\ \A q \in points : q \in Nat
      /\ InForce(schema.decl[t], c) /\ InForce(schema.decl[t], n)
      /\ schema.decl[t].since \in Nat /\ schema.decl[t].until \in Nat
  <2>1. c \in Versions /\ n \in Versions /\ InForce(schema.decl[t], c) /\ InForce(schema.decl[t], n)
    BY <1>1, <1>2, <1>3
  <2>2. t \in Types
    BY DEF Owned
  <2>3. Span(schema.decl[t])
    BY <1>1, <2>2 DEF IsSchema
  <2> QED
    BY <1>1, <2>1, <2>3, OpenAssumption DEF Versions, Span
<1>5. n - 1 \in Versions /\ InForce(schema.decl[t], n - 1)
  BY <1>4 DEF Versions, InForce
<1>6. PICK p \in points : /\ IsLast(points, p, n - 1)
                          /\ p \in DOMAIN views[t] /\ ViewAt(built'[f], t, n - 1) = {p}
  BY <1>5, SealedAnswers
<1>7. p < n /\ \A q \in DOMAIN views[t] : q < n => q <= p
  BY <1>2, <1>4, <1>6 DEF IsLast
<1>8. \/ Key(KnownEnums(f), t, n) # Key(KnownEnums(f), t, p)
      \/ \E d \in Deps(t) : DepConcrete(d, n) # DepConcrete(d, p)
  BY <1>1, <1>2, <1>3, <1>6, <1>7 DEF NewShape
<1>9. CASE Key(KnownEnums(f), t, n) # Key(KnownEnums(f), t, p)
  BY <1>1, <1>6, <1>9, DefinitionDecidesKey
<1>10. ASSUME NEW d \in Deps(t), DepConcrete(d, n) # DepConcrete(d, p)
       PROVE  SpelledAt(built'[Home(schema, d)], d, p) # SpelledAt(built'[Home(schema, d)], d, n)
  <2>1. d \in Moving(schema)
    BY SealedDeps
  <2>2. p \in points /\ n \in points
    BY <1>2, <1>3, <1>6
  <2> QED
    BY <1>10, <2>1, <2>2, SealedDeps, ConcreteIsSpelled
<1> QED
  BY <1>6, <1>8, <1>9, <1>10

-----------------------------------------------------------------------------
(* The refinement.                                                         *)

\* The contract speaks of the same declarations and of the same selectors.
LEMMA ContractTerms ==
  /\ Contract!Versions = Versions
  /\ \A x, v : Contract!InForce(x, v) <=> InForce(x, v)
  /\ \A sch, t : Contract!Home(sch, t) = Home(sch, t)
  /\ \A sch, f : Contract!Imports(sch, f) = Imports(sch, f)
  /\ \A sch, t : Contract!References(sch, t) = References(sch, t)
  /\ \A sch, t, v : Contract!PartsAt(sch, t, v) = PartsAt(sch, t, v)
  /\ \A sch, t, v : Contract!DeclaredShape(sch, t, v) = DeclaredShape(sch, t, v)
  /\ \A sch, r, t, v : Contract!Defined(sch, r, t, v) = Defined(sch, r, t, v)
  /\ \A r, t : Contract!Fresh(r, t) = Fresh(r, t)
  /\ \A sch, r, t, v : Contract!Selected(sch, r, t, v) = Selected(sch, r, t, v)
  /\ \A r, t, v : Contract!ViewAt(r, t, v) = ViewAt(r, t, v)
  /\ \A r, t, v : Contract!SpelledAt(r, t, v) = SpelledAt(r, t, v)
  /\ \A sch, r, t, v : Contract!PacketResolves(sch, r, t, v) <=> PacketResolves(sch, r, t, v)
  /\ \A sch : Contract!Moving(sch) = Moving(sch)
  /\ \A f : Contract!Moved(f) = Owned(schema, f) \cap Moving(schema)
<1>1. \A x, v : Contract!InForce(x, v) <=> InForce(x, v)
  BY DEF Contract!InForce, InForce
<1>2. \A sch, t, v : Contract!PartsAt(sch, t, v) = PartsAt(sch, t, v)
  BY <1>1 DEF Contract!PartsAt, PartsAt
<1>3. \A sch, t, v : Contract!Numbering(sch, t, v) = Numbering(sch, t, v)
  BY <1>2 DEF Contract!Numbering, Numbering
<1>4. \A sch, t, v : Contract!DeclaredShape(sch, t, v) = DeclaredShape(sch, t, v)
  BY <1>2, <1>3 DEF Contract!DeclaredShape, DeclaredShape
<1>5. \A sch, r, t, v : Contract!Defined(sch, r, t, v) = Defined(sch, r, t, v)
  BY <1>2, <1>3 DEF Contract!Defined, Defined
<1>6. \A r, t : Contract!Fresh(r, t) = Fresh(r, t)
  BY DEF Contract!Fresh, Fresh
<1>7. \A sch, r, t, v : Contract!Selected(sch, r, t, v) = Selected(sch, r, t, v)
  BY <1>6 DEF Contract!Selected, Selected
<1>8. \A r, t, v : Contract!ViewAt(r, t, v) = ViewAt(r, t, v)
  BY DEF Contract!ViewAt, ViewAt
<1>9. \A r, t, v : Contract!SpelledAt(r, t, v) = SpelledAt(r, t, v)
  BY <1>8 DEF Contract!SpelledAt, SpelledAt
<1>10. \A sch, r, t, v : Contract!PacketResolves(sch, r, t, v) <=> PacketResolves(sch, r, t, v)
  BY <1>6 DEF Contract!PacketResolves, PacketResolves
<1>11. \A sch, t : Contract!Home(sch, t) = Home(sch, t)
  BY DEF Contract!Home, Home
<1>12. \A sch, f : Contract!Imports(sch, f) = Imports(sch, f) /\ Contract!Owned(sch, f) = Owned(sch, f)
  BY <1>11 DEF Contract!Imports, Imports, Contract!Owned, Owned
<1>13. \A sch, t : Contract!References(sch, t) = References(sch, t)
  BY DEF Contract!References, References, Contract!IsEnum, IsEnum
<1>14. \A sch, t : Contract!ChangePoints(sch, t) = ChangePoints(sch, t)
  BY DEF Contract!ChangePoints, ChangePoints, Contract!Gates, Gates
<1>15. \A sch, S : Contract!ReferenceClosed(sch, S) <=> ReferenceClosed(sch, S)
  BY <1>13, <1>14 DEF Contract!ReferenceClosed, ReferenceClosed
<1>16. \A sch : Contract!Moving(sch) = Moving(sch)
  BY <1>15 DEF Contract!Moving, Moving
<1>17. \A f : Contract!Moved(f) = Owned(schema, f) \cap Moving(schema)
  BY <1>12, <1>16 DEF Contract!Moved
<1>18. Contract!Versions = Versions
  BY DEF Contract!Versions, Versions
<1> QED
  BY <1>1, <1>2, <1>4, <1>5, <1>6, <1>7, <1>8, <1>9, <1>10, <1>11, <1>12, <1>13, <1>16, <1>17, <1>18

\* What build_file keeps is faithful to the declarations.
LEMMA SealedFaithful ==
  ASSUME NEW f, Sealing(f), NEW home, home = [d \in Types |-> built'[Home(schema, d)]]
  PROVE  Contract!Faithful(f, built'[f], home)
<1> DEFINE r == built'[f]
           M == Owned(schema, f) \cap Moving(schema)
<1>1. /\ IsSchema(schema) /\ WellScoped(schema) /\ r.views = views /\ r.versioned = versioned
      /\ DOMAIN views = M /\ DOMAIN views = Owned(schema, f) \cap versioned
  BY SealedFile DEF Sealing
<1>2. Contract!Moved(f) = M
  BY ContractTerms
<1>3. r.versioned \cap Owned(schema, f) = M /\ DOMAIN r.views = M
  BY <1>1
<1>4. Contract!SelectorsTotal(f, r)
  <2>1. ASSUME NEW t \in M, NEW v \in Versions
        PROVE  IF InForce(schema.decl[t], v)
               THEN \E c \in Versions : Selected(schema, r, t, v) = {c}
               ELSE Selected(schema, r, t, v) = {}
    <3>1. PICK s \in points : /\ InForce(schema.decl[t], v) <=> s \in DOMAIN views[t]
                              /\ s \in DOMAIN views[t] => Selected(schema, r, t, v) = {views[t][s]}
                              /\ s \notin DOMAIN views[t] => Selected(schema, r, t, v) = {}
      BY SealedAnswers
    <3>2. \A q \in DOMAIN views[t] : views[t][q] \in Versions
      BY <1>1 DEF Sealing, TypeOK, IsPlan
    <3> QED
      BY <3>1, <3>2
  <2> QED
    BY <1>2, <2>1, ContractTerms DEF Contract!SelectorsTotal
<1>5. Contract!PacketsTotal(f, r)
  <2>1. ASSUME NEW t \in M, NEW v \in Versions
        PROVE  PacketResolves(schema, r, t, v) <=> InForce(schema.decl[t], v)
    BY SealedAnswers
  <2> QED
    BY <1>2, <2>1, ContractTerms DEF Contract!PacketsTotal
<1>6. Contract!ShapesDeclared(f, r)
  <2>1. ASSUME NEW t \in M, NEW v \in Versions, NEW c \in Selected(schema, r, t, v)
        PROVE  Defined(schema, r, t, c) = DeclaredShape(schema, t, v)
    BY SealedShapes
  <2> QED
    BY <1>2, <2>1, ContractTerms DEF Contract!ShapesDeclared
<1>7. ASSUME NEW t \in M
      PROVE  /\ Deps(t) = (References(schema, t) \cap Moving(schema)) \ {t}
             /\ \A d \in Deps(t) : d \in Types /\ home[d] = built'[Home(schema, d)]
  BY SealedDeps
<1>8. Contract!ReferencesAgree(f, r, home)
  <2> SUFFICES ASSUME NEW t \in Contract!Moved(f), NEW v \in Contract!Versions,
                      NEW c \in Contract!Selected(schema, r, t, v), NEW p \in Contract!PartsAt(schema, t, v),
                      NEW d \in (p.refs \cap Contract!Moving(schema)) \ {t}
               PROVE  Contract!SpelledAt(home[d], d, c) = Contract!Selected(schema, home[d], d, v)
    BY DEF Contract!ReferencesAgree
  <2>1. /\ t \in M /\ v \in Versions /\ c \in Selected(schema, r, t, v) /\ p \in PartsAt(schema, t, v)
        /\ d \in (p.refs \cap Moving(schema)) \ {t}
    BY ContractTerms
  <2>2. t \in Types /\ p \in schema.decl[t].parts
    BY <2>1 DEF Owned, PartsAt
  <2>3. d \in References(schema, t)
    BY <1>1, <2>1, <2>2, ReferencesAreNear
  <2>4. d \in Deps(t)
    BY <1>7, <2>1, <2>3
  <2>5. SpelledAt(home[d], d, c) = Selected(schema, home[d], d, v)
    BY <1>7, <2>1, <2>4, SealedReferences
  <2> QED
    BY <2>5, ContractTerms
<1>9. Contract!NoneRedundant(f, r, home)
  <2> SUFFICES ASSUME NEW t \in Contract!Moved(f), NEW c \in Contract!Fresh(r, t), NEW n \in Contract!Fresh(r, t), c < n
               PROVE  \/ \E s \in Contract!ViewAt(r, t, n - 1) :
                           Contract!Defined(schema, r, t, s) # Contract!Defined(schema, r, t, n)
                      \/ \E d \in (Contract!References(schema, t) \cap Contract!Moving(schema)) \ {t} :
                           \E s \in Contract!ViewAt(r, t, n - 1) :
                             Contract!SpelledAt(home[d], d, s) # Contract!SpelledAt(home[d], d, n)
    BY DEF Contract!NoneRedundant
  <2>1. t \in M /\ c \in Fresh(r, t) /\ n \in Fresh(r, t)
    BY ContractTerms
  <2>2. PICK p \in ViewAt(r, t, n - 1) :
          \/ Defined(schema, r, t, p) # Defined(schema, r, t, n)
          \/ \E d \in Deps(t) :
               SpelledAt(built'[Home(schema, d)], d, p) # SpelledAt(built'[Home(schema, d)], d, n)
    BY <2>1, SealedNotRedundant
  <2>3. p \in Contract!ViewAt(r, t, n - 1)
    BY ContractTerms
  <2>4. CASE Defined(schema, r, t, p) # Defined(schema, r, t, n)
    BY <2>3, <2>4, ContractTerms
  <2>5. ASSUME NEW d \in Deps(t),
               SpelledAt(built'[Home(schema, d)], d, p) # SpelledAt(built'[Home(schema, d)], d, n)
        PROVE  \E x \in (Contract!References(schema, t) \cap Contract!Moving(schema)) \ {t} :
                 \E s \in Contract!ViewAt(r, t, n - 1) :
                   Contract!SpelledAt(home[x], x, s) # Contract!SpelledAt(home[x], x, n)
    <3>1. /\ d \in (References(schema, t) \cap Moving(schema)) \ {t}
          /\ SpelledAt(home[d], d, p) # SpelledAt(home[d], d, n)
      BY <1>7, <2>1, <2>5
    <3>2. /\ d \in (Contract!References(schema, t) \cap Contract!Moving(schema)) \ {t}
          /\ Contract!SpelledAt(home[d], d, p) # Contract!SpelledAt(home[d], d, n)
      BY <3>1, ContractTerms
    <3> QED
      BY <2>3, <3>2
  <2> QED
    BY <2>2, <2>4, <2>5
<1> QED
  BY <1>2, <1>3, <1>4, <1>5, <1>6, <1>8, <1>9, ContractTerms DEF Contract!Faithful, Contract!Owned, Owned, Contract!Home, Home

\* build_file resolves one file, after its imports; nothing else is visible.
LEMMA ContractStep ==
  ASSUME TypeOK /\ RecursionInv /\ ImportsBuiltFirst /\ ClassificationInv /\ PlanInv /\ PlansKept,
         (TypeOK /\ NothingSplitInVain /\ SplitsAllMoving /\ PlansKept)',
         WellScoped(schema), [Next]_vars
  PROVE  [Contract!Next]_<<schema, built>>
<1>1. CASE Seal
  <2>1. PICK f : f = Top.file
    OBVIOUS
  <2>2. Sealing(f)
    BY <1>1, <2>1 DEF Sealing
  <2>3. /\ f \in Files /\ schema' = schema /\ ~ IsBuilt(f) /\ built'[f] # Unbuilt
        /\ \A g \in Imports(schema, f) : IsBuilt(g)
    BY <2>2, SealedFile
  <2>4. built' = [built EXCEPT ![f] = built'[f]]
    <3>1. PICK r : built' = [built EXCEPT ![f] = r]
      BY <1>1, <2>1 DEF Seal
    <3>2. built'[f] = r
      BY <2>3, <3>1 DEF TypeOK
    <3> QED
      BY <3>1, <3>2
  <2>5. Contract!Faithful(f, built'[f], [d \in Types |-> built'[Contract!Home(schema, d)]])
    <3>1. [d \in Types |-> built'[Contract!Home(schema, d)]] = [d \in Types |-> built'[Home(schema, d)]]
      BY ContractTerms
    <3> QED
      BY <2>2, <3>1, SealedFaithful
  <2>6. Contract!Resolve(f)
    BY <2>3, <2>4, <2>5, ContractTerms DEF Contract!Resolve, IsBuilt
  <2> QED
    BY <2>3, <2>6 DEF Contract!Next
<1>2. CASE ~ Seal
  <2>1. UNCHANGED <<schema, built>>
    BY <1>2 DEF Next, vars, locals, OutputFromMemo, OutputBuild, SkipImport, EnterImport, Classify, Spread, LayOut,
             PlanType, SkipAbsent, Define, Share, InnerLoop, Done
  <2> QED
    BY <2>1
<1> QED
  BY <1>1, <1>2

\* Where imports form no cycle and names are imported where they are used, the
\* pool keeps its contract with the backends: it resolves each file once, after
\* its imports, and every selector, spelling and packet_of of the file answers
\* every protocol version with what is declared for it, through references of
\* any depth (DescriptorPool.build_file, _plan_snapshots and cpp/file.py).
THEOREM PoolKeepsContract ==
  ASSUME \A sch \in Schemas : Acyclic(sch) /\ WellScoped(sch)
  PROVE  Spec => KeepsContract
<1>1. \A sch \in Schemas : Acyclic(sch) /\ RefsVisible(sch)
  BY SchemasAssumption, ScopedIsVisible
<1>2. Spec => []ImportsBuiltFirst /\ []ClassificationInv /\ []SplitsAllMoving /\ []PlansKept
  BY <1>1, ImportsFirstWhenAcyclic, ClassifiedFileByFile, SplitsEveryMoving, PlansComplete
<1>3. Init => Contract!Init
  BY DEF Init, Contract!Init
<1>4. TypeOK => WellScoped(schema)
  BY DEF TypeOK
<1>5. /\ TypeOK /\ RecursionInv /\ ImportsBuiltFirst /\ ClassificationInv /\ PlanInv /\ PlansKept
      /\ (TypeOK /\ NothingSplitInVain /\ SplitsAllMoving /\ PlansKept)'
      /\ [Next]_vars
      => [Contract!Next]_<<schema, built>>
  BY <1>4, ContractStep
<1> QED
  BY <1>2, <1>3, <1>5, TypeCorrect, RecursionInOrder, PlanInvariant, SplitsOnlyMoving, PTL
     DEF Spec, KeepsContract, Contract!Spec

-----------------------------------------------------------------------------
(* Type aliases.                                                           *)

\* A spelling is never taken up again: where two snapshots spell a type the
\* same way, so does every one between them that spells it.
LEMMA SpellingsDoNotReturn ==
  ASSUME IsSchema(schema), NEW r, NEW d \in Types, Planned(r, d), r.points \subseteq Versions,
         NEW c \in Versions, NEW l \in Versions, NEW s \in Versions, c <= l, l <= s,
         SpelledAt(r, d, c) = SpelledAt(r, d, s),
         SpelledAt(r, d, c) # {}, SpelledAt(r, d, l) # {}
  PROVE  SpelledAt(r, d, l) = SpelledAt(r, d, c)
<1> DEFINE vt == r.views[d]
<1>1. \A v \in Versions : \E q : IsLast(r.points, q, v)
  BY LastExists DEF Planned
<1>2. PICK qc : IsLast(r.points, qc, c)
  BY <1>1
<1>3. PICK ql : IsLast(r.points, ql, l)
  BY <1>1
<1>4. PICK qs : IsLast(r.points, qs, s)
  BY <1>1
<1>5. /\ qc \in DOMAIN vt /\ SpelledAt(r, d, c) = {vt[qc]}
      /\ ql \in DOMAIN vt /\ SpelledAt(r, d, l) = {vt[ql]}
  BY <1>2, <1>3, AnswersOfPlan
<1>6. qs \in DOMAIN vt /\ SpelledAt(r, d, s) = {vt[qs]}
  <2>1. /\ qs \in DOMAIN vt => SpelledAt(r, d, s) = {vt[qs]}
        /\ qs \notin DOMAIN vt => SpelledAt(r, d, s) = {}
    BY <1>4, AnswersOfPlan
  <2> QED
    BY <2>1
<1>7. /\ vt[qc] = vt[qs] /\ vt[qc] <= qc /\ vt[vt[qc]] = vt[qc] /\ vt[qc] \in DOMAIN vt
      /\ \A q \in DOMAIN vt : vt[qs] < q /\ q <= qs => vt[q] = vt[qs]
      /\ DOMAIN vt \subseteq r.points
  BY <1>5, <1>6 DEF Planned, LatestDefined
<1>8. /\ c \in Nat /\ l \in Nat /\ s \in Nat /\ \A q \in r.points : q \in Nat
      /\ \A q \in r.points : q <= l => q <= ql
      /\ \A q \in r.points : q <= s => q <= qs
      /\ qc <= c /\ ql <= l
  BY <1>2, <1>3, <1>4, OpenAssumption DEF Versions, IsLast
<1>9. qc <= ql /\ ql <= qs
  BY <1>5, <1>7, <1>8
<1>10. vt[ql] = vt[qs]
  <2>1. CASE vt[qs] = ql
    BY <1>7, <2>1
  <2>2. CASE vt[qs] # ql
    <3>1. vt[qs] < ql
      BY <1>5, <1>7, <1>8, <1>9, <2>2
    <3> QED
      BY <1>5, <1>7, <1>9, <3>1
  <2> QED
    BY <2>1, <2>2
<1> QED
  BY <1>5, <1>7, <1>10

\* The alias answers v with the first snapshot spelled as the last one up to v.
LEMMA AliasAnswers ==
  ASSUME NEW r, NEW cases, NEW home, NEW v \in Versions, r.points \subseteq Versions,
         NEW s, IsLast(r.points, s, v), s \in Spellable(r, cases, home),
         \A c, l \in Spellable(r, cases, home) :
           c <= l /\ l <= s /\ Spelling(cases, home, c) = Spelling(cases, home, s)
             => Spelling(cases, home, l) = Spelling(cases, home, c)
  PROVE  \E c \in Versions : /\ AliasSelected(r, cases, home, v) = {c}
                             /\ Spelling(cases, home, c) = Spelling(cases, home, s)
<1> DEFINE S == Spellable(r, cases, home)
           F == AliasFresh(r, cases, home)
           Alike == {q \in S : Spelling(cases, home, q) = Spelling(cases, home, s)}
<1>1. /\ v \in Nat /\ \A q \in S : q \in r.points /\ q \in Nat /\ q \in Versions
      /\ s \in S /\ s <= v /\ \A q \in S : q <= v => q <= s
  BY OpenAssumption DEF Spellable, Versions, IsLast
<1>2. PICK c \in Alike : \A q \in Alike : c <= q
  <2>1. Alike \in SUBSET Nat /\ s \in Alike
    BY <1>1
  <2> QED
    BY <2>1, LeastNumber
<1>3. /\ c \in S /\ c \in Nat /\ c <= s /\ c <= v
      /\ Spelling(cases, home, c) = Spelling(cases, home, s)
  BY <1>1, <1>2
<1>4. F \subseteq S
  BY DEF AliasFresh
<1>5. c \in F
  <2>1. ASSUME NEW q \in S, q < c
        PROVE  Spelling(cases, home, q) # Spelling(cases, home, c)
    BY <1>1, <1>2, <1>3, <2>1
  <2> QED
    BY <1>3, <2>1 DEF AliasFresh
<1>6. ASSUME NEW l \in F, c < l
      PROVE  v < l
  <2>1. l \in S /\ l \in Nat /\ Spelling(cases, home, c) # Spelling(cases, home, l)
    BY <1>1, <1>3, <1>6 DEF AliasFresh
  <2>2. ~ (l <= s)
    BY <1>3, <1>6, <2>1
  <2> QED
    BY <1>1, <2>1, <2>2
<1>7. ASSUME NEW lo \in AliasSelected(r, cases, home, v)
      PROVE  lo = c
  <2>1. lo \in F /\ lo <= v /\ \A l \in F : lo < l => v < l
    BY DEF AliasSelected
  <2>2. lo \in Nat
    BY <1>1, <1>4, <2>1
  <2>3. lo < c => v < c
    BY <1>5, <2>1
  <2>4. c < lo => v < lo
    BY <1>6, <2>1
  <2> QED
    BY <1>1, <1>3, <2>1, <2>2, <2>3, <2>4
<1>8. c \in AliasSelected(r, cases, home, v)
  BY <1>3, <1>5, <1>6 DEF AliasSelected
<1> QED
  BY <1>1, <1>3, <1>7, <1>8

\* At a version every case of an alias is declared at, the alias names one
\* snapshot, and spells its cases there as their own selectors answer, however
\* many snapshots share a spelling (_alias_plan, _versioned_entries).
THEOREM AliasesFollow ==
  ASSUME \A sch \in Schemas : Acyclic(sch) /\ RefsVisible(sch)
  PROVE  Spec => []AliasesAgree
<1> DEFINE home == [d \in Types |-> built[Home(schema, d)]]
           Near(f) == {t \in Types : Home(schema, t) \in {f} \cup Imports(schema, f)}
           Asked(cases, f, v) ==
             /\ cases # {}
             /\ \A d \in cases :
                  /\ d \in Types /\ d \in Moving(schema) /\ InForce(schema.decl[d], v)
                  /\ Home(schema, d) \in {f} \cup Imports(schema, f)
           Answered(cases, f, v) ==
             \E c \in Versions :
               /\ AliasSelected(built[f], cases, home, v) = {c}
               /\ \A d \in cases : SpelledAt(home[d], d, c) = Selected(schema, home[d], d, v)
<1>0. \A d \in Types : home[d] = built[Home(schema, d)]
  OBVIOUS
<1> HIDE DEF home
<1>1. ASSUME TypeOK, SplitsAllMoving, PlansKept, NEW f \in Files, IsBuilt(f),
             NEW cases, NEW v \in Versions, Asked(cases, f, v)
      PROVE  Answered(cases, f, v)
  <2> DEFINE r == built[f]
  <2>1. IsSchema(schema) /\ r.points \subseteq Versions
    BY <1>1, SchemasAssumption DEF TypeOK, IsResolved
  <2>2. ASSUME NEW d \in cases
        PROVE  /\ d \in Types /\ InForce(schema.decl[d], v)
               /\ Planned(home[d], d) /\ home[d].points \subseteq r.points
    <3>1. PICK g \in Files : g = Home(schema, d) /\ g \in {f} \cup Imports(schema, f)
      BY <1>1, <2>1 DEF IsSchema, Home
    <3>2. home[d] = built[g]
      BY <1>0, <1>1, <3>1
    <3>3. IsBuilt(g) /\ built[g].points \subseteq r.points
      BY <1>1, <3>1 DEF PlansKept, BuiltPlansKept
    <3>4. d \in Owned(schema, g) \cap built[g].versioned
      BY <1>1, <3>1, <3>3 DEF SplitsAllMoving, Owned
    <3>5. Planned(built[g], d)
      BY <1>1, <3>3, <3>4 DEF PlansKept, BuiltPlansKept
    <3> QED
      BY <1>1, <3>2, <3>3, <3>5
  <2>3. PICK s : IsLast(r.points, s, v) /\ s \in r.points /\ s \in Versions
    <3>1. 0 \in r.points
      BY <1>1, <2>2 DEF Planned
    <3> QED
      BY <2>1, <3>1, LastExists DEF IsLast
  <2>4. ASSUME NEW d \in cases
        PROVE  /\ SpelledAt(home[d], d, s) = Selected(schema, home[d], d, v)
               /\ SpelledAt(home[d], d, s) # {}
    <3>1. home[d].points \subseteq Versions
      BY <2>1, <2>2
    <3>2. PICK q : IsLast(home[d].points, q, v)
      BY <2>2, <3>1, LastExists DEF Planned
    <3>3. SpelledAt(home[d], d, v) # {}
      <4>1. /\ InForce(schema.decl[d], v) <=> q \in DOMAIN home[d].views[d]
            /\ q \in DOMAIN home[d].views[d] => SpelledAt(home[d], d, v) = {home[d].views[d][q]}
        BY <2>1, <2>2, <3>1, <3>2, AnswersOfPlan
      <4> QED
        BY <2>2, <4>1
    <3> QED
      BY <2>1, <2>2, <2>3, <3>1, <3>3, SpelledIsSelected
  <2>5. s \in Spellable(r, cases, home)
    BY <2>3, <2>4 DEF Spellable
  <2>6. ASSUME NEW c \in Spellable(r, cases, home), NEW l \in Spellable(r, cases, home),
               c <= l, l <= s, Spelling(cases, home, c) = Spelling(cases, home, s)
        PROVE  Spelling(cases, home, l) = Spelling(cases, home, c)
    <3>1. c \in Versions /\ l \in Versions
      BY <2>1 DEF Spellable
    <3>2. ASSUME NEW d \in cases
          PROVE  SpelledAt(home[d], d, l) = SpelledAt(home[d], d, c)
      <4>1. SpelledAt(home[d], d, c) # {} /\ SpelledAt(home[d], d, l) # {}
        BY DEF Spellable
      <4>2. SpelledAt(home[d], d, c) = SpelledAt(home[d], d, s)
        BY <2>6 DEF Spelling
      <4> QED
        BY <2>1, <2>2, <2>3, <2>6, <3>1, <4>1, <4>2, SpellingsDoNotReturn
    <3> QED
      BY <3>2 DEF Spelling
  <2>7. PICK c \in Versions : /\ AliasSelected(r, cases, home, v) = {c}
                              /\ Spelling(cases, home, c) = Spelling(cases, home, s)
    BY <2>1, <2>3, <2>5, <2>6, AliasAnswers
  <2>8. \A d \in cases : SpelledAt(home[d], d, c) = SpelledAt(home[d], d, s)
    BY <2>7 DEF Spelling
  <2> QED
    BY <2>4, <2>7, <2>8
<1>2. TypeOK /\ SplitsAllMoving /\ PlansKept => AliasesAgree
  <2> SUFFICES ASSUME TypeOK, SplitsAllMoving, PlansKept
               PROVE  AliasesAgree
    OBVIOUS
  <2>1. ASSUME NEW f \in Files, IsBuilt(f), NEW cases \in (SUBSET (Near(f) \cap Moving(schema))) \ {{}},
               NEW v \in Versions, \A d \in cases : InForce(schema.decl[d], v)
        PROVE  Answered(cases, f, v)
    <3>1. cases # {} /\ cases \subseteq Near(f) \cap Moving(schema)
      BY <2>1, Zenon
    <3>2. Asked(cases, f, v)
      BY <2>1, <3>1
    <3> HIDE DEF Asked, Answered
    <3> QED
      BY <1>1, <2>1, <3>2
  <2> QED
    BY <2>1, Zenon DEF AliasesAgree, home
<1>3. Spec => []SplitsAllMoving /\ []PlansKept
  BY SplitsEveryMoving, PlansComplete
<1> QED
  BY <1>2, <1>3, TypeCorrect, PTL
=============================================================================
