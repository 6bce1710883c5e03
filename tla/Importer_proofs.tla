--------------------------- MODULE Importer_proofs ---------------------------
(***************************************************************************)
(* Importer: the loading is the same whatever order imports come in, for   *)
(* every source tree and command line.                                     *)
(***************************************************************************)
EXTENDS Importer, SequenceTheorems, TLAPS

-----------------------------------------------------------------------------
(* Sequences as the sets of their members.                                 *)

LEMMA MembersAppend ==
  ASSUME NEW S, NEW s \in Seq(S), NEW x \in S
  PROVE  Append(s, x) \in Seq(S) /\ Members(Append(s, x)) = Members(s) \cup {x}
BY DEF Members

LEMMA MembersHeadTail ==
  ASSUME NEW S, NEW s \in Seq(S), s # <<>>
  PROVE  /\ Head(s) \in S /\ Head(s) \in Members(s)
         /\ Tail(s) \in Seq(S) /\ Members(s) = Members(Tail(s)) \cup {Head(s)}
<1>1. PICK n \in Nat : n = Len(s)
  OBVIOUS
<1>2. /\ n >= 1 /\ Head(s) = s[1] /\ Tail(s) \in Seq(S) /\ Len(Tail(s)) = n - 1
      /\ \A i \in 1 .. n - 1 : Tail(s)[i] = s[i + 1]
  BY <1>1
<1>3. Members(s) \subseteq Members(Tail(s)) \cup {Head(s)}
  <2>1. SUFFICES ASSUME NEW i \in 1 .. n PROVE s[i] \in Members(Tail(s)) \cup {s[1]}
    BY <1>1, <1>2 DEF Members
  <2>2. CASE i = 1
    BY <2>2
  <2>3. CASE i # 1
    <3>1. i - 1 \in 1 .. n - 1 /\ Tail(s)[i - 1] = s[(i - 1) + 1] /\ (i - 1) + 1 = i
      BY <1>2, <2>3
    <3> QED BY <3>1, <1>2 DEF Members
  <2> QED BY <2>2, <2>3
<1>4. Members(Tail(s)) \cup {Head(s)} \subseteq Members(s)
  BY <1>1, <1>2 DEF Members
<1> QED BY <1>1, <1>2, <1>3, <1>4 DEF Members

LEMMA MembersFrontLast ==
  ASSUME NEW S, NEW s \in Seq(S), s # <<>>
  PROVE  /\ s[Len(s)] \in S
         /\ SubSeq(s, 1, Len(s) - 1) \in Seq(S)
         /\ Members(s) = Members(SubSeq(s, 1, Len(s) - 1)) \cup {s[Len(s)]}
<1>1. PICK n \in Nat : n = Len(s)
  OBVIOUS
<1>2. /\ n >= 1 /\ SubSeq(s, 1, n - 1) \in Seq(S) /\ Len(SubSeq(s, 1, n - 1)) = n - 1
      /\ \A i \in 1 .. n - 1 : SubSeq(s, 1, n - 1)[i] = s[i]
  BY <1>1
<1>3. \A i \in 1 .. n : i = n \/ i \in 1 .. n - 1
  BY <1>1
<1> QED BY <1>1, <1>2, <1>3 DEF Members

LEMMA MembersEmpty == Members(<<>>) = {}
BY DEF Members

LEMMA MembersIn ==
  ASSUME NEW S, NEW s \in Seq(S)
  PROVE  Members(s) \subseteq S
BY DEF Members

-----------------------------------------------------------------------------
(* Type correctness.                                                       *)

LEMMA TreeIsTree ==
  ASSUME TypeOK PROVE IsTree(tree)
BY TreesAssumption DEF TypeOK

LEMMA WithKeyMembers ==
  ASSUME TypeOK, NEW m \in Modules
  PROVE  WithKey(m) \in Seq(Modules) /\ Members(WithKey(m)) = Loaded \cup {m}
<1>1. CASE m \in Loaded
  BY <1>1 DEF WithKey, TypeOK, Loaded
<1>2. CASE m \notin Loaded
  BY <1>2, MembersAppend DEF WithKey, TypeOK, Loaded
<1> QED BY <1>1, <1>2

LEMMA StepTypes == TypeOK /\ [Next]_vars => TypeOK'
<1> SUFFICES ASSUME TypeOK, [Next]_vars PROVE TypeOK'
  OBVIOUS
<1>t. IsTree(tree)
  BY TreeIsTree
<1>1. CASE OpenSource
  <2>1. Head(left) \in Modules /\ Tail(left) \in Seq(Modules)
    BY <1>1, MembersHeadTail DEF OpenSource, TypeOK
  <2> QED BY <1>1, <2>1, WithKeyMembers DEF OpenSource, TypeOK
<1>2. CASE BeginOwners
  BY <1>2 DEF BeginOwners, TypeOK
<1>3. CASE NextSource
  <2>1. Head(left) \in Modules /\ Tail(left) \in Seq(Modules)
    BY <1>3, MembersHeadTail DEF NextSource, TypeOK
  <2> QED BY <1>3, <1>t, <2>1 DEF NextSource, TypeOK, IsTree
<1>4. CASE OpenPackage
  <2>1. Head(parents) \in Modules /\ Tail(parents) \in Seq(Modules)
    BY <1>4, MembersHeadTail DEF OpenPackage, TypeOK
  <2> QED BY <1>4, <2>1, WithKeyMembers DEF OpenPackage, TypeOK
<1>5. CASE BeginFollow
  BY <1>5 DEF BeginFollow, TypeOK
<1>6. CASE Pop
  <2>1. /\ pending[Len(pending)] \in Modules
        /\ SubSeq(pending, 1, Len(pending) - 1) \in Seq(Modules)
    BY <1>6, MembersFrontLast DEF Pop, TypeOK
  <2> QED BY <1>6, <1>t, <2>1 DEF Pop, TypeOK, IsTree
<1>7. ASSUME NEW d \in Modules, SkipImport(d) PROVE TypeOK'
  BY <1>7 DEF SkipImport, TypeOK
<1>8. ASSUME NEW d \in Modules, OpenImport(d) PROVE TypeOK'
  BY <1>8, MembersAppend DEF OpenImport, TypeOK
<1>9. CASE BeginAliases
  BY <1>9 DEF BeginAliases, TypeOK
<1>10. CASE NextModule
  <2>1. Tail(left) \in Seq(Modules)
    BY <1>10, MembersHeadTail DEF NextModule, TypeOK
  <2> QED BY <1>10, <2>1 DEF NextModule, TypeOK
<1>11. CASE ParseAlias
  BY <1>11 DEF ParseAlias, TypeOK
<1>12. CASE Finish
  BY <1>12 DEF Finish, TypeOK
<1>13. CASE UNCHANGED vars
  BY <1>13 DEF vars, TypeOK
<1> QED
  BY <1>1, <1>2, <1>3, <1>4, <1>5, <1>6, <1>7, <1>8, <1>9, <1>10, <1>11, <1>12, <1>13
     DEF Next, Done

\* The variables of the loading keep their types: the lists hold modules, and
\* what is being walked is a module's import set (Importer.load_all).
THEOREM TypeCorrect == Spec => []TypeOK
<1>1. Init => TypeOK
  BY SourcesAssumption DEF Init, TypeOK
<1> QED BY <1>1, StepTypes, PTL DEF Spec

-----------------------------------------------------------------------------
(* What a run is expected to load.                                         *)

LEMMA ExpectedCloses ==
  ASSUME TypeOK
  PROVE  /\ Sources \cup Packages \subseteq Expected
         /\ \A m \in Expected \ OwnersOnly : tree.imports[m] \cap tree.onDisk \subseteq Expected
<1>t. IsTree(tree)
  BY TreeIsTree
<1>1. Sources \subseteq Modules
  BY MembersIn DEF TypeOK, Sources
<1>2. Packages \subseteq Modules
  BY <1>t DEF Packages, IsTree
<1>3. Sources \cup Packages \subseteq Expected
  BY <1>1, <1>2 DEF Expected, LoadClosed
<1>4. ASSUME NEW m \in Expected \ OwnersOnly, NEW d \in tree.imports[m] \cap tree.onDisk
      PROVE  d \in Expected
  <2>1. m \in Modules /\ d \in Modules
    BY <1>4, <1>t DEF Expected, IsTree
  <2>2. ASSUME NEW S \in SUBSET Modules, LoadClosed(S) PROVE d \in S
    BY <1>4, <2>2 DEF Expected, LoadClosed
  <2> QED BY <2>1, <2>2 DEF Expected
<1> QED BY <1>3, <1>4

\* What a step of the loading leaves alone.
LEMMA GoalUnmoved ==
  ASSUME [Next]_vars
  PROVE  /\ tree' = tree /\ outputs' = outputs
         /\ Sources' = Sources /\ Packages' = Packages
         /\ OwnersOnly' = OwnersOnly /\ Expected' = Expected
<1>1. tree' = tree /\ outputs' = outputs
  BY DEF Next, vars, OpenSource, BeginOwners, NextSource, OpenPackage, BeginFollow, Pop,
         SkipImport, OpenImport, BeginAliases, NextModule, ParseAlias, Finish, Done
<1> QED BY <1>1 DEF Sources, Packages, OwnersOnly, Expected, LoadClosed, Members

-----------------------------------------------------------------------------
(* The worklist invariant, one lemma per action.                           *)

LEMMA WorklistStarts == Init => WorklistInv
<1> SUFFICES ASSUME Init PROVE WorklistInv
  OBVIOUS
<1>1. Loaded = {} /\ Members(parents) = {} /\ Members(left) = Sources
  BY MembersEmpty DEF Init, Loaded, Sources
<1> QED
  BY <1>1 DEF Init, WorklistInv, SourcesAccounted, PackagesAccounted, ImportsAccounted

LEMMA WorklistOpensSource ==
  ASSUME TypeOK, WorklistInv, OpenSource
  PROVE  WorklistInv'
<1>g. /\ Sources' = Sources /\ Packages' = Packages /\ Expected' = Expected
      /\ OwnersOnly' = OwnersOnly /\ tree' = tree
  BY GoalUnmoved DEF Next
<1>1. /\ Head(left) \in Modules /\ Head(left) \in Members(left)
      /\ Members(left) = Members(left') \cup {Head(left)}
  BY MembersHeadTail DEF OpenSource, TypeOK
<1>2. Loaded' = Loaded \cup {Head(left)}
  BY <1>1, WithKeyMembers DEF OpenSource, Loaded
<1>3. phase = "sources" /\ phase' = "sources" /\ parents' = parents /\ deps' = deps
  BY DEF OpenSource
<1>4. Head(left) \in Sources /\ Sources \subseteq Expected
  BY <1>1, <1>3, ExpectedCloses DEF WorklistInv, SourcesAccounted
<1>5. Loaded' \subseteq Expected'
  BY <1>g, <1>2, <1>4 DEF WorklistInv
<1>6. SourcesAccounted'
  BY <1>g, <1>1, <1>2, <1>3 DEF WorklistInv, SourcesAccounted
<1>7. PackagesAccounted'
  BY <1>g, <1>2, <1>3, <1>4 DEF WorklistInv, PackagesAccounted
<1>8. ImportsAccounted'
  BY <1>3 DEF WorklistInv, ImportsAccounted
<1> QED BY <1>5, <1>6, <1>7, <1>8 DEF WorklistInv

LEMMA WorklistBeginsOwners ==
  ASSUME TypeOK, WorklistInv, BeginOwners
  PROVE  WorklistInv'
<1>g. /\ Sources' = Sources /\ Packages' = Packages /\ Expected' = Expected
      /\ OwnersOnly' = OwnersOnly /\ tree' = tree
  BY GoalUnmoved DEF Next
<1>1. /\ phase = "sources" /\ phase' = "owners" /\ parents' = parents /\ deps' = deps
      /\ loaded' = loaded /\ left' = outputs
  BY DEF BeginOwners
<1>2. Loaded' = Loaded /\ Members(left) = {} /\ Members(left') = Sources
  BY <1>1, MembersEmpty DEF BeginOwners, Loaded, Sources
<1>3. SourcesAccounted'
  BY <1>g, <1>1, <1>2 DEF WorklistInv, SourcesAccounted
<1>4. PackagesAccounted'
  BY <1>g, <1>1, <1>2 DEF WorklistInv, PackagesAccounted
<1>5. ImportsAccounted'
  BY <1>1 DEF WorklistInv, ImportsAccounted
<1> QED BY <1>g, <1>2, <1>3, <1>4, <1>5 DEF WorklistInv

LEMMA WorklistNextSource ==
  ASSUME TypeOK, WorklistInv, NextSource
  PROVE  WorklistInv'
<1>g. /\ Sources' = Sources /\ Packages' = Packages /\ Expected' = Expected
      /\ OwnersOnly' = OwnersOnly /\ tree' = tree
  BY GoalUnmoved DEF Next
<1>1. /\ phase = "owners" /\ phase' = "owners" /\ deps' = deps /\ loaded' = loaded
      /\ parents = <<>> /\ parents' = tree.packages[Head(left)]
  BY DEF NextSource
<1>2. /\ Head(left) \in Members(left)
      /\ Members(left) = Members(left') \cup {Head(left)}
  BY MembersHeadTail DEF NextSource, TypeOK
<1>3. Loaded' = Loaded /\ Members(parents) = {}
  BY <1>1, MembersEmpty DEF Loaded
<1>4. Head(left) \in Sources
  BY <1>1, <1>2 DEF WorklistInv, SourcesAccounted
<1>5. Members(parents') \cap tree.onDisk \subseteq Packages
  BY <1>1, <1>4 DEF Packages
<1>6. SourcesAccounted'
  BY <1>g, <1>1, <1>2, <1>3 DEF WorklistInv, SourcesAccounted
<1>7. PackagesAccounted'
  <2>1. ASSUME NEW m \in Sources \ Members(left')
        PROVE  Members(tree.packages[m]) \cap tree.onDisk \subseteq Loaded \cup Members(parents')
    <3>1. CASE m = Head(left)
      BY <3>1, <1>1
    <3>2. CASE m # Head(left)
      BY <3>2, <2>1, <1>1, <1>2, <1>3 DEF WorklistInv, PackagesAccounted
    <3> QED BY <3>1, <3>2
  <2> QED BY <2>1, <1>g, <1>1, <1>3, <1>5 DEF WorklistInv, PackagesAccounted
<1>8. ImportsAccounted'
  BY <1>1 DEF WorklistInv, ImportsAccounted
<1> QED BY <1>g, <1>3, <1>6, <1>7, <1>8 DEF WorklistInv

LEMMA WorklistOpensPackage ==
  ASSUME TypeOK, WorklistInv, OpenPackage
  PROVE  WorklistInv'
<1>g. /\ Sources' = Sources /\ Packages' = Packages /\ Expected' = Expected
      /\ OwnersOnly' = OwnersOnly /\ tree' = tree
  BY GoalUnmoved DEF Next
<1>1. phase = "owners" /\ phase' = "owners" /\ deps' = deps /\ left' = left
  BY DEF OpenPackage
<1>2. /\ Head(parents) \in Modules /\ Head(parents) \in Members(parents)
      /\ Members(parents) = Members(parents') \cup {Head(parents)}
  BY MembersHeadTail DEF OpenPackage, TypeOK
<1>3. Loaded' = Loaded \cup ({Head(parents)} \cap tree.onDisk)
  BY <1>2, WithKeyMembers DEF OpenPackage, Loaded
<1>4. {Head(parents)} \cap tree.onDisk \subseteq Packages
  BY <1>2 DEF WorklistInv, PackagesAccounted
<1>5. Loaded' \subseteq Expected'
  BY <1>g, <1>3, <1>4, ExpectedCloses DEF WorklistInv
<1>6. SourcesAccounted'
  BY <1>g, <1>1, <1>3 DEF WorklistInv, SourcesAccounted
<1>7. PackagesAccounted'
  <2>1. ASSUME NEW m \in Sources \ Members(left)
        PROVE  Members(tree.packages[m]) \cap tree.onDisk \subseteq Loaded' \cup Members(parents')
    BY <2>1, <1>1, <1>2, <1>3 DEF WorklistInv, PackagesAccounted
  <2> QED BY <2>1, <1>g, <1>1, <1>2, <1>3, <1>4 DEF WorklistInv, PackagesAccounted
<1>8. ImportsAccounted'
  BY <1>1 DEF WorklistInv, ImportsAccounted
<1> QED BY <1>5, <1>6, <1>7, <1>8 DEF WorklistInv

LEMMA WorklistBeginsFollowing ==
  ASSUME TypeOK, WorklistInv, BeginFollow
  PROVE  WorklistInv'
<1>g. /\ Sources' = Sources /\ Packages' = Packages /\ Expected' = Expected
      /\ OwnersOnly' = OwnersOnly /\ tree' = tree
  BY GoalUnmoved DEF Next
<1>1. /\ phase = "owners" /\ phase' = "follow" /\ deps' = deps /\ loaded' = loaded
      /\ parents = <<>> /\ parents' = <<>> /\ left = <<>> /\ pending' = outputs
  BY DEF BeginFollow
<1>2. /\ Loaded' = Loaded /\ Members(parents) = {} /\ Members(left) = {}
      /\ Members(pending') = Sources
  BY <1>1, MembersEmpty DEF Loaded, Sources
<1>3. Sources \subseteq Loaded /\ deps = {} /\ Loaded \subseteq Sources \cup Packages
  BY <1>1 DEF WorklistInv, SourcesAccounted, PackagesAccounted, ImportsAccounted
<1>4. Packages \subseteq Loaded
  BY <1>1, <1>2 DEF WorklistInv, PackagesAccounted, Packages
<1>5. SourcesAccounted' /\ PackagesAccounted'
  BY <1>g, <1>1, <1>2, <1>3, <1>4 DEF SourcesAccounted, PackagesAccounted
<1>6. ImportsAccounted'
  BY <1>g, <1>1, <1>2, <1>3 DEF ImportsAccounted, OwnersOnly
<1> QED BY <1>g, <1>2, <1>5, <1>6 DEF WorklistInv

LEMMA WorklistPops ==
  ASSUME TypeOK, WorklistInv, Pop
  PROVE  WorklistInv'
<1>g. /\ Sources' = Sources /\ Packages' = Packages /\ Expected' = Expected
      /\ OwnersOnly' = OwnersOnly /\ tree' = tree
  BY GoalUnmoved DEF Next
<1>1. /\ phase = "follow" /\ phase' = "follow" /\ deps = {} /\ loaded' = loaded
      /\ parents' = parents /\ left' = left
      /\ scanning' = pending[Len(pending)] /\ deps' = tree.imports[scanning']
  BY DEF Pop
<1>2. Loaded' = Loaded /\ Members(pending) = Members(pending') \cup {scanning'}
  BY <1>1, MembersFrontLast DEF Pop, TypeOK, Loaded
<1>3. SourcesAccounted' /\ PackagesAccounted'
  BY <1>g, <1>1, <1>2 DEF WorklistInv, SourcesAccounted, PackagesAccounted
<1>4. ASSUME NEW m \in Loaded \ OwnersOnly
      PROVE  \/ m \in Members(pending')
             \/ m = scanning' /\ tree.imports[m] \cap tree.onDisk \subseteq Loaded \cup deps'
             \/ tree.imports[m] \cap tree.onDisk \subseteq Loaded
  <2>1. CASE m \in Members(pending)
    BY <2>1, <1>1, <1>2
  <2>2. CASE m \notin Members(pending)
    BY <2>2, <1>1, <1>4 DEF WorklistInv, ImportsAccounted, Settled
  <2> QED BY <2>1, <2>2
<1>5. Members(pending) \subseteq Loaded \ OwnersOnly
  BY <1>1 DEF WorklistInv, ImportsAccounted
<1>6. ImportsAccounted'
  BY <1>g, <1>1, <1>2, <1>4, <1>5 DEF ImportsAccounted, Settled
<1> QED BY <1>g, <1>2, <1>3, <1>6 DEF WorklistInv

LEMMA WorklistSkips ==
  ASSUME TypeOK, WorklistInv, NEW d \in Modules, SkipImport(d)
  PROVE  WorklistInv'
<1>g. /\ Sources' = Sources /\ Packages' = Packages /\ Expected' = Expected
      /\ OwnersOnly' = OwnersOnly /\ tree' = tree
  BY GoalUnmoved DEF Next
<1>1. /\ phase = "follow" /\ phase' = "follow" /\ d \in deps /\ deps' = deps \ {d}
      /\ d \in Loaded \/ d \notin tree.onDisk
      /\ loaded' = loaded /\ parents' = parents /\ left' = left
      /\ pending' = pending /\ scanning' = scanning
  BY DEF SkipImport
<1>2. Loaded' = Loaded /\ Members(pending') = Members(pending)
  BY <1>1 DEF Loaded
<1>3. SourcesAccounted' /\ PackagesAccounted'
  BY <1>g, <1>1, <1>2 DEF WorklistInv, SourcesAccounted, PackagesAccounted
<1>4. ASSUME NEW m \in Loaded \ OwnersOnly
      PROVE  \/ m \in Members(pending)
             \/ m = scanning /\ tree.imports[m] \cap tree.onDisk \subseteq Loaded \cup deps'
             \/ tree.imports[m] \cap tree.onDisk \subseteq Loaded
  BY <1>1, <1>4 DEF WorklistInv, ImportsAccounted, Settled
<1>5. ImportsAccounted'
  BY <1>g, <1>1, <1>2, <1>4 DEF WorklistInv, ImportsAccounted, Settled
<1> QED BY <1>g, <1>2, <1>3, <1>5 DEF WorklistInv

LEMMA WorklistOpensImport ==
  ASSUME TypeOK, WorklistInv, NEW d \in Modules, OpenImport(d)
  PROVE  WorklistInv'
<1>g. /\ Sources' = Sources /\ Packages' = Packages /\ Expected' = Expected
      /\ OwnersOnly' = OwnersOnly /\ tree' = tree
  BY GoalUnmoved DEF Next
<1>1. /\ phase = "follow" /\ phase' = "follow" /\ d \in deps /\ deps' = deps \ {d}
      /\ d \notin Loaded /\ d \in tree.onDisk
      /\ parents' = parents /\ left' = left /\ scanning' = scanning
  BY DEF OpenImport
<1>2. Loaded' = Loaded \cup {d} /\ Members(pending') = Members(pending) \cup {d}
  BY MembersAppend DEF OpenImport, TypeOK, Loaded
<1>3. /\ scanning \in Loaded \ OwnersOnly /\ deps \subseteq tree.imports[scanning]
      /\ Packages \subseteq Loaded
  BY <1>1 DEF WorklistInv, ImportsAccounted, PackagesAccounted
<1>4. d \in Expected /\ d \notin OwnersOnly
  BY <1>1, <1>3, ExpectedCloses DEF WorklistInv, OwnersOnly
<1>5. SourcesAccounted' /\ PackagesAccounted'
  BY <1>g, <1>1, <1>2 DEF WorklistInv, SourcesAccounted, PackagesAccounted
<1>6. ASSUME NEW m \in Loaded \ OwnersOnly
      PROVE  \/ m \in Members(pending)
             \/ m = scanning /\ tree.imports[m] \cap tree.onDisk \subseteq Loaded' \cup deps'
             \/ tree.imports[m] \cap tree.onDisk \subseteq Loaded'
  BY <1>1, <1>2, <1>6 DEF WorklistInv, ImportsAccounted, Settled
<1>7. Members(pending) \subseteq Loaded \ OwnersOnly
  BY <1>1 DEF WorklistInv, ImportsAccounted
<1>8. ImportsAccounted'
  BY <1>g, <1>1, <1>2, <1>3, <1>4, <1>6, <1>7 DEF ImportsAccounted, Settled
<1> QED BY <1>g, <1>2, <1>4, <1>5, <1>8 DEF WorklistInv

LEMMA WorklistEmpties ==
  ASSUME TypeOK, WorklistInv, BeginAliases
  PROVE  WorklistInv'
<1>g. /\ Sources' = Sources /\ Packages' = Packages /\ Expected' = Expected
      /\ OwnersOnly' = OwnersOnly /\ tree' = tree
  BY GoalUnmoved DEF Next
<1>1. /\ phase = "follow" /\ phase' = "aliases" /\ deps = {} /\ deps' = deps
      /\ loaded' = loaded /\ parents' = parents /\ pending = <<>>
  BY DEF BeginAliases
<1>2. Loaded' = Loaded /\ Members(pending) = {}
  BY <1>1, MembersEmpty DEF Loaded
<1>3. SourcesAccounted' /\ PackagesAccounted'
  BY <1>g, <1>1, <1>2 DEF WorklistInv, SourcesAccounted, PackagesAccounted
<1>4. \A m \in Loaded \ OwnersOnly : Settled(m)
  BY <1>1, <1>2 DEF WorklistInv, ImportsAccounted, Settled
<1>5. ImportsAccounted'
  BY <1>g, <1>1, <1>2, <1>4 DEF ImportsAccounted, Settled
<1> QED BY <1>g, <1>2, <1>3, <1>5 DEF WorklistInv

\* The alias pass loads nothing.
LEMMA WorklistStays ==
  ASSUME TypeOK, WorklistInv, NextModule \/ ParseAlias \/ Finish \/ UNCHANGED vars
  PROVE  WorklistInv'
<1>g. /\ Sources' = Sources /\ Packages' = Packages /\ Expected' = Expected
      /\ OwnersOnly' = OwnersOnly /\ tree' = tree
  BY GoalUnmoved DEF Next
<1>1. CASE NextModule \/ ParseAlias \/ Finish
  <2>1. /\ phase = "aliases" /\ phase' \in {"aliases", "done"}
        /\ deps' = deps /\ loaded' = loaded /\ parents' = parents
    BY <1>1 DEF NextModule, ParseAlias, Finish
  <2>2. Loaded' = Loaded
    BY <2>1 DEF Loaded
  <2> QED
    BY <1>g, <2>1, <2>2
       DEF WorklistInv, SourcesAccounted, PackagesAccounted, ImportsAccounted, Settled
<1>2. CASE UNCHANGED vars
  BY <1>g, <1>2
     DEF vars, WorklistInv, SourcesAccounted, PackagesAccounted, ImportsAccounted, Settled, Loaded
<1> QED BY <1>1, <1>2

LEMMA WorklistStep == TypeOK /\ WorklistInv /\ [Next]_vars => WorklistInv'
<1> SUFFICES ASSUME TypeOK, WorklistInv, [Next]_vars PROVE WorklistInv'
  OBVIOUS
<1>1. ASSUME NEW d \in Modules, SkipImport(d) \/ OpenImport(d) PROVE WorklistInv'
  BY <1>1, WorklistSkips, WorklistOpensImport
<1> QED
  BY <1>1, WorklistOpensSource, WorklistBeginsOwners, WorklistNextSource, WorklistOpensPackage,
     WorklistBeginsFollowing, WorklistPops, WorklistEmpties, WorklistStays DEF Next, Done

\* The loops of load_all lose no source, no package and no import, and load
\* nothing that none of them leads to (_load_owning_packages, _follow_imports).
THEOREM WorklistKept == Spec => []WorklistInv
BY TypeCorrect, WorklistStarts, WorklistStep, PTL DEF Spec

\* The set of files does not depend on the order a module's imports come in:
\* it is the least set with the sources and their packages that is closed under
\* the imports of all but mere owners (Importer.load_all).
THEOREM LoadIsDetermined == Spec => []LoadDetermined
<1>1. TypeOK /\ WorklistInv => LoadDetermined
  <2> SUFFICES ASSUME TypeOK, WorklistInv, phase \in {"aliases", "done"}
               PROVE  Loaded = Expected
    BY DEF LoadDetermined
  <2>1. LoadClosed(Loaded)
    BY DEF WorklistInv, SourcesAccounted, PackagesAccounted, ImportsAccounted, LoadClosed, Settled
  <2>2. Loaded \subseteq Modules
    BY MembersIn DEF TypeOK, Loaded
  <2>3. Expected \subseteq Loaded
    BY <2>1, <2>2 DEF Expected
  <2> QED BY <2>3 DEF WorklistInv
<1> QED BY <1>1, TypeCorrect, WorklistKept, PTL

=============================================================================
