------------------------ MODULE DescriptorPool_proofs -----------------------
(***************************************************************************)
(* Proofs about DescriptorPool, for every set of files and types, every    *)
(* schema and every list of outputs.                                       *)
(***************************************************************************)
EXTENDS DescriptorPool, SequenceTheorems, TLAPS

-----------------------------------------------------------------------------
(* Facts about a schema.                                                   *)

\* Imports are files.
LEMMA ImportsAreFiles ==
  ASSUME NEW sch, IsSchema(sch), NEW f \in Files
  PROVE  Imports(sch, f) \subseteq Files /\ sch.imports[f] \in Seq(Files)
<1>1. sch.imports[f] \in Seq(Files)
  BY DEF IsSchema
<1>2. QED
  BY <1>1 DEF Imports

\* Every change point is a protocol version.
LEMMA ChangePointsAreVersions ==
  ASSUME NEW sch, IsSchema(sch), NEW t \in Types
  PROVE  ChangePoints(sch, t) \subseteq Versions
<1>1. ASSUME NEW x, Span(x)
      PROVE  Gates(x) \subseteq Versions
  BY <1>1, OpenAssumption DEF Span, Gates, Versions
<1>2. Gates(sch.decl[t]) \subseteq Versions
  BY <1>1 DEF IsSchema
<1>3. \A p \in sch.decl[t].parts : Gates(p) \subseteq Versions
  BY <1>1 DEF IsSchema
<1>4. QED
  BY <1>2, <1>3 DEF ChangePoints

-----------------------------------------------------------------------------
(* Types.                                                                  *)

\* A frame for a file is a frame.
LEMMA FrameType ==
  ASSUME schema \in Schemas, NEW f \in Files, NEW v \in SUBSET Files
  PROVE  Frame(f, v) \in Frames
<1>1. schema.imports[f] \in Seq(Files)
  BY SchemasAssumption, ImportsAreFiles
<1>2. QED
  BY <1>1 DEF Frame, Frames

\* The innermost call is a call.
LEMMA TopType ==
  ASSUME TypeOK, stack # <<>>
  PROVE  /\ Len(stack) \in Nat \ {0}
         /\ Top \in Frames
<1>1. stack \in Seq(Frames) /\ Len(stack) \in Nat
  BY DEF TypeOK
<1>2. Len(stack) # 0
  BY <1>1, EmptySeq
<1>3. Len(stack) \in 1 .. Len(stack)
  BY <1>1, <1>2
<1>4. stack[Len(stack)] \in Frames
  BY <1>1, <1>3, ElementOfSeq
<1>5. QED
  BY <1>1, <1>2, <1>4 DEF Top

\* Every call is for a file.
LEMMA FramesHaveFiles ==
  ASSUME TypeOK
  PROVE  \A k \in 1 .. Len(stack) : stack[k].file \in Files
<1>1. stack \in Seq(Frames)
  BY DEF TypeOK
<1>2. \A k \in 1 .. Len(stack) : stack[k] \in Frames
  BY <1>1, ElementOfSeq
<1>3. QED
  BY <1>2 DEF Frames

\* Init establishes the types.
LEMMA InitTypes == Init => TypeOK
<1> SUFFICES ASSUME Init PROVE TypeOK
  OBVIOUS
<1>1. outputs \in Seq(Files)
  BY OutputsAssumption DEF Init
<1>2. \A f \in Files : ~ IsBuilt(f)
  BY DEF Init, IsBuilt
<1>3. built = [f \in Files |-> built[f]]
  BY DEF Init
<1>4. IsPlan(views)
  BY DEF Init, NoViews, IsPlan
<1>5. stack \in Seq(Frames)
  BY DEF Init
<1> QED
  BY <1>1, <1>2, <1>3, <1>4, <1>5 DEF Init, TypeOK

\* The import loop moves the innermost call on by one import.
LEMMA StackAdvances ==
  ASSUME TypeOK, ImportLoop
  PROVE  /\ Advanced \in Seq(Frames) /\ Len(Advanced) = Len(stack)
         /\ \A j \in 1 .. Len(stack) : j # Len(stack) => Advanced[j] = stack[j]
         /\ Advanced[Len(stack)] = [Top EXCEPT !.left = Tail(@)]
         /\ NextImport \in Files
         /\ Tail(Top.left) \in Seq(Files)
<1>1. stack \in Seq(Frames) /\ Top \in Frames /\ Len(stack) \in 1 .. Len(stack)
  BY TopType DEF TypeOK, ImportLoop
<1>2. Top.left \in Seq(Files) /\ Top.left # <<>>
  BY <1>1 DEF Frames, ImportLoop
<1>3. Head(Top.left) \in Files /\ Tail(Top.left) \in Seq(Files)
  BY <1>2, HeadTailProperties
<1>4. [Top EXCEPT !.left = Tail(@)] \in Frames
  BY <1>1, <1>3 DEF Frames
<1>5. Advanced = [stack EXCEPT ![Len(stack)] = [Top EXCEPT !.left = Tail(@)]]
  BY <1>1, LenProperties DEF Advanced, Top
<1>6. QED
  BY <1>1, <1>3, <1>4, <1>5, ExceptSeq DEF NextImport

\* build_file enters an import.
LEMMA StackPushes ==
  ASSUME TypeOK, ImportLoop, NEW fr \in Frames
  PROVE  /\ Append(Advanced, fr) \in Seq(Frames)
         /\ Append(Advanced, fr) # <<>>
         /\ Len(Append(Advanced, fr)) = Len(stack) + 1
         /\ \A j \in 1 .. Len(stack) : j # Len(stack) => Append(Advanced, fr)[j] = stack[j]
         /\ Append(Advanced, fr)[Len(stack)] = [Top EXCEPT !.left = Tail(@)]
         /\ Append(Advanced, fr)[Len(stack) + 1] = fr
<1>1. Len(stack) \in 1 .. Len(stack)
  BY TopType DEF ImportLoop
<1>2. QED
  BY <1>1, StackAdvances, AppendProperties

\* build_file returns.
Popped == SubSeq(stack, 1, Len(stack) - 1)
LEMMA StackPops ==
  ASSUME TypeOK, stack # <<>>
  PROVE  /\ Popped \in Seq(Frames) /\ Len(Popped) = Len(stack) - 1
         /\ \A j \in 1 .. Len(Popped) : Popped[j] = stack[j]
<1>1. stack \in Seq(Frames) /\ Len(stack) \in Nat \ {0}
  BY TopType DEF TypeOK
<1>2. PICK n \in Nat : n = Len(stack) - 1 /\ n + 1 = Len(stack)
  BY <1>1
<1>3. \A i \in 1 .. n : stack[i] \in Frames
  BY <1>1, <1>2, ElementOfSeq
<1>4. /\ Popped \in Seq(Frames)
      /\ Len(Popped) = IF 1 <= n THEN n - 1 + 1 ELSE 0
      /\ \A i \in 1 .. n - 1 + 1 : Popped[i] = stack[1 + i - 1]
  BY <1>1, <1>2, <1>3, SubSeqProperties DEF Popped
<1>5. n - 1 + 1 = n /\ (~ (1 <= n) => n = 0) /\ \A i \in 1 .. n : 1 + i - 1 = i
  OBVIOUS
<1>6. QED
  BY <1>2, <1>4, <1>5

\* Recording a snapshot keeps the plan a plan.
LEMMA RecordType ==
  ASSUME IsPlan(views), NEW s \in Versions, NEW c,
         planning \in DOMAIN views => c \in Versions, Record(s, c)
  PROVE  IsPlan(views)'
<1>1. CASE planning \notin DOMAIN views
  BY <1>1 DEF IsPlan, Record
<1>2. CASE planning \in DOMAIN views
  <2>1. c \in Versions
    BY <1>2
  <2>2. DOMAIN views' = DOMAIN views /\ views' = [t \in DOMAIN views' |-> views'[t]]
    BY DEF IsPlan, Record
  <2>3. \A t \in DOMAIN views : t # planning => views'[t] = views[t]
    BY DEF IsPlan, Record
  <2>4. views'[planning] = [q \in DOMAIN views[planning] \cup {s} |->
                              IF q = s THEN c ELSE views[planning][q]]
    BY <1>2 DEF IsPlan, Record
  <2>5. /\ DOMAIN views'[planning] \subseteq Versions
        /\ views'[planning] \in [DOMAIN views'[planning] -> Versions]
    BY <1>2, <2>1, <2>4 DEF IsPlan
  <2>6. QED
    BY <2>2, <2>3, <2>5 DEF IsPlan
<1>3. QED
  BY <1>1, <1>2

-----------------------------------------------------------------------------
\* Every step of the pool keeps the types.
LEMMA StepTypes == TypeOK /\ [Next]_vars => TypeOK'
<1> SUFFICES ASSUME TypeOK, [Next]_vars
             PROVE  TypeOK'
  OBVIOUS
<1> USE DEF locals
<1>0. /\ IsSchema(schema)
      /\ stack # <<>> => Top.file \in Files
  BY SchemasAssumption, TopType DEF TypeOK, Frames
<1>1. CASE OutputFromMemo
  BY <1>1, HeadTailProperties DEF OutputFromMemo, TypeOK, IsBuilt
<1>2. CASE OutputBuild
  <2>1. Head(outputs) \in Files /\ Tail(outputs) \in Seq(Files)
    BY <1>2, HeadTailProperties DEF OutputBuild, TypeOK
  <2>2. Frame(Head(outputs), {}) \in Frames
    BY <2>1, FrameType DEF TypeOK
  <2>3. stack' \in Seq(Frames)
    BY <1>2, <2>2 DEF OutputBuild
  <2>4. QED
    BY <1>2, <2>1, <2>3 DEF OutputBuild, TypeOK, IsBuilt
<1>3. CASE SkipImport
  <2>1. stack' \in Seq(Frames)
    BY <1>3, StackAdvances DEF SkipImport
  <2>2. QED
    BY <1>3, <2>1 DEF SkipImport, ImportLoop, TypeOK, IsBuilt
<1>4. CASE EnterImport
  <2>1. Top.deeper \in SUBSET Files
    BY <1>4, TopType DEF EnterImport, ImportLoop, Frames
  <2>2. Frame(NextImport, Top.deeper) \in Frames
    BY <1>4, <2>1, StackAdvances, FrameType DEF EnterImport, TypeOK
  <2>3. stack' \in Seq(Frames)
    BY <1>4, <2>2, StackPushes DEF EnterImport
  <2>4. QED
    BY <1>4, <2>3 DEF EnterImport, TypeOK, IsBuilt
<1>5. CASE Classify
  <2>1. \A g \in BuiltImports(Top.file) : built[g].versioned \subseteq Types
    BY <1>0, <1>5, ImportsAreFiles DEF BuiltImports, Classify, TypeOK, IsResolved
  <2>2. versioned' \subseteq Types
    BY <1>5, <2>1 DEF Classify, Owned
  <2>3. QED
    BY <1>5, <2>2 DEF Classify, TypeOK, IsBuilt
<1>6. ASSUME NEW t \in Types, Spread(t)
      PROVE  TypeOK'
  BY <1>6 DEF Spread, TypeOK, IsBuilt
<1>7. CASE LayOut
  <2>1. Top.file \in Files
    BY <1>0, <1>7 DEF LayOut, TypeOK
  <2>2. \A g \in BuiltImports(Top.file) : built[g].points \subseteq Versions
    BY <1>0, <2>1, ImportsAreFiles DEF BuiltImports, TypeOK, IsResolved
  <2>3. \A t \in Owned(schema, Top.file) \cap versioned : ChangePoints(schema, t) \subseteq Versions
    BY <1>0, ChangePointsAreVersions DEF Owned
  <2>4. 0 \in Versions
    BY OpenAssumption DEF Versions
  <2>5. points' \subseteq Versions
    BY <1>7, <2>2, <2>3, <2>4 DEF LayOut
  <2>6. QED
    BY <1>7, <2>5 DEF LayOut, TypeOK, IsBuilt
<1>8. ASSUME NEW t \in Types, PlanType(t)
      PROVE  TypeOK'
  <2>1. IsPlan(views)'
    BY <1>8 DEF PlanType, IsPlan, NoViews, TypeOK
  <2>2. QED
    BY <1>8, <2>1 DEF PlanType, TypeOK, IsBuilt
<1>9. ASSUME NEW s \in Versions, SkipAbsent(s)
      PROVE  TypeOK'
  BY <1>9 DEF SkipAbsent, InnerLoop, TypeOK, IsBuilt
<1>10. ASSUME NEW s \in Versions, Define(s)
       PROVE  TypeOK'
  <2>1. IsPlan(views)'
    BY <1>10, RecordType DEF Define, TypeOK
  <2>2. QED
    BY <1>10, <2>1 DEF Define, InnerLoop, TypeOK, IsBuilt
<1>11. ASSUME NEW s \in Versions, Share(s)
       PROVE  TypeOK'
  <2>1. PICK p \in DOMAIN views[planning] : Record(s, views[planning][p])
    BY <1>11 DEF Share
  <2>2. planning \in DOMAIN views => views[planning][p] \in Versions
    BY <2>1 DEF TypeOK, IsPlan
  <2>3. IsPlan(views)'
    BY <2>1, <2>2, RecordType DEF TypeOK
  <2>4. QED
    BY <1>11, <2>3 DEF Share, InnerLoop, TypeOK, IsBuilt
<1>12. CASE Seal
  <2>1. stack # <<>> /\ Top.file \in Files
    BY <1>0, <1>12 DEF Seal, TypeOK
  <2>2. stack' \in Seq(Frames)
    BY <1>12, <2>1, StackPops DEF Seal, Popped
  <2>3. KnownEnums(Top.file) \subseteq Types
    BY DEF KnownEnums, OwnedEnums, Owned
  <2>4. IsPlan(views)'
    BY <1>12 DEF Seal, NoViews, IsPlan
  <2>5. built' = [f \in Files |-> built'[f]]
    BY <1>12 DEF Seal, TypeOK
  <2>6. IsResolved(built'[Top.file])
    BY <1>12, <2>1, <2>3 DEF Seal, TypeOK, IsResolved
  <2>7. \A f \in Files : f # Top.file => built'[f] = built[f]
    BY <1>12 DEF Seal, TypeOK
  <2>8. \A f \in Files : IsBuilt(f)' => IsResolved(built'[f])
    BY <2>6, <2>7 DEF IsBuilt, TypeOK, Unbuilt
  <2>9. QED
    BY <1>12, <2>2, <2>4, <2>5, <2>8 DEF Seal, TypeOK
<1>13. CASE Done
  BY <1>13 DEF Done, vars, TypeOK, IsBuilt
<1>14. CASE UNCHANGED vars
  BY <1>14 DEF vars, TypeOK, IsBuilt
<1> QED
  BY <1>1, <1>2, <1>3, <1>4, <1>5, <1>6, <1>7, <1>8, <1>9, <1>10, <1>11, <1>12, <1>13, <1>14
     DEF Next

\* The variables of every behaviour of the pool have their types.
THEOREM TypeCorrect == Spec => []TypeOK
<1>1. Init => TypeOK
  BY InitTypes
<1>2. TypeOK /\ [Next]_vars => TypeOK'
  BY StepTypes
<1>3. QED
  BY <1>1, <1>2, PTL DEF Spec

-----------------------------------------------------------------------------
(* The recursion over imports.                                             *)

\* A file sees itself, and what it sees imports what it sees.
LEMMA VisibleCloses ==
  ASSUME NEW sch, IsSchema(sch), NEW f \in Files
  PROVE  /\ f \in Visible(sch, f)
         /\ \A g \in Visible(sch, f) : Imports(sch, g) \subseteq Visible(sch, f)
<1>1. f \in Visible(sch, f)
  BY DEF Visible
<1>2. ASSUME NEW g \in Visible(sch, f), NEW h \in Imports(sch, g)
      PROVE  h \in Visible(sch, f)
  <2>1. g \in Files /\ h \in Files
    BY <1>2, ImportsAreFiles DEF Visible
  <2>2. ASSUME NEW G \in SUBSET Files, f \in G, ImportClosed(sch, G)
        PROVE  h \in G
    BY <1>2, <2>2 DEF Visible, ImportClosed
  <2>3. QED
    BY <2>1, <2>2 DEF Visible
<1>3. QED
  BY <1>1, <1>2

\* A step that leaves the calls and the memo alone.
LEMMA RecursionUnmoved ==
  ASSUME RecursionInv, UNCHANGED <<schema, built, stack>>,
         phase' # "imports" => Top.left = <<>>
  PROVE  RecursionInv'
<1>1. Active' = Active /\ Top' = Top
  BY DEF Active, Top
<1>2. \A f : IsBuilt(f)' <=> IsBuilt(f)
  BY DEF IsBuilt
<1>3. DeeperIsChain'
  BY DEF RecursionInv, DeeperIsChain
<1>4. NeverReentered'
  BY <1>2 DEF RecursionInv, NeverReentered
<1>5. ImportsAccounted'
  BY <1>1, <1>2 DEF RecursionInv, ImportsAccounted
<1>6. LacksOnlyActive'
  BY <1>1, <1>2 DEF RecursionInv, LacksOnlyActive
<1>7. QED
  BY <1>1, <1>3, <1>4, <1>5, <1>6 DEF RecursionInv

\* What a frame starts with.
LEMMA FrameStarts ==
  ASSUME TypeOK, NEW f \in Files, NEW v
  PROVE  /\ Frame(f, v).file = f /\ Frame(f, v).deeper = v \cup {f}
         /\ Pending(Frame(f, v)) = Imports(schema, f)
  BY DEF Frame, Pending, Imports

\* main() calls build_file.
LEMMA RecursionStarts ==
  ASSUME TypeOK, RecursionInv, OutputBuild
  PROVE  RecursionInv'
<1> DEFINE f  == Head(outputs)
           fr == Frame(f, {})
<1>1. f \in Files /\ IsSchema(schema)
  BY HeadTailProperties, SchemasAssumption DEF OutputBuild, TypeOK
<1>2. /\ stack' = <<fr>> /\ stack = <<>> /\ ~ IsBuilt(f)
      /\ UNCHANGED <<schema, built, phase>>
  BY DEF OutputBuild
<1>3. Len(stack') = 1 /\ stack'[1] = fr /\ (1 .. 1) = {1}
  BY <1>2
<1>4. fr.file = f /\ fr.deeper = {f} /\ Pending(fr) = Imports(schema, f)
  BY <1>1, FrameStarts
<1>5. \A g : IsBuilt(g)' <=> IsBuilt(g)
  BY <1>2 DEF IsBuilt
<1>6. Active = {}
  BY <1>2 DEF Active
<1> HIDE DEF f, fr
<1>7. DeeperIsChain'
  <2>1. {stack'[j].file : j \in 1 .. 1} = {f}
    BY <1>3, <1>4
  <2>2. f \in Visible(schema, f)
    BY <1>1, VisibleCloses
  <2>3. QED
    BY <1>2, <1>3, <1>4, <2>1, <2>2 DEF DeeperIsChain
<1>8. NeverReentered'
  BY <1>2, <1>3, <1>4, <1>5 DEF NeverReentered
<1>9. ImportsAccounted'
  BY <1>2, <1>3, <1>4 DEF ImportsAccounted
<1>10. LacksOnlyActive'
  BY <1>2, <1>5, <1>6 DEF RecursionInv, LacksOnlyActive
<1>11. phase' = "imports"
  BY <1>2 DEF TypeOK
<1>12. QED
  BY <1>7, <1>8, <1>9, <1>10, <1>11 DEF RecursionInv

\* The head of the loop is pending, and the rest stays so.
LEMMA PendingAdvances ==
  ASSUME TypeOK, ImportLoop
  PROVE  /\ [Top EXCEPT !.left = Tail(@)].file = Top.file
         /\ [Top EXCEPT !.left = Tail(@)].deeper = Top.deeper
         /\ NextImport \in Pending(Top)
         /\ Pending([Top EXCEPT !.left = Tail(@)]) \subseteq Pending(Top)
         /\ Pending(Top) \subseteq Pending([Top EXCEPT !.left = Tail(@)]) \cup {NextImport}
<1> DEFINE l == Top.left
           fr == [Top EXCEPT !.left = Tail(@)]
<1>1. Top \in Frames /\ l \in Seq(Files) /\ l # <<>>
  BY TopType DEF ImportLoop, Frames
<1>2. fr.file = Top.file /\ fr.deeper = Top.deeper /\ fr.left = Tail(l)
  BY <1>1 DEF Frames
<1>3. /\ Len(l) \in Nat \ {0} /\ Len(Tail(l)) = Len(l) - 1
      /\ \A i \in 1 .. Len(Tail(l)) : Tail(l)[i] = l[i + 1]
      /\ Head(l) = l[1]
  BY <1>1, HeadTailProperties, EmptySeq
<1> HIDE DEF fr, l
<1>4. \A i \in 1 .. Len(l) : i = 1 \/ (i - 1 \in 1 .. Len(Tail(l)) /\ Tail(l)[i - 1] = l[i])
  BY <1>3
<1>5. \A i \in 1 .. Len(Tail(l)) : i + 1 \in 1 .. Len(l)
  BY <1>3
<1>6. NextImport = l[1] /\ 1 \in 1 .. Len(l)
  BY <1>3 DEF NextImport, l
<1>7. Pending(Top) = {l[i] : i \in 1 .. Len(l)}
  BY DEF Pending, l
<1>8. Pending(fr) = {Tail(l)[i] : i \in 1 .. Len(Tail(l))}
  BY <1>2 DEF Pending
<1>9. NextImport \in Pending(Top)
  BY <1>6, <1>7
<1>10. Pending(fr) \subseteq Pending(Top)
  BY <1>3, <1>5, <1>7, <1>8
<1>11. \A i \in 1 .. Len(l) : l[i] \in Pending(fr) \cup {NextImport}
  BY <1>4, <1>6, <1>8
<1>12. Pending(Top) \subseteq Pending(fr) \cup {NextImport}
  BY <1>7, <1>11
<1>13. QED
  BY <1>2, <1>9, <1>10, <1>12 DEF fr

\* Moving on by one import changes no frame but for that import.
LEMMA AdvanceKeepsFrames ==
  ASSUME TypeOK, ImportLoop, NEW k \in 1 .. Len(stack)
  PROVE  /\ Advanced[k].file = stack[k].file /\ Advanced[k].deeper = stack[k].deeper
         /\ Pending(Advanced[k]) \subseteq Pending(stack[k])
         /\ Pending(stack[k]) \subseteq Pending(Advanced[k]) \cup {NextImport}
<1>1. CASE k = Len(stack)
  BY <1>1, StackAdvances, PendingAdvances DEF Top
<1>2. CASE k # Len(stack)
  BY <1>2, StackAdvances
<1>3. QED
  BY <1>1, <1>2

\* The innermost call's next import is one of its file's, and `deeper` is the
\* set of files being built.
LEMMA TopIsInChain ==
  ASSUME TypeOK, RecursionInv, ImportLoop
  PROVE  /\ Len(stack) \in 1 .. Len(stack) /\ Top.file \in Files
         /\ Top.deeper = Active
         /\ NextImport \in Imports(schema, Top.file)
<1>1. Len(stack) \in 1 .. Len(stack) /\ Top.file \in Files
  BY TopType DEF ImportLoop, Frames
<1>2. NextImport \in Pending(Top)
  BY PendingAdvances
<1>3. QED
  BY <1>1, <1>2 DEF RecursionInv, DeeperIsChain, Top, Active

\* build_file's loop passes over an import.
LEMMA RecursionSkips ==
  ASSUME TypeOK, RecursionInv, SkipImport
  PROVE  RecursionInv'
<1>1. /\ ImportLoop /\ (NextImport \in Top.deeper \/ IsBuilt(NextImport))
      /\ stack' = Advanced /\ UNCHANGED <<schema, built>> /\ phase' = "imports"
  BY DEF SkipImport, ImportLoop
<1>2. Len(stack') = Len(stack)
  BY <1>1, StackAdvances
<1>3. NextImport \in Active \/ IsBuilt(NextImport)
  BY <1>1, TopIsInChain
<1>4. \A k \in 1 .. Len(stack) :
        /\ stack'[k].file = stack[k].file /\ stack'[k].deeper = stack[k].deeper
        /\ Pending(stack'[k]) \subseteq Pending(stack[k])
        /\ Pending(stack[k]) \subseteq Pending(stack'[k]) \cup {NextImport}
  BY <1>1, AdvanceKeepsFrames
<1>5. \A g : IsBuilt(g)' <=> IsBuilt(g)
  BY <1>1 DEF IsBuilt
<1>6. Active' = Active
  BY <1>2, <1>4 DEF Active
<1>7. DeeperIsChain'
  <2>1. SUFFICES ASSUME NEW k \in 1 .. Len(stack')
                 PROVE  /\ stack'[k].deeper = {stack'[j].file : j \in 1 .. k}
                        /\ Pending(stack'[k]) \subseteq Imports(schema', stack'[k].file)
                        /\ \A j \in 1 .. k : stack'[k].file \in Visible(schema', stack'[j].file)
    BY DEF DeeperIsChain
  <2>2. k \in 1 .. Len(stack) /\ 1 .. k \subseteq 1 .. Len(stack)
    BY <1>1, <1>2, TopIsInChain
  <2>3. {stack'[j].file : j \in 1 .. k} = {stack[j].file : j \in 1 .. k}
    BY <1>4, <2>2
  <2>4. QED
    BY <1>1, <1>4, <2>2, <2>3 DEF RecursionInv, DeeperIsChain
<1>8. NeverReentered'
  BY <1>2, <1>4, <1>5 DEF RecursionInv, NeverReentered
<1>9. ImportsAccounted'
  <2>1. SUFFICES ASSUME NEW k \in 1 .. Len(stack')
                 PROVE  \A g \in Imports(schema', stack'[k].file) :
                          g \in Pending(stack'[k]) \/ IsBuilt(g)' \/ g \in Active'
    BY DEF ImportsAccounted
  <2>2. TAKE g \in Imports(schema', stack'[k].file)
  <2>3. g \in Imports(schema, stack[k].file) /\ k \in 1 .. Len(stack)
    BY <1>1, <1>2, <1>4
  <2>4. g \in Pending(stack[k]) \/ IsBuilt(g) \/ g \in Active
    BY <2>3 DEF RecursionInv, ImportsAccounted
  <2>5. QED
    BY <1>3, <1>4, <1>5, <1>6, <2>3, <2>4
<1>10. LacksOnlyActive'
  BY <1>1, <1>5, <1>6 DEF RecursionInv, LacksOnlyActive
<1>11. QED
  BY <1>1, <1>7, <1>8, <1>9, <1>10 DEF RecursionInv

\* build_file calls itself on an import.
LEMMA RecursionDescends ==
  ASSUME TypeOK, RecursionInv, EnterImport
  PROVE  RecursionInv'
<1> DEFINE n  == Len(stack)
           fr == Frame(NextImport, Top.deeper)
<1>1. /\ ImportLoop /\ NextImport \notin Top.deeper /\ ~ IsBuilt(NextImport)
      /\ stack' = Append(Advanced, fr) /\ UNCHANGED <<schema, built>> /\ phase' = "imports"
  BY DEF EnterImport, ImportLoop
<1>2. /\ IsSchema(schema) /\ NextImport \in Files /\ Top.deeper \subseteq Files
      /\ Top.deeper = Active /\ NextImport \in Imports(schema, Top.file)
      /\ n \in Nat \ {0} /\ n \in 1 .. n
  BY <1>1, SchemasAssumption, StackAdvances, TopType, TopIsInChain DEF TypeOK, ImportLoop, Frames
<1>3. /\ fr \in Frames /\ fr.file = NextImport /\ fr.deeper = Active \cup {NextImport}
      /\ Pending(fr) = Imports(schema, NextImport)
  BY <1>1, <1>2, FrameType, FrameStarts DEF TypeOK
<1>4. Len(stack') = n + 1 /\ stack'[n + 1] = fr
  BY <1>1, <1>3, StackPushes
<1>5. \A k \in 1 .. n : stack'[k] = Advanced[k]
  BY <1>1, <1>3, StackPushes, StackAdvances
<1>6. \A k \in 1 .. n :
        /\ stack'[k].file = stack[k].file /\ stack'[k].deeper = stack[k].deeper
        /\ Pending(stack'[k]) \subseteq Pending(stack[k])
        /\ Pending(stack[k]) \subseteq Pending(stack'[k]) \cup {NextImport}
  BY <1>1, <1>5, AdvanceKeepsFrames
<1>7. \A g : IsBuilt(g)' <=> IsBuilt(g)
  BY <1>1 DEF IsBuilt
<1> HIDE DEF n, fr
<1>8. \A k \in 1 .. Len(stack') : k \in 1 .. n \/ k = n + 1
  BY <1>2, <1>4
<1>9. 1 .. n + 1 = (1 .. n) \cup {n + 1}
  BY <1>2
<1>10. Active = {stack[k].file : k \in 1 .. n}
  BY DEF Active, n
<1>11. Active' = Active \cup {NextImport}
  <2>1. Active' = {stack'[k].file : k \in (1 .. n) \cup {n + 1}}
    BY <1>4, <1>9 DEF Active
  <2>2. {stack'[k].file : k \in 1 .. n} = Active
    BY <1>6, <1>10
  <2>3. stack'[n + 1].file = NextImport
    BY <1>3, <1>4
  <2>4. QED
    BY <2>1, <2>2, <2>3
<1>12. DeeperIsChain'
  <2>1. ASSUME NEW k \in 1 .. n
        PROVE  /\ stack'[k].deeper = {stack'[j].file : j \in 1 .. k}
               /\ Pending(stack'[k]) \subseteq Imports(schema', stack'[k].file)
               /\ \A j \in 1 .. k : stack'[k].file \in Visible(schema', stack'[j].file)
    <3>1. 1 .. k \subseteq 1 .. n
      BY <1>2
    <3>2. {stack'[j].file : j \in 1 .. k} = {stack[j].file : j \in 1 .. k}
      BY <1>6, <3>1
    <3>3. QED
      BY <1>1, <1>6, <3>1, <3>2 DEF RecursionInv, DeeperIsChain, n
  <2>2. stack'[n + 1].deeper = {stack'[j].file : j \in 1 .. n + 1}
    BY <1>3, <1>4, <1>6, <1>9, <1>10
  <2>3. Pending(stack'[n + 1]) \subseteq Imports(schema', stack'[n + 1].file)
    BY <1>1, <1>3, <1>4
  <2>4. ASSUME NEW j \in 1 .. n + 1
        PROVE  NextImport \in Visible(schema, stack'[j].file)
    <3>1. CASE j = n + 1
      BY <1>2, <1>3, <1>4, <3>1, VisibleCloses
    <3>2. CASE j \in 1 .. n
      <4>1. Top.file \in Visible(schema, stack[j].file) /\ stack[j].file \in Files
        BY <1>2, <3>2, FramesHaveFiles DEF RecursionInv, DeeperIsChain, Top, n
      <4>2. QED
        BY <1>2, <1>6, <3>2, <4>1, VisibleCloses
    <3>3. QED
      BY <1>9, <3>1, <3>2
  <2>5. QED
    BY <1>1, <1>3, <1>4, <1>8, <2>1, <2>2, <2>3, <2>4 DEF DeeperIsChain
<1>13. NeverReentered'
  <2>1. \A k \in 1 .. n : stack'[k].file = stack[k].file /\ stack[k].file # NextImport
    BY <1>1, <1>2, <1>6, <1>10
  <2>2. \A j, k \in 1 .. n : ~ IsBuilt(stack[k].file) /\ (j # k => stack[j].file # stack[k].file)
    BY DEF RecursionInv, NeverReentered, n
  <2>3. QED
    BY <1>1, <1>3, <1>4, <1>7, <1>8, <2>1, <2>2 DEF NeverReentered
<1>14. ImportsAccounted'
  <2>1. SUFFICES ASSUME NEW k \in 1 .. Len(stack')
                 PROVE  \A g \in Imports(schema', stack'[k].file) :
                          g \in Pending(stack'[k]) \/ IsBuilt(g)' \/ g \in Active'
    BY DEF ImportsAccounted
  <2>2. TAKE g \in Imports(schema', stack'[k].file)
  <2>3. CASE k = n + 1
    BY <1>1, <1>3, <1>4, <2>2, <2>3
  <2>4. CASE k \in 1 .. n
    <3>1. g \in Pending(stack[k]) \/ IsBuilt(g) \/ g \in Active
      BY <1>1, <1>6, <2>2, <2>4 DEF RecursionInv, ImportsAccounted, n
    <3>2. QED
      BY <1>6, <1>7, <1>11, <2>4, <3>1
  <2>5. QED
    BY <1>8, <2>1, <2>3, <2>4
<1>15. LacksOnlyActive'
  BY <1>1, <1>7, <1>11 DEF RecursionInv, LacksOnlyActive
<1>16. QED
  BY <1>1, <1>12, <1>13, <1>14, <1>15 DEF RecursionInv

\* build_file memoises a file and returns.
LEMMA RecursionReturns ==
  ASSUME TypeOK, RecursionInv, Seal
  PROVE  RecursionInv'
<1>1. /\ stack # <<>> /\ Top.left = <<>>
      /\ stack' = Popped /\ UNCHANGED schema /\ phase' = "imports"
  BY DEF Seal, TypeOK, RecursionInv, Popped
<1>2. PICK n \in Nat : Len(stack) = n + 1 /\ n = Len(stack) - 1
  <2>1. Len(stack) \in Nat \ {0}
    BY <1>1, TopType
  <2>2. QED
    BY <2>1
<1>3. /\ Len(stack') = n /\ \A k \in 1 .. n : stack'[k] = stack[k]
      /\ 1 .. n + 1 = (1 .. n) \cup {n + 1} /\ n + 1 \notin 1 .. n
  BY <1>1, <1>2, StackPops
<1>4. Top = stack[n + 1] /\ Top.file \in Files
  <2>1. Top \in Frames
    BY <1>1, TopType
  <2>2. QED
    BY <1>2, <2>1 DEF Top, Frames
<1>5. \A g \in Files : IsBuilt(g)' <=> (IsBuilt(g) \/ g = Top.file)
  BY <1>4 DEF Seal, IsBuilt, Unbuilt, TypeOK
<1>6. Active = Active' \cup {Top.file}
  BY <1>2, <1>3, <1>4 DEF Active
<1>7. \A k \in 1 .. n : stack[k].file \in Files
  <2>1. \A k \in 1 .. n : k \in 1 .. Len(stack)
    BY <1>2
  <2>2. QED
    BY <2>1, FramesHaveFiles
<1>8. DeeperIsChain'
  <2>1. SUFFICES ASSUME NEW k \in 1 .. Len(stack')
                 PROVE  /\ stack'[k].deeper = {stack'[j].file : j \in 1 .. k}
                        /\ Pending(stack'[k]) \subseteq Imports(schema', stack'[k].file)
                        /\ \A j \in 1 .. k : stack'[k].file \in Visible(schema', stack'[j].file)
    BY DEF DeeperIsChain
  <2>2. k \in 1 .. n /\ k \in 1 .. Len(stack) /\ 1 .. k \subseteq 1 .. n
    BY <1>2, <1>3
  <2>3. {stack'[j].file : j \in 1 .. k} = {stack[j].file : j \in 1 .. k}
    BY <1>3, <2>2
  <2>4. QED
    BY <1>1, <1>3, <2>2, <2>3 DEF RecursionInv, DeeperIsChain
<1>9. NeverReentered'
  <2>1. \A j, k \in 1 .. n + 1 :
          ~ IsBuilt(stack[k].file) /\ (j # k => stack[j].file # stack[k].file)
    BY <1>2 DEF RecursionInv, NeverReentered
  <2>2. \A k \in 1 .. n : stack[k].file # Top.file
    BY <1>3, <1>4, <2>1
  <2>3. QED
    BY <1>3, <1>5, <1>7, <2>1, <2>2 DEF NeverReentered
<1>10. ASSUME NEW f \in Files, NEW g \in Imports(schema, f), IsBuilt(g) \/ g \in Active
       PROVE  IsBuilt(g)' \/ g \in Active'
  BY <1>5, <1>6, <1>10, SchemasAssumption, ImportsAreFiles DEF TypeOK
<1>11. ImportsAccounted'
  <2>1. SUFFICES ASSUME NEW k \in 1 .. Len(stack')
                 PROVE  \A g \in Imports(schema', stack'[k].file) :
                          g \in Pending(stack'[k]) \/ IsBuilt(g)' \/ g \in Active'
    BY DEF ImportsAccounted
  <2>2. TAKE g \in Imports(schema', stack'[k].file)
  <2>3. /\ k \in 1 .. n /\ k \in 1 .. Len(stack) /\ stack'[k] = stack[k]
        /\ g \in Imports(schema, stack[k].file)
    BY <1>1, <1>2, <1>3
  <2>4. g \in Pending(stack[k]) \/ IsBuilt(g) \/ g \in Active
    BY <2>3 DEF RecursionInv, ImportsAccounted
  <2>5. QED
    BY <1>7, <1>10, <2>3, <2>4
<1>12. LacksOnlyActive'
  <2>1. \A g \in Imports(schema, Top.file) : IsBuilt(g) \/ g \in Active
    <3>1. Pending(Top) = {}
      BY <1>1 DEF Pending
    <3>2. n + 1 \in 1 .. Len(stack)
      BY <1>2
    <3>3. QED
      BY <1>4, <3>1, <3>2 DEF RecursionInv, ImportsAccounted
  <2>2. \A f \in Files : IsBuilt(f) => \A g \in Imports(schema, f) : IsBuilt(g) \/ g \in Active
    BY DEF RecursionInv, LacksOnlyActive
  <2>3. QED
    BY <1>1, <1>4, <1>5, <1>10, <2>1, <2>2 DEF LacksOnlyActive
<1>13. QED
  BY <1>1, <1>8, <1>9, <1>11, <1>12 DEF RecursionInv

\* Every step keeps the recursion in order.
LEMMA RecursionStep == TypeOK /\ RecursionInv /\ [Next]_vars => RecursionInv'
<1> SUFFICES ASSUME TypeOK, RecursionInv, [Next]_vars
             PROVE  RecursionInv'
  OBVIOUS
<1>1. CASE OutputBuild
  BY <1>1, RecursionStarts
<1>2. CASE SkipImport
  BY <1>2, RecursionSkips
<1>3. CASE EnterImport
  BY <1>3, RecursionDescends
<1>4. CASE Seal
  BY <1>4, RecursionReturns
<1>5. ASSUME OutputFromMemo \/ Done \/ UNCHANGED vars
      PROVE  RecursionInv'
  BY <1>5, RecursionUnmoved DEF OutputFromMemo, Done, vars, locals, RecursionInv
<1>6. CASE Classify
  BY <1>6, RecursionUnmoved DEF Classify
<1>7. ASSUME NEW t \in Types, Spread(t)
      PROVE  RecursionInv'
  BY <1>7, RecursionUnmoved DEF Spread, RecursionInv
<1>8. CASE LayOut
  BY <1>8, RecursionUnmoved DEF LayOut, RecursionInv
<1>9. ASSUME NEW t \in Types, PlanType(t)
      PROVE  RecursionInv'
  BY <1>9, RecursionUnmoved DEF PlanType, RecursionInv
<1>10. ASSUME NEW s \in Versions, SkipAbsent(s) \/ Define(s) \/ Share(s)
       PROVE  RecursionInv'
  BY <1>10, RecursionUnmoved DEF SkipAbsent, Define, Share, InnerLoop, RecursionInv
<1> QED
  BY <1>1, <1>2, <1>3, <1>4, <1>5, <1>6, <1>7, <1>8, <1>9, <1>10 DEF Next

\* The recursion stays in order: on any import graph, cycles included, no call
\* loses an import and a built file lacks only what is still being built.
THEOREM RecursionInOrder == Spec => []RecursionInv
<1>1. Init => RecursionInv
  <2> SUFFICES ASSUME Init PROVE RecursionInv
    OBVIOUS
  <2>1. Len(stack) = 0 /\ (1 .. 0) = {}
    BY DEF Init
  <2>2. \A f \in Files : ~ IsBuilt(f)
    BY DEF Init, IsBuilt
  <2>3. QED
    BY <2>1, <2>2 DEF Init, RecursionInv, DeeperIsChain, NeverReentered, ImportsAccounted, LacksOnlyActive
<1>2. TypeOK /\ RecursionInv /\ [Next]_vars => RecursionInv'
  BY RecursionStep
<1>3. QED
  BY <1>1, <1>2, TypeCorrect, PTL DEF Spec

\* No file is built within its own build, or after it has been built: the
\* depth of build_file's recursion is bounded by the number of files.
THEOREM RecursionBounded == Spec => []NeverReentered
<1>1. RecursionInv => NeverReentered
  BY DEF RecursionInv
<1>2. QED
  BY <1>1, RecursionInOrder, PTL

\* Between two outputs the pool holds every import of every file it holds.
THEOREM LookupsFind == Spec => []ImportsResolved
<1>1. RecursionInv => ImportsResolved
  BY DEF RecursionInv, LacksOnlyActive, Active, ImportsResolved
<1>2. QED
  BY <1>1, RecursionInOrder, PTL

\* A file's descriptor is written once.
THEOREM MemoIsFinal == Spec => BuiltOnce
<1>1. TypeOK /\ RecursionInv /\ [Next]_vars => [\A f \in Files : IsBuilt(f) => built'[f] = built[f]]_vars
  <2> SUFFICES ASSUME TypeOK, RecursionInv, Next, NEW f \in Files, IsBuilt(f)
               PROVE  built'[f] = built[f]
    OBVIOUS
  <2>1. CASE Seal
    <3>1. stack # <<>>
      BY <2>1 DEF Seal, TypeOK
    <3>2. Len(stack) \in 1 .. Len(stack)
      BY <3>1, TopType
    <3>3. f # Top.file
      BY <3>2 DEF RecursionInv, NeverReentered, Top
    <3>4. QED
      BY <2>1, <3>3 DEF Seal, TypeOK
  <2>2. CASE ~ Seal
    BY <2>2 DEF Next, OutputFromMemo, OutputBuild, SkipImport, EnterImport, Classify, Spread,
                LayOut, PlanType, SkipAbsent, Define, Share, InnerLoop, Done, vars
  <2>3. QED
    BY <2>1, <2>2
<1>2. QED
  BY <1>1, TypeCorrect, RecursionInOrder, PTL DEF Spec, BuiltOnce

\* Where imports form no cycle, the promise find_file_by_name documents holds:
\* a file is classified and planned after all of its imports are built.
THEOREM ImportsFirstWhenAcyclic ==
  ASSUME \A sch \in Schemas : Acyclic(sch)
  PROVE  Spec => []ImportsBuiltFirst
<1>1. TypeOK /\ RecursionInv => ImportsBuiltFirst
  <2> SUFFICES ASSUME TypeOK, RecursionInv, phase # "imports", NEW g \in Imports(schema, Top.file)
               PROVE  IsBuilt(g)
    BY DEF ImportsBuiltFirst
  <2>1. stack # <<>> /\ Len(stack) \in 1 .. Len(stack) /\ Top.file \in Files
    BY TopType DEF TypeOK, Frames
  <2>2. Pending(Top) = {}
    BY DEF RecursionInv, Pending
  <2>3. IsBuilt(g) \/ g \in Active
    BY <2>1, <2>2 DEF RecursionInv, ImportsAccounted, Top
  <2>4. ASSUME NEW j \in 1 .. Len(stack), g = stack[j].file
        PROVE  FALSE
    <3>1. Top.file \in Visible(schema, g)
      BY <2>1, <2>4 DEF RecursionInv, DeeperIsChain, Top
    <3>2. Acyclic(schema)
      BY DEF TypeOK
    <3>3. QED
      BY <2>1, <3>1, <3>2 DEF Acyclic
  <2>5. QED
    BY <2>3, <2>4 DEF Active
<1>2. QED
  BY <1>1, TypeCorrect, RecursionInOrder, PTL

-----------------------------------------------------------------------------
(* The classification.                                                     *)

\* Moving is itself closed: it is the least closed set.
LEMMA MovingCloses ==
  ASSUME NEW sch
  PROVE  ReferenceClosed(sch, Moving(sch))
<1>1. ASSUME NEW t \in Types, ChangePoints(sch, t) # {}
      PROVE  t \in Moving(sch)
  BY <1>1 DEF Moving, ReferenceClosed
<1>2. ASSUME NEW t \in Types, References(sch, t) \cap Moving(sch) # {}
      PROVE  t \in Moving(sch)
  <2>1. PICK r \in References(sch, t) : r \in Moving(sch)
    BY <1>2
  <2>2. ASSUME NEW S \in SUBSET Types, ReferenceClosed(sch, S)
        PROVE  t \in S
    <3>1. r \in S
      BY <2>1, <2>2 DEF Moving
    <3>2. QED
      BY <2>1, <2>2, <3>1 DEF ReferenceClosed
  <2>3. QED
    BY <2>2 DEF Moving
<1>3. QED
  BY <1>1, <1>2 DEF ReferenceClosed

\* No file splits a type whose definition never moves.
THEOREM SplitsOnlyMoving == Spec => []NothingSplitInVain
<1>1. Init => NothingSplitInVain
  BY DEF Init, NothingSplitInVain, IsBuilt
<1>2. TypeOK /\ NothingSplitInVain /\ [Next]_vars => NothingSplitInVain'
  <2> SUFFICES ASSUME TypeOK, NothingSplitInVain, [Next]_vars
               PROVE  NothingSplitInVain'
    OBVIOUS
  <2>1. ReferenceClosed(schema, Moving(schema))
    BY MovingCloses
  <2>2. CASE Classify
    <3>1. Top.file \in Files /\ IsSchema(schema)
      BY <2>2, TopType, SchemasAssumption DEF Classify, TypeOK, Frames
    <3>2. \A g \in BuiltImports(Top.file) : built[g].versioned \subseteq Moving(schema)
      BY <3>1, ImportsAreFiles DEF BuiltImports, NothingSplitInVain
    <3>3. {t \in Owned(schema, Top.file) : ChangePoints(schema, t) # {}} \subseteq Moving(schema)
      BY <2>1 DEF ReferenceClosed, Owned
    <3>4. QED
      BY <2>2, <3>2, <3>3 DEF Classify, NothingSplitInVain, IsBuilt
  <2>3. ASSUME NEW t \in Types, Spread(t)
        PROVE  NothingSplitInVain'
    <3>1. References(schema, t) \cap Moving(schema) # {}
      BY <2>3 DEF Spread, CanSpread, NothingSplitInVain
    <3>2. t \in Moving(schema)
      BY <2>1, <3>1 DEF ReferenceClosed
    <3>3. QED
      BY <2>3, <3>2 DEF Spread, NothingSplitInVain, IsBuilt
  <2>4. CASE Seal
    <3>1. \A f \in Files : IsBuilt(f)' => built'[f].versioned \subseteq Moving(schema)
      BY <2>4 DEF Seal, NothingSplitInVain, TypeOK, IsBuilt
    <3>2. versioned' = {} /\ schema' = schema
      BY <2>4 DEF Seal
    <3>3. QED
      BY <3>1, <3>2 DEF NothingSplitInVain
  <2>5. CASE UNCHANGED <<schema, built, versioned>>
    BY <2>5 DEF NothingSplitInVain, IsBuilt
  <2>6. QED
    BY <2>2, <2>3, <2>4, <2>5
       DEF Next, OutputFromMemo, OutputBuild, SkipImport, EnterImport, LayOut, PlanType,
           SkipAbsent, Define, Share, InnerLoop, Done, vars, locals
<1>3. QED
  BY <1>1, <1>2, TypeCorrect, PTL DEF Spec

\* The closure the classification establishes is enough: where every import is
\* built and holds its imports' sets, a set closed file by file is closed.
LEMMA ClosedFileByFile ==
  ASSUME TypeOK, ClassificationInv, RefsVisible(schema)
  PROVE  SplitsAllMoving
<1> DEFINE S == {t \in Types : IsBuilt(Home(schema, t)) => t \in built[Home(schema, t)].versioned}
<1>1. IsSchema(schema)
  BY SchemasAssumption DEF TypeOK
<1>2. ReferenceClosed(schema, S)
  <2>1. ASSUME NEW t \in Types, ChangePoints(schema, t) # {}
        PROVE  t \in S
    BY <1>1, <2>1 DEF ClassificationInv, ClosedAt, Owned, Home, IsSchema
  <2>2. ASSUME NEW t \in Types, References(schema, t) \cap S # {}
        PROVE  t \in S
    <3> DEFINE f == Home(schema, t)
               G == {g \in Files : IsBuilt(g) /\ built[g].versioned \subseteq built[f].versioned}
    <3>1. SUFFICES ASSUME IsBuilt(f) PROVE t \in built[f].versioned
      OBVIOUS
    <3>2. PICK r \in References(schema, t) : r \in S
      BY <2>2
    <3>3. f \in Files
      BY <1>1 DEF Home, IsSchema
    <3>4. \A g \in G : Imports(schema, g) \subseteq G
      BY <1>1, ImportsAreFiles DEF ClassificationInv
    <3>5. f \in G /\ ImportClosed(schema, G)
      BY <3>1, <3>3, <3>4 DEF ImportClosed
    <3>6. Home(schema, r) \in Visible(schema, f)
      BY <3>2 DEF RefsVisible
    <3>7. Home(schema, r) \in G
      BY <3>5, <3>6 DEF Visible
    <3>8. r \in built[f].versioned
      BY <3>2, <3>7
    <3>9. ClosedAt(f, built[f].versioned) /\ t \in Owned(schema, f)
      BY <3>1, <3>3 DEF ClassificationInv, Owned
    <3>10. QED
      BY <3>2, <3>8, <3>9 DEF ClosedAt
  <2>3. QED
    BY <2>1, <2>2 DEF ReferenceClosed
<1>3. Moving(schema) \subseteq S
  BY <1>2 DEF Moving
<1>4. QED
  BY <1>3 DEF SplitsAllMoving, Owned

\* A step that leaves the memo, the calls and the classification alone.
LEMMA ClassificationUnmoved ==
  ASSUME ClassificationInv, UNCHANGED <<schema, built, stack, versioned, phase>>
  PROVE  ClassificationInv'
  BY DEF ClassificationInv, ClosedAt, BuiltImports, Top, IsBuilt

\* Every step keeps the classification closed.
LEMMA ClassificationStep ==
  ASSUME TypeOK, RecursionInv, ImportsBuiltFirst, ClassificationInv, [Next]_vars
  PROVE  ClassificationInv'
<1> DEFINE Memo ==
      \A f \in Files : IsBuilt(f) =>
        /\ ClosedAt(f, built[f].versioned)
        /\ \A g \in Imports(schema, f) :
             IsBuilt(g) /\ built[g].versioned \subseteq built[f].versioned
<1>0. Memo
  BY DEF ClassificationInv
<1>1. UNCHANGED <<schema, built>> => Memo'
  BY <1>0 DEF ClosedAt, IsBuilt
<1>2. ASSUME phase' = "imports", Memo'
      PROVE  ClassificationInv'
  BY <1>2 DEF ClassificationInv
<1>3. ASSUME OutputBuild \/ SkipImport \/ EnterImport
      PROVE  ClassificationInv'
  <2>1. phase' = "imports" /\ UNCHANGED <<schema, built>>
    BY <1>3 DEF OutputBuild, SkipImport, EnterImport, ImportLoop, TypeOK
  <2>2. QED
    BY <1>1, <1>2, <2>1
<1>4. CASE Classify
  <2>1. UNCHANGED <<schema, built, stack>> /\ Top' = Top /\ phase' = "classify"
    BY <1>4 DEF Classify, Top
  <2>2. BuiltImports(Top.file)' = BuiltImports(Top.file)
    BY <2>1 DEF BuiltImports, IsBuilt
  <2>3. /\ \A t \in Owned(schema, Top.file) : ChangePoints(schema, t) # {} => t \in versioned'
        /\ \A g \in BuiltImports(Top.file) : built[g].versioned \subseteq versioned'
    BY <1>4 DEF Classify
  <2>4. QED
    BY <1>1, <2>1, <2>2, <2>3 DEF ClassificationInv
<1>5. ASSUME NEW t \in Types, Spread(t)
      PROVE  ClassificationInv'
  <2>1. UNCHANGED <<schema, built, stack>> /\ Top' = Top /\ phase' = "classify"
    BY <1>5 DEF Spread, Top
  <2>2. BuiltImports(Top.file)' = BuiltImports(Top.file)
    BY <2>1 DEF BuiltImports, IsBuilt
  <2>3. versioned \subseteq versioned' /\ phase # "imports"
    BY <1>5 DEF Spread
  <2>4. QED
    BY <1>1, <2>1, <2>2, <2>3 DEF ClassificationInv
<1>6. CASE LayOut
  <2>1. UNCHANGED <<schema, built, stack, versioned>> /\ Top' = Top /\ phase' = "plan"
    BY <1>6 DEF LayOut, Top
  <2>2. BuiltImports(Top.file)' = BuiltImports(Top.file)
    BY <2>1 DEF BuiltImports, IsBuilt
  <2>3. /\ \A t \in Owned(schema, Top.file) : ChangePoints(schema, t) # {} => t \in versioned
        /\ \A g \in BuiltImports(Top.file) : built[g].versioned \subseteq versioned
    BY <1>6 DEF LayOut, ClassificationInv
  <2>4. ClosedAt(Top.file, versioned)
    BY <1>6, <2>3 DEF LayOut, CanSpread, ClosedAt, Owned
  <2>5. ClosedAt(Top.file, versioned)'
    BY <2>1, <2>4 DEF ClosedAt
  <2>6. QED
    BY <1>1, <2>1, <2>2, <2>3, <2>5 DEF ClassificationInv
<1>7. ASSUME NEW t \in Types, PlanType(t)
      PROVE  ClassificationInv'
  BY <1>7, ClassificationUnmoved DEF PlanType
<1>8. ASSUME NEW s \in Versions, SkipAbsent(s) \/ Define(s) \/ Share(s)
      PROVE  ClassificationInv'
  BY <1>8, ClassificationUnmoved DEF SkipAbsent, Define, Share, InnerLoop
<1>9. CASE Seal
  <2>0. stack # <<>> /\ phase = "plan"
    BY <1>9 DEF Seal, TypeOK
  <2>1. PICK f \in Files : f = Top.file /\ ~ IsBuilt(f)
    <3>1. Len(stack) \in 1 .. Len(stack) /\ Top.file \in Files
      BY <2>0, TopType DEF Frames
    <3>2. ~ IsBuilt(Top.file)
      BY <3>1 DEF RecursionInv, NeverReentered, Top
    <3>3. QED
      BY <3>1, <3>2
  <2>2. /\ schema' = schema /\ phase' = "imports"
        /\ \A g \in Files : g # f => built'[g] = built[g]
        /\ IsBuilt(f)' /\ built'[f].versioned = versioned
    <3>1. /\ schema' = schema /\ phase' = "imports"
          /\ \A g \in Files : g # f => built'[g] = built[g]
          /\ built'[f] = [status |-> "built", versioned |-> versioned, points |-> points,
                          views |-> views, known |-> KnownEnums(f)]
      BY <1>9, <2>1 DEF Seal, TypeOK
    <3>2. built'[f].status = "built" /\ built'[f].versioned = versioned /\ Unbuilt.status = "unbuilt"
      BY <3>1 DEF Unbuilt
    <3>3. QED
      BY <3>1, <3>2 DEF IsBuilt
  <2>3. \A g \in Imports(schema, f) : IsBuilt(g) /\ g # f /\ g \in Files
    BY <2>0, <2>1, ImportsAreFiles, SchemasAssumption DEF ImportsBuiltFirst, TypeOK
  <2>4. \A g \in Imports(schema, f) : built[g].versioned \subseteq versioned
    BY <2>0, <2>1, <2>3 DEF ClassificationInv, BuiltImports
  <2>5. ClosedAt(f, versioned)
    BY <2>0, <2>1 DEF ClassificationInv
  <2>6. ASSUME NEW h \in Files, IsBuilt(h)', NEW g \in Imports(schema, h), h # f
        PROVE  g \in Files /\ g # f /\ IsBuilt(g) /\ built[g].versioned \subseteq built[h].versioned
    <3>1. IsBuilt(h)
      BY <2>2, <2>6 DEF IsBuilt
    <3>2. QED
      BY <1>0, <2>1, <2>6, <3>1, ImportsAreFiles, SchemasAssumption DEF TypeOK
  <2>7. ASSUME NEW h \in Files, IsBuilt(h)'
        PROVE  ClosedAt(h, built[h].versioned)'
    <3>1. CASE h = f
      BY <2>2, <2>5, <3>1 DEF ClosedAt
    <3>2. CASE h # f
      <4>1. ClosedAt(h, built[h].versioned)
        BY <1>0, <2>2, <2>7, <3>2 DEF IsBuilt
      <4>2. QED
        BY <2>2, <3>2, <4>1 DEF ClosedAt
    <3>3. QED
      BY <3>1, <3>2
  <2>8. ASSUME NEW h \in Files, IsBuilt(h)', NEW g \in Imports(schema, h)
        PROVE  IsBuilt(g)' /\ built'[g].versioned \subseteq built'[h].versioned
    <3>1. CASE h = f
      BY <2>2, <2>3, <2>4, <3>1 DEF IsBuilt
    <3>2. CASE h # f
      BY <2>2, <2>6, <2>8, <3>2 DEF IsBuilt
    <3>3. QED
      BY <3>1, <3>2
  <2>9. Memo'
    BY <2>2, <2>7, <2>8
  <2>10. QED
    BY <1>2, <2>2, <2>9
<1>10. ASSUME OutputFromMemo \/ Done \/ UNCHANGED vars
       PROVE  ClassificationInv'
  BY <1>10, ClassificationUnmoved DEF OutputFromMemo, Done, vars, locals
<1> QED
  BY <1>3, <1>4, <1>5, <1>6, <1>7, <1>8, <1>9, <1>10 DEF Next

\* Where imports form no cycle, each built file's set of split types is closed
\* under the file's own references and holds the sets of its imports, although
\* each file is classified once and never looked at again (_versioned_types).
THEOREM ClassifiedFileByFile ==
  ASSUME \A sch \in Schemas : Acyclic(sch)
  PROVE  Spec => []ClassificationInv
<1>1. Spec => []ImportsBuiltFirst
  BY ImportsFirstWhenAcyclic
<1>2. Init => ClassificationInv
  BY DEF Init, ClassificationInv, IsBuilt
<1>3. TypeOK /\ RecursionInv /\ ImportsBuiltFirst /\ ClassificationInv /\ [Next]_vars => ClassificationInv'
  BY ClassificationStep
<1>4. QED
  BY <1>1, <1>2, <1>3, TypeCorrect, RecursionInOrder, PTL DEF Spec

\* Where imports form no cycle and every name is imported, every type whose
\* definition moves is split, through any chain of references over any number
\* of files.  With SplitsOnlyMoving: exactly those types are.
THEOREM SplitsEveryMoving ==
  ASSUME \A sch \in Schemas : Acyclic(sch) /\ RefsVisible(sch)
  PROVE  Spec => []SplitsAllMoving
<1>1. Spec => []ClassificationInv
  BY ClassifiedFileByFile
<1>2. TypeOK /\ ClassificationInv => SplitsAllMoving
  BY ClosedFileByFile DEF TypeOK
<1>3. QED
  BY <1>1, <1>2, TypeCorrect, PTL

-----------------------------------------------------------------------------
(* The plan.                                                               *)

\* What a build sees of its imports does not change while it plans.
LEMMA ImportedStable ==
  ASSUME UNCHANGED <<schema, built, stack>>, NEW d, NEW q
  PROVE  /\ Top' = Top
         /\ KnownEnums(Top.file)' = KnownEnums(Top.file)
         /\ ImportedConcrete(d, q)' = ImportedConcrete(d, q)
<1>1. Top' = Top
  BY DEF Top
<1>2. \A f : IsBuilt(f)' <=> IsBuilt(f)
  BY DEF IsBuilt
<1>3. \A f : BuiltImports(f)' = BuiltImports(f)
  BY <1>2 DEF BuiltImports
<1>4. \A f : BuiltVisible(f)' = BuiltVisible(f)
  BY <1>2, <1>3 DEF BuiltVisible
<1>5. \A g : Covering(g, d, q)' = Covering(g, d, q)
  BY DEF Covering
<1>6. KnownEnums(Top.file)' = KnownEnums(Top.file)
  BY <1>1, <1>3 DEF KnownEnums
<1>7. ImportedConcrete(d, q)' = ImportedConcrete(d, q)
  BY <1>1, <1>2, <1>4, <1>5 DEF ImportedConcrete
<1>8. QED
  BY <1>1, <1>6, <1>7

\* ... nor what it sees of a type of its own that it has planned.
LEMMA DepStable ==
  ASSUME UNCHANGED <<schema, built, stack>>, NEW d, NEW q,
         d \in DOMAIN views <=> d \in DOMAIN views',
         d \in DOMAIN views => views'[d] = views[d]
  PROVE  DepConcrete(d, q)' = DepConcrete(d, q)
  BY ImportedStable DEF DepConcrete

\* Recording a snapshot of the type being planned changes nothing else.
LEMMA RecordOne ==
  ASSUME TypeOK, planning \in DOMAIN views, NEW s, NEW c, Record(s, c)
  PROVE  /\ DOMAIN views' = DOMAIN views
         /\ \A t \in DOMAIN views : t # planning => views'[t] = views[t]
         /\ DOMAIN views'[planning] = DOMAIN views[planning] \cup {s}
         /\ \A q \in DOMAIN views[planning] : q # s => views'[planning][q] = views[planning][q]
         /\ views'[planning][s] = c
  BY DEF Record

\* A step that leaves the plan, the memo and the calls alone.
LEMMA PlanUnmoved ==
  ASSUME PlanInv, UNCHANGED <<schema, built, stack, phase, versioned, views, planning>>,
         remaining' \subseteq remaining
  PROVE  PlanInv'
<1>1. \A d, q : DepConcrete(d, q)' = DepConcrete(d, q)
  BY DepStable
<1>2. Top' = Top /\ KnownEnums(Top.file)' = KnownEnums(Top.file)
  BY ImportedStable
<1>3. \A f : IsBuilt(f)' <=> IsBuilt(f)
  BY DEF IsBuilt
<1>4. \A t : Deps(t)' = Deps(t)
  BY DEF Deps
<1>5. ToPlan' = ToPlan
  BY <1>2 DEF ToPlan
<1>6. \A known, vw, t : SharesAgree(known, vw, t)' <=> SharesAgree(known, vw, t)
  BY DEF SharesAgree, Key, Followed
<1>7. QED
  BY <1>1, <1>2, <1>3, <1>4, <1>5, <1>6 DEF PlanInv, SharedViewsAgree

\* A step outside the planning loops; entering them finds nothing planned.
LEMMA PlanIdle ==
  ASSUME PlanInv, phase # "plan", UNCHANGED <<schema, built, views, remaining>>
  PROVE  PlanInv'
<1>1. DOMAIN views' = {} /\ views' = NoViews /\ remaining' = {}
  BY DEF PlanInv, NoViews
<1>2. \A f : IsBuilt(f)' <=> IsBuilt(f)
  BY DEF IsBuilt
<1>3. \A known, vw, t : SharesAgree(known, vw, t)' <=> SharesAgree(known, vw, t)
  BY DEF SharesAgree, Key, Followed
<1>4. QED
  BY <1>1, <1>2, <1>3 DEF PlanInv, SharedViewsAgree

\* The outer loop takes the next type.
LEMMA PlanTakesType ==
  ASSUME TypeOK, PlanInv, NEW u \in Types, PlanType(u)
  PROVE  PlanInv'
<1>1. /\ phase = "plan" /\ phase' = "plan" /\ remaining = {}
      /\ u \in ToPlan /\ u \notin DOMAIN views /\ Deps(u) \cap ToPlan \subseteq DOMAIN views
      /\ planning' = u
      /\ DOMAIN views' = DOMAIN views \cup {u}
      /\ views'[u] = NoViews /\ \A t \in DOMAIN views : views'[t] = views[t]
      /\ UNCHANGED <<schema, built, stack, versioned>>
  BY DEF PlanType
<1>2. KnownEnums(Top.file)' = KnownEnums(Top.file) /\ Top' = Top
  BY <1>1, ImportedStable
<1>3. (\A f : IsBuilt(f)' <=> IsBuilt(f)) /\ (\A t : Deps(t)' = Deps(t)) /\ ToPlan' = ToPlan
  BY <1>1, <1>2 DEF IsBuilt, Deps, ToPlan
<1>4. \A known, vw, t : SharesAgree(known, vw, t)' <=> SharesAgree(known, vw, t)
  BY <1>1 DEF SharesAgree, Key, Followed
<1>5. \A t \in DOMAIN views : planning \notin Deps(t) /\ Deps(t) \cap ToPlan \subseteq DOMAIN views
  BY <1>1 DEF PlanInv
<1>6. u \notin Deps(u) /\ \A t \in DOMAIN views : u \notin Deps(t)
  BY <1>1, <1>5 DEF Deps
<1>7. DOMAIN NoViews = {}
  BY DEF NoViews
<1>8. ASSUME NEW t \in DOMAIN views'
      PROVE  /\ SharesAgree(KnownEnums(Top.file), views, t)'
             /\ \A s \in DOMAIN views'[t], d \in Deps(t) :
                  DepConcrete(d, s)' = DepConcrete(d, views[t][s])'
  <2>1. CASE t = u
    BY <1>1, <1>7, <2>1 DEF SharesAgree
  <2>2. CASE t \in DOMAIN views
    <3>1. /\ SharesAgree(KnownEnums(Top.file), views, t)
          /\ \A s \in DOMAIN views[t], d \in Deps(t) : DepConcrete(d, s) = DepConcrete(d, views[t][s])
      BY <1>1, <2>2 DEF PlanInv, SharedViewsAgree
    <3>2. SharesAgree(KnownEnums(Top.file), views, t)'
      BY <1>1, <1>2, <2>2, <3>1 DEF SharesAgree, Key, Followed
    <3>3. ASSUME NEW d \in Deps(t), NEW q
          PROVE  DepConcrete(d, q)' = DepConcrete(d, q)
      BY <1>1, <1>6, <2>2, <3>3, DepStable
    <3>4. views'[t] = views[t]
      BY <1>1, <2>2
    <3>5. ASSUME NEW s \in DOMAIN views'[t], NEW d \in Deps(t)
          PROVE  DepConcrete(d, s)' = DepConcrete(d, views[t][s])'
      <4>1. PICK c : c = views[t][s] /\ c = views'[t][s]
        BY <3>4
      <4>2. DepConcrete(d, s)' = DepConcrete(d, c)'
        BY <3>1, <3>3, <3>4, <3>5, <4>1
      <4>3. QED
        BY <4>1, <4>2
    <3>6. QED
      BY <3>2, <3>5
  <2>3. QED
    BY <1>1, <2>1, <2>2
<1>9. SharedViewsAgree'
  BY <1>1, <1>3, <1>4, <1>8 DEF PlanInv, SharedViewsAgree
<1>10. planning' \in DOMAIN views' /\ DOMAIN views'[planning'] = {}
  BY <1>1, <1>7
<1>11. \A t \in DOMAIN views' : planning' \notin Deps(t)' /\ Deps(t)' \cap ToPlan' \subseteq DOMAIN views'
  BY <1>1, <1>3, <1>5, <1>6
<1>12. QED
  BY <1>1, <1>9, <1>10, <1>11 DEF PlanInv

\* The inner loop records a definition of its own, or that of a snapshot the
\* type has not changed since.
LEMMA PlanRecords ==
  ASSUME TypeOK, PlanInv, NEW s \in Versions, NEW c, InnerLoop(s), Record(s, c),
         \/ c = s
         \/ \E p \in DOMAIN views[planning] : c = views[planning][p] /\ ~ Changed(p, s)
  PROVE  PlanInv'
<1>1. PICK u : u = planning /\ u = planning'
  BY DEF InnerLoop
<1>2. /\ phase = "plan" /\ phase' = "plan" /\ s \in remaining /\ remaining' = remaining \ {s}
      /\ UNCHANGED <<schema, built, stack, versioned, planning>>
      /\ u \in DOMAIN views /\ s \notin DOMAIN views[u]
  BY <1>1 DEF InnerLoop, IsNext, PlanInv
<1>3. /\ DOMAIN views' = DOMAIN views
      /\ \A t \in DOMAIN views : t # u => views'[t] = views[t]
      /\ DOMAIN views'[u] = DOMAIN views[u] \cup {s}
      /\ \A q \in DOMAIN views[u] : views'[u][q] = views[u][q]
      /\ views'[u][s] = c
  BY <1>1, <1>2, RecordOne
<1>4. PICK K : K = KnownEnums(Top.file) /\ K = KnownEnums(Top.file)' /\ Top' = Top
  BY <1>2, ImportedStable
<1>5. /\ \A f : IsBuilt(f)' <=> IsBuilt(f)
      /\ \A t : Deps(t)' = Deps(t)
      /\ ToPlan' = ToPlan
      /\ \A t, q : Key(K, t, q)' = Key(K, t, q)
      /\ \A known, vw, t : SharesAgree(known, vw, t)' <=> SharesAgree(known, vw, t)
  BY <1>2, <1>4 DEF IsBuilt, Deps, ToPlan, SharesAgree, Key, Followed
<1>6. \A t \in DOMAIN views : u \notin Deps(t) /\ Deps(t) \cap ToPlan \subseteq DOMAIN views
  BY <1>1, <1>2 DEF PlanInv
<1>7. ASSUME NEW t \in DOMAIN views, NEW d \in Deps(t), NEW q
      PROVE  DepConcrete(d, q)' = DepConcrete(d, q)
  BY <1>2, <1>3, <1>6, <1>7, DepStable
<1>8. ASSUME NEW t \in DOMAIN views
      PROVE  /\ SharesAgree(K, views, t)
             /\ \A q \in DOMAIN views[t], d \in Deps(t) : DepConcrete(d, q) = DepConcrete(d, views[t][q])
  BY <1>2, <1>4 DEF PlanInv, SharedViewsAgree
\* What c has in common with s.
<1>9. /\ c = s \/ (c \in DOMAIN views[u] /\ views[u][c] = c)
      /\ Key(K, u, c) = Key(K, u, s)
      /\ \A d \in Deps(u) : DepConcrete(d, c) = DepConcrete(d, s)
  <2>1. CASE c = s
    BY <2>1
  <2>2. ASSUME NEW p \in DOMAIN views[u], c = views[u][p], ~ Changed(p, s)
        PROVE  /\ c \in DOMAIN views[u] /\ views[u][c] = c
               /\ Key(K, u, c) = Key(K, u, s)
               /\ \A d \in Deps(u) : DepConcrete(d, c) = DepConcrete(d, s)
    <3>1. /\ c \in DOMAIN views[u] /\ views[u][c] = c /\ Key(K, u, c) = Key(K, u, p)
      BY <1>2, <1>8, <2>2 DEF SharesAgree
    <3>2. \A d \in Deps(u) : DepConcrete(d, p) = DepConcrete(d, c)
      BY <1>2, <1>8, <2>2
    <3>3. Key(K, u, s) = Key(K, u, p) /\ \A d \in Deps(u) : DepConcrete(d, s) = DepConcrete(d, p)
      BY <1>1, <1>4, <2>2 DEF Changed
    <3>4. QED
      BY <3>1, <3>2, <3>3
  <2>3. QED
    BY <1>1, <2>1, <2>2
<1>10. SharesAgree(K, views', u)
  <2>1. ASSUME NEW q \in DOMAIN views[u]
        PROVE  /\ views'[u][q] \in DOMAIN views'[u] /\ views'[u][views'[u][q]] = views'[u][q]
               /\ Key(K, u, views'[u][q]) = Key(K, u, q)
    BY <1>2, <1>3, <1>8, <2>1 DEF SharesAgree
  <2>2. /\ c \in DOMAIN views'[u] /\ views'[u][c] = c
    BY <1>3, <1>9
  <2>3. QED
    BY <1>3, <1>9, <2>1, <2>2 DEF SharesAgree
<1>11. \A q \in DOMAIN views'[u], d \in Deps(u) : DepConcrete(d, q) = DepConcrete(d, views'[u][q])
  BY <1>2, <1>3, <1>8, <1>9
<1>12. ASSUME NEW t \in DOMAIN views
       PROVE  SharesAgree(K, views', t)
  BY <1>3, <1>8, <1>10 DEF SharesAgree
<1>13. ASSUME NEW t \in DOMAIN views, NEW q \in DOMAIN views'[t], NEW d \in Deps(t)
       PROVE  DepConcrete(d, q)' = DepConcrete(d, views[t][q])'
  <2>1. PICK e : e = views'[t][q]
    OBVIOUS
  <2>2. DepConcrete(d, q) = DepConcrete(d, e)
    BY <1>3, <1>8, <1>11, <1>13, <2>1
  <2>3. DepConcrete(d, q)' = DepConcrete(d, e)'
    BY <1>7, <1>13, <2>2
  <2>4. QED
    BY <2>1, <2>3
<1>14. SharedViewsAgree'
  <2>1. \A f \in Files : IsBuilt(f)' =>
          \A t \in DOMAIN built'[f].views : SharesAgree(built[f].known, built[f].views, t)'
    BY <1>2, <1>5 DEF PlanInv, SharedViewsAgree
  <2>2. \A t \in DOMAIN views' : SharesAgree(KnownEnums(Top.file), views, t)'
    BY <1>2, <1>3, <1>4, <1>12 DEF SharesAgree, Key, Followed
  <2>3. ASSUME NEW t \in DOMAIN views', NEW q \in DOMAIN views'[t], NEW d \in Deps(t)'
        PROVE  DepConcrete(d, q)' = DepConcrete(d, views[t][q])'
    BY <1>3, <1>5, <1>13, <2>3
  <2>4. QED
    BY <2>1, <2>2, <2>3 DEF SharedViewsAgree
<1>15. \A t \in DOMAIN views' : planning' \notin Deps(t)' /\ Deps(t)' \cap ToPlan' \subseteq DOMAIN views'
  BY <1>1, <1>3, <1>5, <1>6
<1>16. planning' \in DOMAIN views' /\ remaining' \cap DOMAIN views'[planning'] = {}
  BY <1>1, <1>2, <1>3 DEF PlanInv
<1>17. QED
  BY <1>2, <1>14, <1>15, <1>16 DEF PlanInv

\* build_file keeps the plan with the file.
LEMMA PlanSealed ==
  ASSUME TypeOK, PlanInv, Seal
  PROVE  PlanInv'
<1>1. /\ phase = "plan" /\ phase' = "imports" /\ views' = NoViews /\ remaining' = {}
      /\ schema' = schema /\ stack # <<>>
  BY DEF Seal, TypeOK
<1>2. PICK f \in Files : f = Top.file
  BY <1>1, TopType DEF Frames
<1>3. /\ \A g \in Files : g # f => built'[g] = built[g]
      /\ built'[f].views = views /\ built'[f].known = KnownEnums(Top.file)
  BY <1>2 DEF Seal, TypeOK
<1>4. \A known, vw, t : SharesAgree(known, vw, t)' <=> SharesAgree(known, vw, t)
  BY <1>1 DEF SharesAgree, Key, Followed
<1>5. \A t \in DOMAIN views : SharesAgree(KnownEnums(Top.file), views, t)
  BY <1>1 DEF PlanInv, SharedViewsAgree
<1>6. ASSUME NEW g \in Files, IsBuilt(g)', NEW t \in DOMAIN built'[g].views
      PROVE  SharesAgree(built'[g].known, built'[g].views, t)
  <2>1. CASE g = f
    BY <1>3, <1>5, <1>6, <2>1
  <2>2. CASE g # f
    BY <1>3, <1>6, <2>2 DEF IsBuilt, PlanInv, SharedViewsAgree
  <2>3. QED
    BY <2>1, <2>2
<1>7. SharedViewsAgree'
  BY <1>1, <1>4, <1>6 DEF SharedViewsAgree
<1>8. QED
  BY <1>1, <1>7 DEF PlanInv

\* Every step keeps the plan.
LEMMA PlanInvStep == TypeOK /\ PlanInv /\ [Next]_vars => PlanInv'
<1> SUFFICES ASSUME TypeOK, PlanInv, [Next]_vars
             PROVE  PlanInv'
  OBVIOUS
<1>1. ASSUME OutputFromMemo \/ OutputBuild \/ SkipImport \/ EnterImport \/ Classify
      PROVE  PlanInv'
  <2>1. phase # "plan" /\ UNCHANGED <<schema, built, views, remaining>>
    BY <1>1 DEF OutputFromMemo, OutputBuild, SkipImport, EnterImport, ImportLoop, Classify, TypeOK, locals
  <2>2. QED
    BY <2>1, PlanIdle
<1>2. ASSUME NEW t \in Types, Spread(t)
      PROVE  PlanInv'
  BY <1>2, PlanIdle DEF Spread
<1>3. CASE LayOut
  BY <1>3, PlanIdle DEF LayOut
<1>4. ASSUME NEW t \in Types, PlanType(t)
      PROVE  PlanInv'
  BY <1>4, PlanTakesType
<1>5. ASSUME NEW s \in Versions, SkipAbsent(s)
      PROVE  PlanInv'
  BY <1>5, PlanUnmoved DEF SkipAbsent, InnerLoop
<1>6. ASSUME NEW s \in Versions, Define(s)
      PROVE  PlanInv'
  BY <1>6, PlanRecords DEF Define
<1>7. ASSUME NEW s \in Versions, Share(s)
      PROVE  PlanInv'
  <2>1. PICK p \in DOMAIN views[planning] : ~ Changed(p, s) /\ Record(s, views[planning][p])
    BY <1>7 DEF Share
  <2>2. InnerLoop(s)
    BY <1>7 DEF Share
  <2>3. QED
    BY <2>1, <2>2, PlanRecords
<1>8. CASE Seal
  BY <1>8, PlanSealed
<1>9. ASSUME Done \/ UNCHANGED vars
      PROVE  PlanInv'
  BY <1>9, PlanUnmoved DEF Done, vars
<1>10. QED
  BY <1>1, <1>2, <1>3, <1>4, <1>5, <1>6, <1>7, <1>8, <1>9 DEF Next

LEMMA PlanInvariant == Spec => []PlanInv
<1>1. Init => PlanInv
  BY DEF Init, PlanInv, SharedViewsAgree, IsBuilt
<1>2. TypeOK /\ PlanInv /\ [Next]_vars => PlanInv'
  BY PlanInvStep
<1>3. QED
  BY <1>1, <1>2, TypeCorrect, PTL DEF Spec

\* Every snapshot that shares a definition agrees with it, on every import
\* graph: comparing each snapshot with its neighbour compares it with the one
\* that defines it.
THEOREM SharingIsSound == Spec => []SharedViewsAgree
<1>1. PlanInv => SharedViewsAgree
  BY DEF PlanInv
<1>2. QED
  BY <1>1, PlanInvariant, PTL
=============================================================================
