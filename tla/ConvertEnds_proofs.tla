-------------------------- MODULE ConvertEnds_proofs --------------------------
(***************************************************************************)
(* Proofs about ConvertEnds: every step of a run leaves less to do, and a  *)
(* run that is not over can take a step, for every plan of finitely many   *)
(* tables and chunks.                                                      *)
(***************************************************************************)
EXTENDS ConvertEnds, Convert_proofs, Measure_proofs, FiniteSetTheorems

USE DEF storeVars, envVars, clearVars, exportVars, outcomeVars, ghostVars

-----------------------------------------------------------------------------
(***************************************************************************)
(* Finite sets and first elements.                                         *)
(***************************************************************************)

\* A smaller part of a finite set has fewer elements.
LEMMA FewerElements ==
    ASSUME NEW S, IsFiniteSet(S), NEW T \in SUBSET S
    PROVE  /\ IsFiniteSet(T)
           /\ Cardinality(T) \in Nat /\ Cardinality(S) \in Nat
           /\ Cardinality(T) <= Cardinality(S)
           /\ T # S => Cardinality(T) < Cardinality(S)
<1>1. IsFiniteSet(T) /\ Cardinality(T) <= Cardinality(S)
      /\ (Cardinality(S) = Cardinality(T) => S = T)
  BY FS_Subset
<1>2. Cardinality(T) \in Nat /\ Cardinality(S) \in Nat
  BY <1>1, FS_CardinalityType
<1>. QED BY <1>1, <1>2

\* A set of naturals has a least element.
LEMMA LeastNatural ==
    ASSUME NEW T \in SUBSET Nat, T # {}
    PROVE  \E m \in T : \A n \in T : m <= n
<1>1. PICK m \in T : \A n \in T : ~ (<<n, m>> \in OpToRel(<, Nat))
  BY NatLessThanWellFounded, WFMin
<1>2. \A n \in T : ~ (n < m)
  BY <1>1 DEF OpToRel
<1>. QED BY <1>2

\* Some table of a set comes first in plan order.
LEMMA FirstExists ==
    ASSUME NEW S \in SUBSET Table, S # {}
    PROVE  \E t \in S : IsFirst(t, S)
<1>. DEFINE P == {Position[t] : t \in S}
<1>1. P \in SUBSET Nat /\ P # {}
  BY ConvertAssumption
<1>2. PICK m \in P : \A n \in P : m <= n
  <2>. HIDE DEF P
  <2>. QED BY <1>1, LeastNatural
<1>3. PICK t \in S : Position[t] = m
  BY <1>2
<1>. QED BY <1>2, <1>3 DEF IsFirst

\* While tables are left there is a next batch: a full one, or all that is
\* left.  Of the plan's initial segments that fit into a batch, a largest one
\* is a batch: with room for one more table, it would have taken the first
\* table it left out.
LEMMA NextBatchExists ==
    ASSUME TypeOK, IsFiniteSet(Table), left # {}
    PROVE  \E S \in SUBSET left : IsNextBatch(S)
<1>. DEFINE Segment(S) == /\ \A t \in S, u \in left \ S : Position[t] < Position[u]
                          /\ Cardinality(S) <= BatchSize
            Rooms == {m \in Nat : \E S \in SUBSET left :
                                      Segment(S) /\ m = BatchSize - Cardinality(S)}
<1>1. IsFiniteSet(left) /\ left \subseteq Table
  BY FS_Subset DEF TypeOK
<1>2. \A S \in SUBSET left : IsFiniteSet(S) /\ Cardinality(S) \in Nat
  BY <1>1, FewerElements
<1>3. BatchSize \in Nat /\ BatchSize > 0
  BY ConvertAssumption
<1>4. BatchSize \in Rooms
  <2>1. Segment({})
    BY <1>3, FS_EmptySet
  <2>. QED BY <1>3, <2>1, FS_EmptySet
<1>5. PICK m \in Rooms : \A n \in Rooms : m <= n
  <2>1. Rooms \in SUBSET Nat
    OBVIOUS
  <2>. HIDE DEF Rooms
  <2>. QED BY <1>4, <2>1, LeastNatural
<1>6. PICK S \in SUBSET left : Segment(S) /\ m = BatchSize - Cardinality(S)
  BY <1>5
<1>7. CASE S = left
  BY <1>6, <1>7 DEF IsNextBatch
<1>8. CASE S # left /\ Cardinality(S) = BatchSize
  <2>1. S # {}
    BY <1>3, <1>8, FS_EmptySet
  <2>. QED BY <1>6, <1>8, <2>1 DEF IsNextBatch
<1>9. CASE S # left /\ Cardinality(S) # BatchSize
  <2>1. Cardinality(S) \in Nat /\ Cardinality(S) < BatchSize
    BY <1>2, <1>3, <1>6, <1>9
  <2>2. PICK t \in left \ S : IsFirst(t, left \ S)
    BY <1>1, <1>9, FirstExists
  <2>. DEFINE U == S \cup {t}
  <2>3. U \in SUBSET left /\ Cardinality(U) = Cardinality(S) + 1
    BY <1>2, FS_AddElement
  <2>4. \A u \in left \ U : Position[t] < Position[u]
    BY <1>1, <2>2, ConvertAssumption DEF IsFirst
  <2>5. Segment(U)
    BY <1>3, <1>6, <2>1, <2>3, <2>4
  <2>6. BatchSize - Cardinality(U) \in Rooms
    BY <1>3, <2>1, <2>3, <2>5
  <2>7. BatchSize - Cardinality(U) < m
    BY <1>3, <1>6, <2>1, <2>3
  <2>8. m \in Nat
    OBVIOUS
  <2>. QED BY <1>3, <1>5, <2>1, <2>3, <2>6, <2>7, <2>8
<1>. QED BY <1>7, <1>8, <1>9

\* While chunks are to be imported there is a next call of the import tool;
\* it takes some of them, and whatever a partition holds, it can leave it so.
LEMMA NextCallExists ==
    ASSUME TypeOK, EndsInv, toImport # {}
    PROVE  \E G \in SUBSET toImport : IsNextCall(G) /\ Loads(G) # {}
<1>1. toImport \subseteq Chunk /\ TablesOf(toImport) \subseteq Table
      /\ TablesOf(toImport) # {}
  BY ConvertAssumption DEF TypeOK, TablesOf
<1>2. PICK t \in Table : IsFirst(t, TablesOf(toImport))
  BY <1>1, FirstExists
<1>. DEFINE G == IF Legacy
                 THEN {c \in toImport : SchemaOf[TableOf[c]] = SchemaOf[t]}
                 ELSE toImport
            nothing == [c \in G |-> 0]
<1>3. G \in SUBSET toImport /\ IsNextCall(G)
  BY <1>2 DEF IsNextCall
<1>4. nothing \in Loads(G)
  <2>1. nothing \in [G -> 0 .. StageCap]
    BY ConvertAssumption
  <2>2. \A c \in G : /\ nothing[c] = 0
                     /\ c \in Chunk /\ staged[c] \in Nat /\ staged[c] <= StageCap
                     /\ Rows[c] \in Nat
    BY <1>1, <1>3, ConvertAssumption DEF EndsInv, TypeOK
  <2>. QED BY <2>1, <2>2 DEF Loads
<1>. QED BY <1>3, <1>4

\* A call of the import tool is given at least one chunk.
LEMMA NextCallTakesSome == \A G \in SUBSET toImport : IsNextCall(G) => G # {}
  BY DEF IsNextCall, IsFirst, TablesOf

-----------------------------------------------------------------------------
(***************************************************************************)
(* EndsInv.                                                                *)
(***************************************************************************)

\* Initially nothing is staged, to do or due.
LEMMA EndsInit == Init => EndsInv
  BY FS_EmptySet, ConvertAssumption DEF Init, StoreInit, EndsInv

\* Sets of sidecars stay finite: a completion adds one to those deferred, a
\* commit hands them over, each sidecar written or given up is one less.
LEMMA DueFinite ==
    ASSUME IInv, EndsInv, [Next]_vars
    PROVE  IsFiniteSet(flush') /\ IsFiniteSet(deferred')
<1>. DEFINE Unchanged == UNCHANGED <<flush, deferred>>
            Opened == flush' = flush /\ deferred' = {}
            Closed == flush' = {} /\ deferred' = {}
            Added == flush' = flush /\ \E e : deferred' = deferred \cup {e}
            Committed == flush' = deferred /\ deferred' = {}
            Written == deferred' = deferred /\ \E e : flush' = flush \ {e}
<1>1. \/ Unchanged \/ Opened \/ Closed \/ Added \/ Committed \/ Written
      => IsFiniteSet(flush') /\ IsFiniteSet(deferred')
  BY FS_EmptySet, FS_AddElement, FS_RemoveElement DEF EndsInv
<1>2. ASSUME NEW d \in Dest, StartRun(d) PROVE Unchanged
  BY <1>2 DEF StartRun
<1>3. ASSUME NEW t \in Table, DeleteRows(t) \/ DeferDelete(t) \/ DeleteError(t) \/ TruncateTable(t)
      PROVE  Unchanged
  BY <1>3 DEF DeleteRows, DeferDelete, DeleteError, TruncateTable
<1>4. ASSUME PreclearDone \/ NextPass \/ PreclearGivesUp PROVE Unchanged
  BY <1>4 DEF PreclearDone, NextPass, PreclearGivesUp
<1>5. ASSUME NEW S \in SUBSET left, SkipBatch(S) \/ StartBatch(S) PROVE Unchanged
  BY <1>5 DEF SkipBatch, StartBatch, UpsertBlock
<1>6. ASSUME NEW G \in SUBSET toImport, ImportChunks(G) \/ ImportWithWarnings(G)
      PROVE  Unchanged \/ Opened
  BY <1>6 DEF ImportChunks, ImportWithWarnings, AfterCall, OpenBlock
<1>7. ASSUME NEW G \in SUBSET toImport, ImportFails(G) PROVE Unchanged
  BY <1>7 DEF ImportFails
<1>8. ASSUME NEW c \in pending, MarkFailed(c) PROVE Unchanged
  BY <1>8 DEF MarkFailed, UpsertNow, Failed
<1>9. ASSUME NEW c \in pending, ExportChunk(c) PROVE Unchanged
  BY <1>9 DEF ExportChunk
<1>10. ASSUME (\E c \in pending : ExportRaises(c)) \/ RecordCompleted \/ RecordFailed
       PROVE  Unchanged \/ Added
  BY <1>10 DEF ExportRaises, RecordCompleted, RecordFailed, UpsertDeferred
<1>11. ASSUME EndBatch PROVE Committed
  BY <1>11 DEF EndBatch, CommitBlock
<1>12. ASSUME NEW e \in flush, Sidecar(e) PROVE Written
  BY <1>12 DEF Sidecar, WriteSidecar, SidecarError
<1>13. ASSUME FinishRun \/ Abort PROVE Closed
  BY <1>13 DEF FinishRun, Abort, CloseStore
<1>14. ASSUME NewStaging \/ UNCHANGED vars PROVE Unchanged
  BY <1>14 DEF NewStaging, vars
<1>. HIDE DEF Unchanged, Opened, Closed, Added, Committed, Written
<1>. QED
  BY <1>1, <1>2, <1>3, <1>4, <1>5, <1>6, <1>7, <1>8, <1>9, <1>10, <1>11, <1>12, <1>13, <1>14
     DEF Next, RunStep, RaiseImportError, CommitFails, OracleError, Crash

\* No call of the import tool, whatever it leaves out, overfills a partition.
LEMMA StagedFits ==
    ASSUME IInv, EndsInv, [Next]_vars
    PROVE  \A c \in Chunk : staged'[c] <= StageCap
<1>. DEFINE Fits == \A c \in Chunk : staged[c] <= StageCap
<1>1. /\ Fits
      /\ \A c \in Chunk : staged[c] \in Nat /\ Rows[c] \in Nat
      /\ StageCap \in Nat
      /\ toImport \subseteq Chunk
  BY ConvertAssumption DEF EndsInv, IInv, TypeOK
<1>2. ASSUME NEW t \in Table, DeleteRows(t) \/ TruncateTable(t) PROVE Fits'
  BY <1>1, <1>2 DEF DeleteRows, TruncateTable, Emptied
<1>3. ASSUME NEW G \in SUBSET toImport, ImportChunks(G) PROVE Fits'
  BY <1>1, <1>3 DEF ImportChunks, Loadable, Loaded
<1>4. ASSUME NEW G \in SUBSET toImport, NEW l \in Loads(G), staged' = Loaded(G, l)
      PROVE  Fits'
  BY <1>1, <1>4 DEF Loads, Loaded
<1>5. ASSUME NEW G \in SUBSET toImport, ImportWithWarnings(G) \/ ImportFails(G)
      PROVE  Fits'
  BY <1>4, <1>5 DEF ImportWithWarnings, ImportFails
<1>6. ASSUME NewStaging PROVE Fits'
  BY <1>1, <1>6 DEF NewStaging
<1>7. UNCHANGED staged => Fits'
  BY <1>1
<1>8. ASSUME NEW d \in Dest, StartRun(d) PROVE UNCHANGED staged
  BY <1>8 DEF StartRun
<1>9. ASSUME NEW t \in Table, DeferDelete(t) \/ DeleteError(t) PROVE UNCHANGED staged
  BY <1>9 DEF DeferDelete, DeleteError
<1>10. ASSUME \/ PreclearDone \/ NextPass \/ PreclearGivesUp
              \/ \E S \in SUBSET left : SkipBatch(S) \/ StartBatch(S)
       PROVE  UNCHANGED staged
  BY <1>10 DEF PreclearDone, NextPass, PreclearGivesUp, SkipBatch, StartBatch
<1>11. ASSUME NEW c \in pending, MarkFailed(c) \/ ExportChunk(c) \/ ExportRaises(c)
       PROVE  UNCHANGED staged
  BY <1>11 DEF MarkFailed, ExportChunk, ExportRaises
<1>12. ASSUME \/ RecordCompleted \/ RecordFailed \/ EndBatch \/ FinishRun \/ Abort
              \/ \E e \in flush : Sidecar(e)
              \/ UNCHANGED vars
       PROVE  UNCHANGED staged
  BY <1>12 DEF RecordCompleted, RecordFailed, EndBatch, FinishRun, Abort, Sidecar, vars
<1>. HIDE DEF Fits
<1>13. Fits'
  BY <1>2, <1>3, <1>5, <1>6, <1>7, <1>8, <1>9, <1>10, <1>11, <1>12
     DEF Next, RunStep, RaiseImportError, CommitFails, OracleError, Crash
<1>. QED BY <1>13 DEF Fits

\* A stage is entered only with something to do: a batch is truncated and
\* imported only if it has pending chunks, table by table and call by call.
LEMMA StagesHaveWork ==
    ASSUME IInv, EndsInv, [Next]_vars
    PROVE  /\ pc' = "truncate" => todo' # {} /\ pending' # {}
           /\ pc' = "import" => toImport' # {}
<1>. DEFINE Work == /\ pc = "truncate" => todo # {} /\ pending # {}
                    /\ pc = "import" => toImport # {}
            Away == pc' \notin {"truncate", "import"}
<1>1. Work /\ (pc = "truncate" => toImport = pending)
  BY DEF EndsInv, IInv, WorkInv
<1>2. ASSUME NEW d \in Dest, StartRun(d) PROVE Away
  BY <1>2 DEF StartRun
<1>3. ASSUME NEW t \in Table, DeleteRows(t) \/ DeferDelete(t) \/ DeleteError(t) PROVE Away
  BY <1>3 DEF DeleteRows, DeferDelete, DeleteError
<1>4. ASSUME NEW t \in Table, TruncateTable(t) PROVE Work'
  BY <1>1, <1>4 DEF TruncateTable
<1>5. ASSUME PreclearDone \/ NextPass \/ PreclearGivesUp PROVE Away
  BY <1>5 DEF PreclearDone, NextPass, PreclearGivesUp
<1>6. ASSUME NEW S \in SUBSET left, SkipBatch(S) PROVE Away
  BY <1>6 DEF SkipBatch
<1>7. ASSUME NEW S \in SUBSET left, StartBatch(S) PROVE Work'
  <2>1. PendingOf(S) # {} /\ TablesOf(PendingOf(S)) # {}
    BY <1>7 DEF StartBatch, TablesOf
  <2>. QED BY <1>7, <2>1 DEF StartBatch
<1>8. ASSUME NEW G \in SUBSET toImport, ImportChunks(G) \/ ImportWithWarnings(G)
      PROVE  Work'
  BY <1>8 DEF ImportChunks, ImportWithWarnings, AfterCall
<1>9. ASSUME NEW G \in SUBSET toImport, ImportFails(G) PROVE Away
  BY <1>9 DEF ImportFails
<1>10. ASSUME NEW c \in pending, MarkFailed(c) \/ ExportChunk(c) \/ ExportRaises(c)
       PROVE  Away
  BY <1>10 DEF MarkFailed, ExportChunk, ExportRaises
<1>11. ASSUME RecordCompleted \/ RecordFailed \/ EndBatch \/ FinishRun \/ Abort PROVE Away
  BY <1>11 DEF RecordCompleted, RecordFailed, EndBatch, FinishRun, Abort, ForgetRun
<1>12. ASSUME NEW e \in flush, Sidecar(e) PROVE Work'
  BY <1>1, <1>12 DEF Sidecar
<1>13. ASSUME NewStaging \/ UNCHANGED vars PROVE Work'
  BY <1>1, <1>13 DEF NewStaging, vars
<1>14. Away => Work'
  OBVIOUS
<1>. HIDE DEF Work, Away
<1>15. Work'
  BY <1>2, <1>3, <1>4, <1>5, <1>6, <1>7, <1>8, <1>9, <1>10, <1>11, <1>12, <1>13, <1>14
     DEF Next, RunStep, RaiseImportError, CommitFails, OracleError, Crash
<1>. QED BY <1>15 DEF Work

\* One step keeps it.
LEMMA EndsStep == IInv /\ EndsInv /\ [Next]_vars => EndsInv'
  BY DueFinite, StagedFits, StagesHaveWork DEF EndsInv

\* What the argument about the end of a run needs holds in every state.
THEOREM EndsInvariance == Spec => [](IInv /\ EndsInv)
<1>1. Init => IInv /\ EndsInv
  BY InvInit, EndsInit
<1>2. (IInv /\ EndsInv) /\ [Next]_vars => (IInv /\ EndsInv)'
  BY InvStep, EndsStep
<1>. QED BY <1>1, <1>2, PTL DEF Spec

-----------------------------------------------------------------------------
(***************************************************************************)
(* Every step of a run leaves less to do.                                  *)
(***************************************************************************)

\* All a run counts with is finite.
LEMMA WorkIsFinite ==
    ASSUME TypeOK, EndsInv, IsFiniteSet(Table), IsFiniteSet(Chunk)
    PROVE  /\ IsFiniteSet(left) /\ IsFiniteSet(todo) /\ IsFiniteSet(flush)
           /\ IsFiniteSet(pending) /\ IsFiniteSet(toImport)
           /\ Cardinality(left) \in Nat /\ Cardinality(todo) \in Nat
           /\ Cardinality(flush) \in Nat /\ Cardinality(pending) \in Nat
           /\ Cardinality(toImport) \in Nat
<1>1. /\ left \in SUBSET Table /\ todo \in SUBSET Table
      /\ pending \in SUBSET Chunk /\ toImport \in SUBSET Chunk
  BY DEF TypeOK
<1>2. /\ IsFiniteSet(left) /\ IsFiniteSet(todo)
      /\ IsFiniteSet(pending) /\ IsFiniteSet(toImport) /\ IsFiniteSet(flush)
  BY <1>1, FS_Subset DEF EndsInv
<1>. QED BY <1>2, FS_CardinalityType

\* The length of a run is a length.
LEMMA RunLengthType ==
    ASSUME TypeOK, EndsInv, IsFiniteSet(Table), IsFiniteSet(Chunk)
    PROVE  RunLength \in Length
<1>1. pass \in 1 .. MaxPass
  BY DEF TypeOK
<1>2. pc \in {"idle", "preclear", "batch", "truncate", "import", "mark_failed", "export", "check"}
  BY DEF TypeOK
<1>. QED BY <1>1, <1>2, WorkIsFinite DEF RunLength, Length, Nothing, MaxPass

\* The pre-clear: a pass clears or defers its tables one by one, and the
\* passes are counted.
LEMMA PreclearShorter ==
    ASSUME IInv, EndsInv, IsFiniteSet(Table), IsFiniteSet(Chunk),
           \/ \E t \in Table : DeleteRows(t) \/ DeferDelete(t) \/ DeleteError(t)
           \/ PreclearDone \/ NextPass \/ PreclearGivesUp
    PROVE  Less(RunLength', RunLength)
<1>1. pass \in Nat /\ pass <= MaxPass /\ pc = "preclear"
  <2>1. pass \in 1 .. 3
    BY DEF IInv, TypeOK, MaxPass
  <2>2. pc = "preclear"
    BY DEF DeleteRows, DeferDelete, DeleteError, PreclearDone, NextPass, PreclearGivesUp
  <2>. QED BY <2>1, <2>2 DEF MaxPass
<1>2. RunLength = <<2, MaxPass - pass, Cardinality(todo), 0>>
  BY <1>1 DEF RunLength
<1>3. ASSUME NEW t \in Table, DeleteRows(t) \/ DeferDelete(t) \/ DeleteError(t)
      PROVE  Less(RunLength', RunLength)
  <2>1. pc' = "preclear" /\ pass' = pass /\ t \in todo /\ todo' = todo \ {t}
    BY <1>3 DEF DeleteRows, DeferDelete, DeleteError, IsFirst
  <2>2. Cardinality(todo') < Cardinality(todo)
    BY <2>1, WorkIsFinite, FewerElements DEF IInv
  <2>3. RunLength' = <<2, MaxPass - pass, Cardinality(todo'), 0>>
    BY <2>1 DEF RunLength
  <2>. QED BY <1>2, <2>2, <2>3 DEF Less
<1>4. ASSUME NextPass PROVE Less(RunLength', RunLength)
  <2>1. pc' = "preclear" /\ pass' = pass + 1
    BY <1>4 DEF NextPass
  <2>2. RunLength' = <<2, MaxPass - (pass + 1), Cardinality(todo'), 0>>
    BY <2>1 DEF RunLength
  <2>. QED BY <1>1, <1>2, <2>2 DEF Less, MaxPass
<1>5. ASSUME PreclearDone \/ PreclearGivesUp PROVE Less(RunLength', RunLength)
  <2>1. pc' = "batch"
    BY <1>5 DEF PreclearDone, PreclearGivesUp
  <2>2. RunLength'[1] = 1
    BY <2>1 DEF RunLength
  <2>. QED BY <1>2, <2>2 DEF Less
<1>. QED BY <1>3, <1>4, <1>5

\* The batch loop: a batch skipped or begun is left no more; inside a batch
\* the stages follow one another and each works its tables or chunks off.
LEMMA BatchShorter ==
    ASSUME IInv, EndsInv, IsFiniteSet(Table), IsFiniteSet(Chunk),
           \/ \E S \in SUBSET left : SkipBatch(S) \/ StartBatch(S)
           \/ \E t \in Table : TruncateTable(t)
           \/ \E G \in SUBSET toImport :
                 ImportChunks(G) \/ ImportWithWarnings(G) \/ ImportFails(G)
           \/ \E c \in pending : MarkFailed(c)
    PROVE  Less(RunLength', RunLength)
<1>1. ASSUME NEW S \in SUBSET left, SkipBatch(S) \/ StartBatch(S)
      PROVE  Less(RunLength', RunLength)
  <2>1. pc = "batch" /\ left' = left \ S /\ S # {}
    BY <1>1 DEF SkipBatch, StartBatch, IsNextBatch
  <2>2. Cardinality(left') < Cardinality(left)
    BY <2>1, WorkIsFinite, FewerElements DEF IInv
  <2>3. pc' \in {"batch", "truncate", "import"}
    BY <1>1 DEF SkipBatch, StartBatch
  <2>4. RunLength[1] = 1 /\ RunLength[2] = Cardinality(left)
    BY <2>1 DEF RunLength
  <2>5. RunLength'[1] = 1 /\ RunLength'[2] = Cardinality(left')
    BY <2>3 DEF RunLength
  <2>. QED BY <2>2, <2>4, <2>5 DEF Less
<1>2. ASSUME NEW t \in Table, TruncateTable(t) PROVE Less(RunLength', RunLength)
  <2>1. pc = "truncate" /\ pc' \in {"truncate", "import"} /\ left' = left
        /\ t \in todo /\ todo' = todo \ {t}
    BY <1>2 DEF TruncateTable, IsFirst
  <2>2. Cardinality(todo') < Cardinality(todo)
    BY <2>1, WorkIsFinite, FewerElements DEF IInv
  <2>3. RunLength = <<1, Cardinality(left), 5, Cardinality(todo)>>
    BY <2>1 DEF RunLength
  <2>4. CASE pc' = "truncate"
    <3>1. RunLength' = <<1, Cardinality(left), 5, Cardinality(todo')>>
      BY <2>1, <2>4 DEF RunLength
    <3>. QED BY <2>2, <2>3, <3>1 DEF Less
  <2>5. CASE pc' = "import"
    <3>1. RunLength' = <<1, Cardinality(left), 4, Cardinality(toImport')>>
      BY <2>1, <2>5 DEF RunLength
    <3>. QED BY <2>3, <3>1 DEF Less
  <2>. QED BY <2>1, <2>4, <2>5
<1>3. ASSUME NEW G \in SUBSET toImport, ImportChunks(G) \/ ImportWithWarnings(G)
      PROVE  Less(RunLength', RunLength)
  <2>1. pc = "import" /\ pc' \in {"import", "export"} /\ left' = left
        /\ toImport' = toImport \ G /\ G # {}
    BY <1>3, NextCallTakesSome DEF ImportChunks, ImportWithWarnings, AfterCall
  <2>2. Cardinality(toImport') < Cardinality(toImport)
    BY <2>1, WorkIsFinite, FewerElements DEF IInv
  <2>3. RunLength = <<1, Cardinality(left), 4, Cardinality(toImport)>>
    BY <2>1 DEF RunLength
  <2>4. CASE pc' = "import"
    <3>1. RunLength' = <<1, Cardinality(left), 4, Cardinality(toImport')>>
      BY <2>1, <2>4 DEF RunLength
    <3>. QED BY <2>2, <2>3, <3>1 DEF Less
  <2>5. CASE pc' = "export"
    <3>1. RunLength' = <<1, Cardinality(left), 2, 2 * Cardinality(pending') + 1>>
      BY <2>1, <2>5 DEF RunLength
    <3>. QED BY <2>3, <3>1 DEF Less
  <2>. QED BY <2>1, <2>4, <2>5
<1>4. ASSUME NEW G \in SUBSET toImport, ImportFails(G)
      PROVE  Less(RunLength', RunLength)
  BY <1>4 DEF ImportFails, RunLength, Less
<1>5. ASSUME NEW c \in pending, MarkFailed(c) PROVE Less(RunLength', RunLength)
  <2>1. pc = "mark_failed" /\ pc' = pc /\ left' = left /\ pending' = pending \ {c}
    BY <1>5 DEF MarkFailed
  <2>2. Cardinality(pending') < Cardinality(pending)
    BY <2>1, WorkIsFinite, FewerElements DEF IInv
  <2>. QED BY <2>1, <2>2 DEF RunLength, Less
<1>. QED BY <1>1, <1>2, <1>3, <1>4, <1>5

\* The export block: a chunk leaves the pending ones when it is recorded, so
\* opening its file and recording it are two steps for each.
LEMMA ExportShorter ==
    ASSUME IInv, EndsInv, IsFiniteSet(Table), IsFiniteSet(Chunk),
           \/ \E c \in pending : ExportChunk(c) \/ ExportRaises(c)
           \/ RecordCompleted \/ RecordFailed \/ EndBatch
           \/ \E e \in flush : Sidecar(e)
    PROVE  Less(RunLength', RunLength)
<1>0. Cardinality(pending) \in Nat /\ IsFiniteSet(pending)
      /\ Cardinality(flush) \in Nat /\ IsFiniteSet(flush)
  BY WorkIsFinite DEF IInv
<1>1. ASSUME NEW c \in pending, ExportChunk(c) PROVE Less(RunLength', RunLength)
  <2>1. pc = "export" /\ pc' = "check" /\ left' = left /\ pending' = pending
    BY <1>1 DEF ExportChunk
  <2>. QED BY <1>0, <2>1 DEF RunLength, Less
<1>2. ASSUME NEW c \in pending, pending' = pending \ {c}
      PROVE  Cardinality(pending') \in Nat /\ Cardinality(pending') < Cardinality(pending)
  BY <1>0, <1>2, FewerElements
<1>3. ASSUME NEW c \in pending, ExportRaises(c) PROVE Less(RunLength', RunLength)
  <2>1. pc = "export" /\ pc' = "export" /\ left' = left /\ pending' = pending \ {c}
    BY <1>3 DEF ExportRaises
  <2>2. /\ RunLength = <<1, Cardinality(left), 2, 2 * Cardinality(pending) + 1>>
        /\ RunLength' = <<1, Cardinality(left), 2, 2 * Cardinality(pending') + 1>>
    BY <2>1 DEF RunLength
  <2>. QED BY <1>0, <1>2, <2>1, <2>2 DEF Less
<1>4. ASSUME RecordCompleted \/ RecordFailed PROVE Less(RunLength', RunLength)
  <2>1. pc = "check" /\ pc' = "export" /\ left' = left /\ pending' = pending \ {cur}
    BY <1>4 DEF RecordCompleted, RecordFailed
  <2>2. cur \in pending
    BY <2>1 DEF IInv, WorkInv
  <2>3. /\ RunLength = <<1, Cardinality(left), 2, 2 * Cardinality(pending)>>
        /\ RunLength' = <<1, Cardinality(left), 2, 2 * Cardinality(pending') + 1>>
    BY <2>1 DEF RunLength
  <2>. QED BY <1>0, <1>2, <2>1, <2>2, <2>3 DEF Less
<1>5. ASSUME EndBatch PROVE Less(RunLength', RunLength)
  BY <1>5 DEF EndBatch, RunLength, Less
<1>6. ASSUME NEW e \in flush, Sidecar(e) PROVE Less(RunLength', RunLength)
  <2>1. pc = "batch" /\ pc' = pc /\ left' = left /\ flush' = flush \ {e}
    BY <1>6 DEF Sidecar, WriteSidecar, SidecarError, IInv, StoreInv
  <2>2. Cardinality(flush') < Cardinality(flush)
    BY <1>0, <2>1, FewerElements
  <2>. QED BY <2>1, <2>2 DEF RunLength, Less
<1>. QED BY <1>1, <1>3, <1>4, <1>5, <1>6

\* A run that ends has nothing left to do.
LEMMA EndShorter ==
    ASSUME IInv, RaiseImportError \/ CommitFails \/ FinishRun \/ OracleError
    PROVE  Less(RunLength', RunLength)
<1>1. RunLength' = Nothing
  BY DEF RaiseImportError, CommitFails, FinishRun, OracleError, Abort, ForgetRun, RunLength
<1>2. pc \in {"preclear", "truncate", "batch", "mark_failed", "export"}
  BY DEF RaiseImportError, CommitFails, FinishRun, OracleError
<1>3. RunLength[1] \in {1, 2}
  BY <1>2 DEF RunLength
<1>. QED BY <1>1, <1>3 DEF Less, Nothing

\* Every step of a run brings its end nearer: for every plan of finitely many
\* tables and chunks, in every state a run can reach, whatever fails.
THEOREM RunsShorten ==
    ASSUME IsFiniteSet(Table), IsFiniteSet(Chunk)
    PROVE  Spec => RunsGetShorter
<1>1. ASSUME IInv, EndsInv, RunStep PROVE Less(RunLength', RunLength)
  BY <1>1, PreclearShorter, BatchShorter, ExportShorter, EndShorter DEF RunStep
<1>2. IInv /\ EndsInv => RunLength \in Length
  BY RunLengthType DEF IInv
<1>3. (IInv /\ EndsInv) /\ (RunLength \in Length)' /\ [Next]_vars
          => [Shorter(RunLength', RunLength) \/ ~RunStep]_vars
  BY <1>1 DEF Shorter
<1>. QED BY <1>2, <1>3, EndsInvariance, PTL DEF RunsGetShorter, Spec

\* A run that is not over is never stuck, for every plan of finitely many
\* tables.
THEOREM RunsNeverStuck ==
    ASSUME IsFiniteSet(Table)
    PROVE  Spec => []RunsGoOn
<1>1. ASSUME IInv, EndsInv PROVE RunsGoOn
  <2>1. pc \in {"idle", "preclear", "batch", "truncate", "import", "mark_failed",
                "export", "check"}
    BY <1>1 DEF IInv, TypeOK
  <2>2. CASE pc \in {"preclear", "truncate"}
    <3>1. todo \in SUBSET Table
      BY <1>1 DEF IInv, TypeOK
    <3>2. todo # {} => \E t \in todo : IsFirst(t, todo)
      BY <3>1, FirstExists
    <3>. QED BY <1>1, <2>2, <3>2 DEF EndsInv, RunsGoOn, CanGoOn
  <2>3. CASE pc = "import"
    BY <1>1, <2>3, NextCallExists DEF IInv, EndsInv, RunsGoOn, CanGoOn
  <2>4. CASE pc \in {"mark_failed", "export", "check"}
    BY <1>1, <2>4 DEF IInv, StoreInv, RunsGoOn, CanGoOn
  <2>5. CASE pc = "batch"
    BY <1>1, <2>5, NextBatchExists DEF IInv, StoreInv, LoopDone, RunsGoOn, CanGoOn
  <2>. QED BY <2>1, <2>2, <2>3, <2>4, <2>5 DEF RunsGoOn
<1>2. IInv /\ EndsInv => RunsGoOn
  BY <1>1
<1>. QED BY <1>2, EndsInvariance, PTL
=============================================================================
