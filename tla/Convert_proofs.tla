---------------------------- MODULE Convert_proofs ----------------------------
(***************************************************************************)
(* Proofs about Convert: IInv (module ConvertInv) is an inductive          *)
(* invariant, and the properties that follow from it.                      *)
(***************************************************************************)
EXTENDS ConvertInv, TLAPS

USE DEF storeVars, envVars, clearVars, exportVars, outcomeVars, ghostVars

-----------------------------------------------------------------------------
(***************************************************************************)
(* Type correctness.                                                       *)
(***************************************************************************)

\* The rows the program writes are rows.
LEMMA RowTypes ==
    /\ NoRow \in Row /\ Running \in Row /\ Failed \in Row
    /\ \A n \in Nat : Completed(n) \in Row
  BY DEF NoRow, Running, Failed, Completed, Row, Status

\* What the import tool leaves in a staging partition is a number of rows.
LEMMA LoadedTypes ==
    ASSUME TypeOK, NEW G \in SUBSET Chunk
    PROVE  /\ Loaded(G, Rows) \in [Chunk -> Nat]
           /\ \A l \in Loads(G) : Loaded(G, l) \in [Chunk -> Nat]
<1>1. Loaded(G, Rows) \in [Chunk -> Nat]
  BY ConvertAssumption DEF TypeOK, Loaded
<1>2. ASSUME NEW l \in Loads(G) PROVE Loaded(G, l) \in [Chunk -> Nat]
  <2>1. \A c \in G : l[c] \in Nat
    BY DEF Loads
  <2>. QED BY <2>1 DEF TypeOK, Loaded
<1>. QED BY <1>1, <1>2

\* The ways a run, and with it the connection of the store, ends keep types.
LEMMA AbortTypes == TypeOK /\ Abort => TypeOK'
  BY DEF TypeOK, StoreTypeOK, Abort, ForgetRun, CloseStore, MaxPass

\* The initial state is well-typed.
LEMMA TypeInit == Init => TypeOK
  BY RowTypes DEF Init, TypeOK, StoreInit, StoreTypeOK, NoReport, MaxPass

\* WorkInv is needed too: RecordCompleted and RecordFailed record the chunk
\* cur, and the export no longer has anything left to import.
LEMMA TypeStep == TypeOK /\ WorkInv /\ [Next]_vars => TypeOK'
<1>. SUFFICES ASSUME TypeOK, WorkInv, [Next]_vars PROVE TypeOK'
  OBVIOUS
<1>. USE ConvertAssumption, RowTypes DEF TypeOK, StoreTypeOK, MaxPass
<1>1. ASSUME NEW d \in Dest, StartRun(d) PROVE TypeOK'
  BY <1>1 DEF StartRun, TablesToClear
<1>2. ASSUME NEW t \in Table, DeleteRows(t) PROVE TypeOK'
  BY <1>2 DEF DeleteRows, Emptied
<1>3. ASSUME NEW t \in Table, DeferDelete(t) PROVE TypeOK'
  BY <1>3 DEF DeferDelete
<1>4. ASSUME NEW t \in Table, DeleteError(t) PROVE TypeOK'
  BY <1>4 DEF DeleteError, ChunksOf
<1>5. ASSUME NEW t \in Table, TruncateTable(t) PROVE TypeOK'
  BY <1>5 DEF TruncateTable, Emptied
<1>6. ASSUME PreclearDone PROVE TypeOK'
  BY <1>6 DEF PreclearDone
<1>7. ASSUME NextPass PROVE TypeOK'
  BY <1>7 DEF NextPass
<1>8. ASSUME PreclearGivesUp PROVE TypeOK'
  BY <1>8 DEF PreclearGivesUp, ChunksOf
<1>9. ASSUME NEW S \in SUBSET left, SkipBatch(S) PROVE TypeOK'
  BY <1>9 DEF SkipBatch, Rehydrated, ChunksOf, Result, Row
<1>10. ASSUME NEW S \in SUBSET left, StartBatch(S) PROVE TypeOK'
  BY <1>10 DEF StartBatch, Rehydrated, PendingOf, TablesOf, ChunksOf, UpsertBlock,
               Result, Row
<1>11. ASSUME NEW G \in SUBSET toImport, ImportChunks(G) PROVE TypeOK'
  BY <1>11, LoadedTypes DEF ImportChunks, AfterCall, OpenBlock
<1>12. ASSUME NEW G \in SUBSET toImport, ImportWithWarnings(G) PROVE TypeOK'
  <2>1. G \subseteq Chunk
    OBVIOUS
  <2>2. staged' \in [Chunk -> Nat]
    BY <1>12, LoadedTypes DEF ImportWithWarnings
  <2>. QED BY <1>12, <2>2 DEF ImportWithWarnings, AfterCall, OpenBlock
<1>13. ASSUME NEW G \in SUBSET toImport, ImportFails(G) PROVE TypeOK'
  BY <1>13, LoadedTypes DEF ImportFails
<1>14. ASSUME NEW c \in pending, MarkFailed(c) PROVE TypeOK'
  BY <1>14 DEF MarkFailed, UpsertNow, Entry
<1>15. ASSUME NEW c \in pending, ExportChunk(c) PROVE TypeOK'
  <2>. DEFINE W == IF "export_error" \in Faults THEN 0 .. staged[c] ELSE {staged[c]}
  <2>0. W \subseteq Nat
    OBVIOUS
  <2>1. PICK n \in W : file' = [file EXCEPT ![c][dest] = n] /\ written' = n
    BY <1>15 DEF ExportChunk
  <2>2. file' \in [Chunk -> [Dest -> Nat \cup {NoFile}]]
    <3>1. c \in Chunk /\ dest \in Dest
      BY DEF WorkInv
    <3>2. [file[c] EXCEPT ![dest] = n] \in [Dest -> Nat \cup {NoFile}]
      BY <3>1
    <3>3. file' = [file EXCEPT ![c] = [file[c] EXCEPT ![dest] = n]]
      BY <2>1
    <3>. QED BY <3>2, <3>3
  <2>. QED BY <1>15, <2>2 DEF ExportChunk
<1>16. ASSUME NEW c \in pending, ExportRaises(c) PROVE TypeOK'
  <2>1. c \in Chunk /\ toImport = {}
    BY <1>16 DEF WorkInv, ExportRaises
  <2>2. deferred' \subseteq Entry
    BY <1>16 DEF ExportRaises, UpsertDeferred, Entry
  <2>3. tx' \in [Chunk -> Row]
    BY <1>16 DEF ExportRaises, UpsertDeferred
  <2>. QED BY <1>16, <2>1, <2>2 DEF ExportRaises, UpsertDeferred
<1>17. ASSUME RecordCompleted PROVE TypeOK'
  BY <1>17 DEF WorkInv, RecordCompleted, UpsertDeferred, Entry, Result
<1>18. ASSUME RecordFailed PROVE TypeOK'
  BY <1>18 DEF WorkInv, RecordFailed, UpsertDeferred, Entry
<1>19. ASSUME EndBatch PROVE TypeOK'
  BY <1>19 DEF EndBatch, CommitBlock
<1>20. ASSUME NEW e \in flush, Sidecar(e) PROVE TypeOK'
  BY <1>20 DEF Sidecar, WriteSidecar, SidecarError, Entry
<1>21. ASSUME FinishRun PROVE TypeOK'
  BY <1>21 DEF FinishRun, ForgetRun, CloseStore
<1>22. ASSUME NewStaging PROVE TypeOK'
  BY <1>22 DEF NewStaging
<1>23. ASSUME Abort PROVE TypeOK'
  BY <1>23, AbortTypes
<1>24. CASE UNCHANGED vars
  BY <1>24 DEF vars
<1>. QED
  BY <1>1, <1>2, <1>3, <1>4, <1>5, <1>6, <1>7, <1>8, <1>9, <1>10, <1>11, <1>12,
     <1>13, <1>14, <1>15, <1>16, <1>17, <1>18, <1>19, <1>20, <1>21, <1>22, <1>23, <1>24
     DEF Next, RunStep, RaiseImportError, CommitFails, OracleError, Crash

-----------------------------------------------------------------------------
(***************************************************************************)
(* Facts several parts of the invariant rest on.                           *)
(***************************************************************************)

\* Only a "completed" row is completed, and its count determines it.
LEMMA CompletedRow ==
    /\ \A n \in Nat : IsCompleted(Completed(n))
    /\ \A row \in Row : IsCompleted(row) => row.rows \in Nat /\ row = Completed(row.rows)
    /\ ~IsCompleted(Running) /\ ~IsCompleted(Failed) /\ ~IsCompleted(NoRow)
  BY DEF IsCompleted, Completed, Running, Failed, NoRow, Row

\* The snapshot still tells the truth about the tables of later batches.
LEMMA PendingUntouched ==
    ASSUME IInv, NEW S \in SUBSET left
    PROVE  /\ PendingOf(S) \subseteq Chunk
           /\ \A c \in PendingOf(S) :
                  ~IsCompleted(db[c]) /\ tx[c] = db[c] /\ TableOf[c] \in S
           /\ \A c \in ChunksOf(S) \ PendingOf(S) :
                  IsCompleted(db[c]) /\ tx[c] = db[c] /\ snap[c] = db[c]
  BY DEF IInv, WorkInv, PendingOf, ChunksOf

\* Results and reports give the rows of chunks completed on this connection.
LEMMA ResultRows ==
    ASSUME IInv
    PROVE  /\ results \subseteq Result /\ report.successful \subseteq Result
           /\ \A e \in results \cup report.successful :
                  e.chunk \in Chunk /\ e.rows \in Nat /\ tx[e.chunk] = Completed(e.rows)
                  /\ IsCompleted(tx[e.chunk])
<1>1. results \subseteq Result /\ report.successful \subseteq Result
  BY DEF IInv, TypeOK
<1>2. \A e \in results \cup report.successful : e.chunk \in Chunk /\ e.rows \in Nat
  BY <1>1 DEF Result
<1>3. \A e \in results \cup report.successful : tx[e.chunk] = Completed(e.rows)
  <2>1. \A e \in report.successful : db[e.chunk] = Completed(e.rows)
    BY DEF IInv, ResultInv, ReportIsDurable
  <2>2. \A e \in report.successful : IsCompleted(db[e.chunk])
    BY <1>2, <2>1, CompletedRow
  <2>3. \A e \in report.successful : tx[e.chunk] = Completed(e.rows)
    BY <1>2, <2>1, <2>2 DEF IInv, StoreInv
  <2>. QED BY <2>3 DEF IInv, ResultInv
<1>. QED BY <1>1, <1>2, <1>3, CompletedRow

\* So do the results rebuilt from the rows an earlier run completed, one for
\* every chunk of S that is not pending.
LEMMA RehydratedRows ==
    ASSUME IInv, NEW S \in SUBSET left
    PROVE  /\ \A e \in Rehydrated(S) : /\ e.chunk \in ChunksOf(S) \ PendingOf(S)
                                        /\ e.chunk \in Chunk /\ TableOf[e.chunk] \in S
                                        /\ tx[e.chunk] = Completed(e.rows)
           /\ \A c \in ChunksOf(S) \ PendingOf(S) :
                  IsCompleted(tx[c]) /\ \E e \in Rehydrated(S) : e.chunk = c
<1>1. \A c \in ChunksOf(S) \ PendingOf(S) :
          c \in Chunk /\ TableOf[c] \in S /\ IsCompleted(tx[c]) /\ tx[c] = snap[c]
  <2>1. \A c \in ChunksOf(S) : c \in Chunk /\ TableOf[c] \in S
    BY DEF ChunksOf
  <2>. QED BY <2>1, PendingUntouched
<1>2. \A c \in Chunk : tx[c] \in Row
  BY DEF IInv, TypeOK, StoreTypeOK
<1>3. \A c \in ChunksOf(S) \ PendingOf(S) : tx[c] = Completed(snap[c].rows)
  BY <1>1, <1>2, CompletedRow
<1>4. \A c \in ChunksOf(S) \ PendingOf(S) :
          [chunk |-> c, rows |-> snap[c].rows] \in Rehydrated(S)
  BY DEF Rehydrated
<1>5. \A c \in ChunksOf(S) \ PendingOf(S) : \E e \in Rehydrated(S) : e.chunk = c
  BY <1>4
<1>6. \A e \in Rehydrated(S) : \E c \in ChunksOf(S) \ PendingOf(S) :
          e.chunk = c /\ e.rows = snap[c].rows
  BY DEF Rehydrated
<1>. QED BY <1>1, <1>3, <1>5, <1>6

-----------------------------------------------------------------------------
\* Connection, database and sidecars.
LEMMA StoreStep == IInv /\ [Next]_vars => StoreInv'
<1>. SUFFICES ASSUME IInv, [Next]_vars PROVE StoreInv'
  OBVIOUS
<1>1. ASSUME NEW d \in Dest, StartRun(d) PROVE StoreInv'
  BY <1>1 DEF StartRun, IInv, StoreInv
<1>2. ASSUME NEW t \in Table, DeleteRows(t) PROVE StoreInv'
  BY <1>2 DEF DeleteRows, IInv, StoreInv
<1>3. ASSUME NEW t \in Table, DeferDelete(t) PROVE StoreInv'
  BY <1>3 DEF DeferDelete, IInv, StoreInv
<1>4. ASSUME NEW t \in Table, DeleteError(t) PROVE StoreInv'
  BY <1>4 DEF DeleteError, IInv, StoreInv
<1>5. ASSUME NEW t \in Table, TruncateTable(t) PROVE StoreInv'
  BY <1>5 DEF TruncateTable, IInv, StoreInv
<1>6. ASSUME PreclearDone PROVE StoreInv'
  BY <1>6 DEF PreclearDone, IInv, StoreInv
<1>7. ASSUME NextPass PROVE StoreInv'
  BY <1>7 DEF NextPass, IInv, StoreInv
<1>8. ASSUME PreclearGivesUp PROVE StoreInv'
  BY <1>8 DEF PreclearGivesUp, IInv, StoreInv
<1>9. ASSUME NEW S \in SUBSET left, SkipBatch(S) PROVE StoreInv'
  BY <1>9 DEF SkipBatch, IInv, StoreInv
<1>10. ASSUME NEW S \in SUBSET left, StartBatch(S) PROVE StoreInv'
  <2>. DEFINE P == PendingOf(S)
  <2>1. pc = "batch" /\ flush = {} /\ UpsertBlock(P, Running)
    BY <1>10 DEF StartBatch
  <2>2. pc' \in {"truncate", "import"}
    BY <1>10 DEF StartBatch
  <2>3. \A c \in P : ~IsCompleted(db[c]) /\ ~IsCompleted(db'[c]) /\ ~IsCompleted(tx[c])
    BY <2>1, PendingUntouched, CompletedRow DEF UpsertBlock
  <2>4. \A c \in Chunk \ P : tx'[c] = tx[c] /\ db'[c] = db[c]
    BY <2>1 DEF UpsertBlock, IInv, StoreInv
  <2>. HIDE DEF P
  <2>5. tx' = db' /\ UNCHANGED <<autocommit, deferred, flush, sidecar>>
    BY <2>1 DEF UpsertBlock
  <2>. QED BY <2>1, <2>2, <2>3, <2>4, <2>5 DEF IInv, StoreInv
<1>11. ASSUME NEW G \in SUBSET toImport, ImportChunks(G) PROVE StoreInv'
  BY <1>11 DEF ImportChunks, AfterCall, OpenBlock, Loaded, IInv, StoreInv
<1>12. ASSUME NEW G \in SUBSET toImport, ImportWithWarnings(G) PROVE StoreInv'
  BY <1>12 DEF ImportWithWarnings, AfterCall, OpenBlock, Loaded, IInv, StoreInv
<1>13. ASSUME NEW G \in SUBSET toImport, ImportFails(G) PROVE StoreInv'
  BY <1>13 DEF ImportFails, IInv, StoreInv
<1>14. ASSUME NEW c \in pending, MarkFailed(c) PROVE StoreInv'
  BY <1>14 DEF MarkFailed, UpsertNow, Failed, IInv, StoreInv, WorkInv
<1>15. ASSUME NEW c \in pending, ExportChunk(c) PROVE StoreInv'
  BY <1>15 DEF ExportChunk, IInv, StoreInv
<1>16. ASSUME NEW c \in pending, ExportRaises(c) PROVE StoreInv'
  BY <1>16 DEF ExportRaises, UpsertDeferred, IInv, StoreInv, WorkInv, TypeOK,
               StoreTypeOK, IsCompleted
<1>17. ASSUME RecordCompleted PROVE StoreInv'
  BY <1>17 DEF RecordCompleted, UpsertDeferred, IInv, StoreInv, WorkInv, TypeOK,
               StoreTypeOK, IsCompleted
<1>18. ASSUME RecordFailed PROVE StoreInv'
  BY <1>18 DEF RecordFailed, UpsertDeferred, IInv, StoreInv, WorkInv, TypeOK,
               StoreTypeOK, IsCompleted
<1>19. ASSUME EndBatch PROVE StoreInv'
  BY <1>19 DEF EndBatch, CommitBlock, IInv, StoreInv
<1>20. ASSUME NEW e \in flush, Sidecar(e) PROVE StoreInv'
  BY <1>20 DEF Sidecar, WriteSidecar, SidecarError, IInv, StoreInv, TypeOK,
               StoreTypeOK, IsCompleted
<1>21. ASSUME FinishRun PROVE StoreInv'
  BY <1>21 DEF FinishRun, ForgetRun, CloseStore, IInv, StoreInv
<1>22. ASSUME NewStaging PROVE StoreInv'
  BY <1>22 DEF NewStaging, IInv, StoreInv
<1>23. ASSUME Abort PROVE StoreInv'
  BY <1>23 DEF Abort, ForgetRun, CloseStore, IInv, StoreInv
<1>24. CASE UNCHANGED vars
  BY <1>24 DEF vars, IInv, StoreInv
<1>. QED
  BY <1>1, <1>2, <1>3, <1>4, <1>5, <1>6, <1>7, <1>8, <1>9, <1>10, <1>11, <1>12,
     <1>13, <1>14, <1>15, <1>16, <1>17, <1>18, <1>19, <1>20, <1>21, <1>22, <1>23, <1>24
     DEF Next, RunStep, RaiseImportError, CommitFails, OracleError, Crash

-----------------------------------------------------------------------------
\* What a run has still to do.
LEMMA WorkStep == IInv /\ [Next]_vars => WorkInv'
<1>. SUFFICES ASSUME IInv, [Next]_vars PROVE WorkInv'
  OBVIOUS
<1>1. ASSUME NEW d \in Dest, StartRun(d) PROVE WorkInv'
  <2>1. tx = db /\ pending = {} /\ pending' = pending
    BY <1>1 DEF StartRun, IInv, StoreInv, WorkInv
  <2>. QED BY <1>1, <2>1 DEF StartRun, IInv, WorkInv
<1>2. ASSUME NEW t \in Table, DeleteRows(t) PROVE WorkInv'
  BY <1>2 DEF DeleteRows, IInv, WorkInv
<1>3. ASSUME NEW t \in Table, DeferDelete(t) PROVE WorkInv'
  BY <1>3 DEF DeferDelete, IInv, WorkInv
<1>4. ASSUME NEW t \in Table, DeleteError(t) PROVE WorkInv'
  BY <1>4 DEF DeleteError, IInv, WorkInv
<1>5. ASSUME NEW t \in Table, TruncateTable(t) PROVE WorkInv'
  BY <1>5 DEF TruncateTable, IInv, WorkInv
<1>6. ASSUME PreclearDone PROVE WorkInv'
  BY <1>6 DEF PreclearDone, IInv, WorkInv
<1>7. ASSUME NextPass PROVE WorkInv'
  BY <1>7 DEF NextPass, IInv, WorkInv
<1>8. ASSUME PreclearGivesUp PROVE WorkInv'
  BY <1>8 DEF PreclearGivesUp, IInv, WorkInv
<1>9. ASSUME NEW S \in SUBSET left, SkipBatch(S) PROVE WorkInv'
  BY <1>9 DEF SkipBatch, IInv, WorkInv, ChunksOf
<1>10. ASSUME NEW S \in SUBSET left, StartBatch(S) PROVE WorkInv'
  <2>. DEFINE P == PendingOf(S)
  <2>1. pc = "batch" /\ UpsertBlock(P, Running) /\ IsNextBatch(S)
    BY <1>10 DEF StartBatch
  <2>2. pc' \in {"truncate", "import"} /\ pending' = P /\ toImport' = P /\ batch' = S
        /\ left' = left \ S /\ dest' = dest /\ snap' = snap
    BY <1>10 DEF StartBatch
  <2>3. \A c \in P : TableOf[c] \in S /\ ~IsCompleted(tx'[c])
    BY <2>1, PendingUntouched, CompletedRow DEF UpsertBlock
  <2>4. \A c \in ChunksOf(left \ S) : /\ c \in ChunksOf(left) /\ c \notin P
                                       /\ tx'[c] = tx[c] /\ db'[c] = db[c]
    BY <2>1, PendingUntouched DEF UpsertBlock, ChunksOf
  <2>. HIDE DEF P
  <2>. QED BY <2>1, <2>2, <2>3, <2>4 DEF IInv, WorkInv
<1>11. ASSUME NEW G \in SUBSET toImport, ImportChunks(G) PROVE WorkInv'
  BY <1>11 DEF ImportChunks, AfterCall, OpenBlock, IInv, WorkInv
<1>12. ASSUME NEW G \in SUBSET toImport, ImportWithWarnings(G) PROVE WorkInv'
  BY <1>12 DEF ImportWithWarnings, AfterCall, OpenBlock, IInv, WorkInv
<1>13. ASSUME NEW G \in SUBSET toImport, ImportFails(G) PROVE WorkInv'
  BY <1>13 DEF ImportFails, IInv, WorkInv
<1>14. ASSUME NEW c \in pending, MarkFailed(c) PROVE WorkInv'
  BY <1>14 DEF MarkFailed, UpsertNow, IInv, WorkInv, ChunksOf
<1>15. ASSUME NEW c \in pending, ExportChunk(c) PROVE WorkInv'
  BY <1>15 DEF ExportChunk, IInv, WorkInv, TypeOK
<1>16. ASSUME NEW c \in pending, ExportRaises(c) PROVE WorkInv'
  BY <1>16 DEF ExportRaises, UpsertDeferred, IInv, WorkInv, ChunksOf
<1>17. ASSUME RecordCompleted PROVE WorkInv'
  BY <1>17 DEF RecordCompleted, UpsertDeferred, IInv, WorkInv, ChunksOf
<1>18. ASSUME RecordFailed PROVE WorkInv'
  BY <1>18 DEF RecordFailed, UpsertDeferred, IInv, WorkInv, ChunksOf
<1>19. ASSUME EndBatch PROVE WorkInv'
  BY <1>19 DEF EndBatch, CommitBlock, IInv, WorkInv
<1>20. ASSUME NEW e \in flush, Sidecar(e) PROVE WorkInv'
  BY <1>20 DEF Sidecar, WriteSidecar, SidecarError, IInv, WorkInv
<1>21. ASSUME FinishRun PROVE WorkInv'
  BY <1>21 DEF FinishRun, ForgetRun, WorkInv, ChunksOf
<1>22. ASSUME NewStaging PROVE WorkInv'
  BY <1>22 DEF NewStaging, IInv, WorkInv
<1>23. ASSUME Abort PROVE WorkInv'
  BY <1>23 DEF Abort, ForgetRun, WorkInv, ChunksOf
<1>24. CASE UNCHANGED vars
  BY <1>24 DEF vars, IInv, WorkInv
<1>. QED
  BY <1>1, <1>2, <1>3, <1>4, <1>5, <1>6, <1>7, <1>8, <1>9, <1>10, <1>11, <1>12,
     <1>13, <1>14, <1>15, <1>16, <1>17, <1>18, <1>19, <1>20, <1>21, <1>22, <1>23, <1>24
     DEF Next, RunStep, RaiseImportError, CommitFails, OracleError, Crash

-----------------------------------------------------------------------------
\* What staging holds for it.
LEMMA StageStep == IInv /\ [Next]_vars => StageInv'
<1>. SUFFICES ASSUME IInv, [Next]_vars PROVE StageInv'
  OBVIOUS
<1>1. ASSUME NEW d \in Dest, StartRun(d) PROVE StageInv'
  BY <1>1 DEF StartRun, TablesToClear, StageInv, ChunksOf
<1>2. ASSUME NEW t \in Table, DeleteRows(t) PROVE StageInv'
  BY <1>2 DEF DeleteRows, Emptied, IInv, StageInv, Clean, ChunksOf
<1>3. ASSUME NEW t \in Table, DeferDelete(t) PROVE StageInv'
  BY <1>3 DEF DeferDelete, IInv, StageInv, Clean
<1>4. ASSUME NEW t \in Table, DeleteError(t) PROVE StageInv'
  BY <1>4 DEF DeleteError, IInv, StageInv, Clean, ChunksOf
<1>5. ASSUME NEW t \in Table, TruncateTable(t) PROVE StageInv'
  BY <1>5 DEF TruncateTable, Emptied, IInv, StageInv, WorkInv, TypeOK, Clean
<1>6. ASSUME PreclearDone PROVE StageInv'
  BY <1>6 DEF PreclearDone, IInv, StageInv, Clean
<1>7. ASSUME NextPass PROVE StageInv'
  BY <1>7 DEF NextPass, IInv, StageInv, Clean
<1>8. ASSUME PreclearGivesUp PROVE StageInv'
  BY <1>8 DEF PreclearGivesUp, IInv, StageInv, Clean, ChunksOf
<1>9. ASSUME NEW S \in SUBSET left, SkipBatch(S) PROVE StageInv'
  BY <1>9 DEF SkipBatch, IInv, StageInv, Clean, ChunksOf
<1>10. ASSUME NEW S \in SUBSET left, StartBatch(S) PROVE StageInv'
  BY <1>10 DEF StartBatch, PendingOf, TablesOf, IInv, StageInv, Clean, ChunksOf
<1>11. ASSUME NEW G \in SUBSET toImport, ImportChunks(G) PROVE StageInv'
  BY ConvertAssumption, <1>11
     DEF ImportChunks, AfterCall, Loaded, IInv, StageInv, WorkInv, TypeOK, Clean,
         Exact, ChunksOf
<1>12. ASSUME NEW G \in SUBSET toImport, ImportWithWarnings(G) PROVE StageInv'
  BY <1>12 DEF ImportWithWarnings, AfterCall, Loaded, IInv, StageInv, TypeOK,
               Clean, Exact, ChunksOf
<1>13. ASSUME NEW G \in SUBSET toImport, ImportFails(G) PROVE StageInv'
  BY <1>13 DEF ImportFails, Loaded, IInv, StageInv, WorkInv, TypeOK, Clean, ChunksOf
<1>14. ASSUME NEW c \in pending, MarkFailed(c) PROVE StageInv'
  BY <1>14 DEF MarkFailed, IInv, StageInv, Clean
<1>15. ASSUME NEW c \in pending, ExportChunk(c) PROVE StageInv'
  BY <1>15 DEF ExportChunk, IInv, StageInv, Clean, Exact
<1>16. ASSUME NEW c \in pending, ExportRaises(c) PROVE StageInv'
  BY <1>16 DEF ExportRaises, IInv, StageInv, Clean, Exact
<1>17. ASSUME RecordCompleted PROVE StageInv'
  BY <1>17 DEF RecordCompleted, IInv, StageInv, Clean, Exact
<1>18. ASSUME RecordFailed PROVE StageInv'
  BY <1>18 DEF RecordFailed, IInv, StageInv, Clean, Exact
<1>19. ASSUME EndBatch PROVE StageInv'
  BY <1>19 DEF EndBatch, IInv, StageInv, Clean
<1>20. ASSUME NEW e \in flush, Sidecar(e) PROVE StageInv'
  BY <1>20 DEF Sidecar, IInv, StageInv, Clean, Exact
<1>21. ASSUME FinishRun PROVE StageInv'
  BY <1>21 DEF FinishRun, ForgetRun, StageInv
<1>22. ASSUME NewStaging PROVE StageInv'
  BY <1>22 DEF NewStaging, StageInv
<1>23. ASSUME Abort PROVE StageInv'
  BY <1>23 DEF Abort, ForgetRun, StageInv
<1>24. CASE UNCHANGED vars
  BY <1>24 DEF vars, IInv, StageInv, Clean, Exact
<1>. QED
  BY <1>1, <1>2, <1>3, <1>4, <1>5, <1>6, <1>7, <1>8, <1>9, <1>10, <1>11, <1>12,
     <1>13, <1>14, <1>15, <1>16, <1>17, <1>18, <1>19, <1>20, <1>21, <1>22, <1>23, <1>24
     DEF Next, RunStep, RaiseImportError, CommitFails, OracleError, Crash

-----------------------------------------------------------------------------
\* Every completion has its file.
LEMMA OutputStep == IInv /\ [Next]_vars => OutputInv'
<1>. SUFFICES ASSUME IInv, [Next]_vars PROVE OutputInv'
  OBVIOUS
<1>1. ASSUME NEW d \in Dest, StartRun(d) PROVE OutputInv'
  BY <1>1 DEF StartRun, IInv, OutputInv
<1>2. ASSUME NEW t \in Table, DeleteRows(t) PROVE OutputInv'
  BY <1>2 DEF DeleteRows, IInv, OutputInv
<1>3. ASSUME NEW t \in Table, DeferDelete(t) PROVE OutputInv'
  BY <1>3 DEF DeferDelete, IInv, OutputInv
<1>4. ASSUME NEW t \in Table, DeleteError(t) PROVE OutputInv'
  BY <1>4 DEF DeleteError, IInv, OutputInv
<1>5. ASSUME NEW t \in Table, TruncateTable(t) PROVE OutputInv'
  BY <1>5 DEF TruncateTable, IInv, OutputInv
<1>6. ASSUME PreclearDone PROVE OutputInv'
  BY <1>6 DEF PreclearDone, IInv, OutputInv
<1>7. ASSUME NextPass PROVE OutputInv'
  BY <1>7 DEF NextPass, IInv, OutputInv
<1>8. ASSUME PreclearGivesUp PROVE OutputInv'
  BY <1>8 DEF PreclearGivesUp, IInv, OutputInv
<1>9. ASSUME NEW S \in SUBSET left, SkipBatch(S) PROVE OutputInv'
  BY <1>9 DEF SkipBatch, IInv, OutputInv
<1>10. ASSUME NEW S \in SUBSET left, StartBatch(S) PROVE OutputInv'
  <2>. DEFINE P == PendingOf(S)
  <2>1. UpsertBlock(P, Running) /\ UNCHANGED <<file, suspect>>
    BY <1>10 DEF StartBatch
  <2>2. \A c \in Chunk : IsCompleted(tx'[c]) => tx'[c] = tx[c]
    BY <2>1, CompletedRow DEF UpsertBlock
  <2>. QED BY <2>1, <2>2 DEF IInv, OutputInv
<1>11. ASSUME NEW G \in SUBSET toImport, ImportChunks(G) PROVE OutputInv'
  <2>1. UNCHANGED <<tx, file, suspect>>
    BY <1>11 DEF ImportChunks, AfterCall, OpenBlock
  <2>. QED BY <2>1 DEF IInv, OutputInv
<1>12. ASSUME NEW G \in SUBSET toImport, ImportWithWarnings(G) PROVE OutputInv'
  <2>1. UNCHANGED <<tx, file, suspect>>
    BY <1>12 DEF ImportWithWarnings, AfterCall, OpenBlock
  <2>. QED BY <2>1 DEF IInv, OutputInv
<1>13. ASSUME NEW G \in SUBSET toImport, ImportFails(G) PROVE OutputInv'
  BY <1>13 DEF ImportFails, IInv, OutputInv
<1>14. ASSUME NEW c \in pending, MarkFailed(c) PROVE OutputInv'
  BY <1>14 DEF MarkFailed, UpsertNow, Failed, IInv, OutputInv, IsCompleted
<1>15. ASSUME NEW c \in pending, ExportChunk(c) PROVE OutputInv'
  BY <1>15 DEF ExportChunk, IInv, OutputInv, WorkInv, StoreInv, StageInv
<1>16. ASSUME NEW c \in pending, ExportRaises(c) PROVE OutputInv'
  BY <1>16 DEF ExportRaises, UpsertDeferred, Failed, IInv, OutputInv, IsCompleted
<1>17. ASSUME RecordCompleted PROVE OutputInv'
  BY <1>17 DEF RecordCompleted, UpsertDeferred, Completed, IInv, OutputInv,
               WorkInv, StageInv, Exact
<1>18. ASSUME RecordFailed PROVE OutputInv'
  BY <1>18 DEF RecordFailed, UpsertDeferred, Failed, IInv, OutputInv, IsCompleted
<1>19. ASSUME EndBatch PROVE OutputInv'
  BY <1>19 DEF EndBatch, CommitBlock, IInv, OutputInv
<1>20. ASSUME NEW e \in flush, Sidecar(e) PROVE OutputInv'
  BY <1>20 DEF Sidecar, WriteSidecar, SidecarError, IInv, OutputInv
<1>21. ASSUME FinishRun PROVE OutputInv'
  BY <1>21 DEF FinishRun, CloseStore, IInv, OutputInv, StoreInv
<1>22. ASSUME NewStaging PROVE OutputInv'
  BY <1>22 DEF NewStaging, IInv, OutputInv
<1>23. ASSUME Abort PROVE OutputInv'
  BY <1>23 DEF Abort, CloseStore, IInv, OutputInv, StoreInv
<1>24. CASE UNCHANGED vars
  BY <1>24 DEF vars, IInv, OutputInv
<1>. QED
  BY <1>1, <1>2, <1>3, <1>4, <1>5, <1>6, <1>7, <1>8, <1>9, <1>10, <1>11, <1>12,
     <1>13, <1>14, <1>15, <1>16, <1>17, <1>18, <1>19, <1>20, <1>21, <1>22, <1>23, <1>24
     DEF Next, RunStep, RaiseImportError, CommitFails, OracleError, Crash

\* A step that leaves completed rows, the results and the report alone.
LEMMA CompletedRowsKept ==
    ASSUME IInv,
           \A c \in Chunk : IsCompleted(tx[c]) => tx'[c] = tx[c],
           \A c \in Chunk : IsCompleted(db[c]) => db'[c] = db[c],
           report' = report, results' = results
    PROVE  ResultInv'
<1>1. \A e \in report.successful : db[e.chunk] = Completed(e.rows)
  BY DEF IInv, ResultInv, ReportIsDurable
<1>2. \A e \in report.successful : IsCompleted(db[e.chunk])
  BY <1>1, ResultRows
<1>. QED BY <1>1, ResultRows DEF ResultInv, ReportIsDurable

\* An upsert that records anything but a completion.
LEMMA UpsertKeepsResults ==
    ASSUME IInv, NEW c \in pending, NEW row, ~IsCompleted(row),
           UpsertNow(c, row) \/ UpsertDeferred(c, row),
           report' = report, results' = results
    PROVE  ResultInv'
<1>1. ~IsCompleted(tx[c]) /\ c \in Chunk
  BY DEF IInv, WorkInv, TypeOK
<1>2. \A x \in Chunk \ {c} : tx'[x] = tx[x]
  BY DEF UpsertNow, UpsertDeferred, IInv, TypeOK, StoreTypeOK
<1>3. \A x \in Chunk : IsCompleted(tx[x]) => tx'[x] = tx[x]
  BY <1>1, <1>2
<1>4. \A x \in Chunk : IsCompleted(db[x]) => db'[x] = db[x]
  BY <1>3 DEF UpsertNow, UpsertDeferred, IInv, StoreInv
<1>. QED BY <1>3, <1>4, CompletedRowsKept

-----------------------------------------------------------------------------
\* Results and reports give the rows of completions.
LEMMA ResultStep == IInv /\ [Next]_vars => ResultInv'
<1>. SUFFICES ASSUME IInv, [Next]_vars PROVE ResultInv'
  OBVIOUS
<1>1. ASSUME NEW d \in Dest, StartRun(d) PROVE ResultInv'
  BY <1>1 DEF StartRun, IInv, ResultInv, ReportIsDurable
<1>2. ASSUME NEW t \in Table, DeleteRows(t) PROVE ResultInv'
  BY <1>2 DEF DeleteRows, IInv, ResultInv, ReportIsDurable
<1>3. ASSUME NEW t \in Table, DeferDelete(t) PROVE ResultInv'
  BY <1>3 DEF DeferDelete, IInv, ResultInv, ReportIsDurable
<1>4. ASSUME NEW t \in Table, DeleteError(t) PROVE ResultInv'
  BY <1>4 DEF DeleteError, IInv, ResultInv, ReportIsDurable
<1>5. ASSUME NEW t \in Table, TruncateTable(t) PROVE ResultInv'
  BY <1>5 DEF TruncateTable, IInv, ResultInv, ReportIsDurable
<1>6. ASSUME PreclearDone PROVE ResultInv'
  BY <1>6 DEF PreclearDone, IInv, ResultInv, ReportIsDurable
<1>7. ASSUME NextPass PROVE ResultInv'
  BY <1>7 DEF NextPass, IInv, ResultInv, ReportIsDurable
<1>8. ASSUME PreclearGivesUp PROVE ResultInv'
  BY <1>8 DEF PreclearGivesUp, IInv, ResultInv, ReportIsDurable
<1>9. ASSUME NEW S \in SUBSET left, SkipBatch(S) PROVE ResultInv'
  <2>1. UNCHANGED <<tx, db, report>> /\ results' = results \cup Rehydrated(S)
    BY <1>9 DEF SkipBatch
  <2>. QED BY <2>1, RehydratedRows DEF IInv, ResultInv, ReportIsDurable
<1>10. ASSUME NEW S \in SUBSET left, StartBatch(S) PROVE ResultInv'
  <2>1. UpsertBlock(PendingOf(S), Running) /\ report' = report /\ results' = results \cup Rehydrated(S)
    BY <1>10 DEF StartBatch
  <2>2. \A c \in PendingOf(S) : ~IsCompleted(tx[c])
    BY PendingUntouched
  <2>3. \A c \in Chunk \ PendingOf(S) : tx'[c] = tx[c] /\ db'[c] = tx[c]
    BY <2>1 DEF UpsertBlock
  <2>4. \A e \in results \cup report.successful : e.chunk \in Chunk \ PendingOf(S)
    BY <2>2, ResultRows
  <2>. QED BY <2>1, <2>3, <2>4, ResultRows, RehydratedRows
              DEF ResultInv, ReportIsDurable
<1>11. ASSUME NEW G \in SUBSET toImport, ImportChunks(G) PROVE ResultInv'
  BY <1>11 DEF ImportChunks, AfterCall, OpenBlock, IInv, ResultInv, ReportIsDurable
<1>12. ASSUME NEW G \in SUBSET toImport, ImportWithWarnings(G) PROVE ResultInv'
  BY <1>12 DEF ImportWithWarnings, AfterCall, OpenBlock, IInv, ResultInv,
               ReportIsDurable
<1>13. ASSUME NEW G \in SUBSET toImport, ImportFails(G) PROVE ResultInv'
  BY <1>13 DEF ImportFails, IInv, ResultInv, ReportIsDurable
<1>14. ASSUME NEW c \in pending, MarkFailed(c) PROVE ResultInv'
  BY <1>14, CompletedRow, UpsertKeepsResults DEF MarkFailed
<1>15. ASSUME NEW c \in pending, ExportChunk(c) PROVE ResultInv'
  BY <1>15 DEF ExportChunk, IInv, ResultInv, ReportIsDurable
<1>16. ASSUME NEW c \in pending, ExportRaises(c) PROVE ResultInv'
  BY <1>16, CompletedRow, UpsertKeepsResults DEF ExportRaises
<1>17. ASSUME RecordCompleted PROVE ResultInv'
  BY <1>17 DEF RecordCompleted, UpsertDeferred, Completed, IInv, ResultInv,
               WorkInv, TypeOK, StoreTypeOK, IsCompleted, ReportIsDurable
<1>18. ASSUME RecordFailed PROVE ResultInv'
  <2>1. cur \in pending
    BY <1>18 DEF RecordFailed, IInv, WorkInv
  <2>. QED BY <1>18, <2>1, CompletedRow, UpsertKeepsResults DEF RecordFailed
<1>19. ASSUME EndBatch PROVE ResultInv'
  <2>1. db' = tx /\ tx' = tx /\ report' = report /\ results' = results
    BY <1>19 DEF EndBatch, CommitBlock
  <2>. QED BY <2>1, ResultRows DEF ResultInv, ReportIsDurable
<1>20. ASSUME NEW e \in flush, Sidecar(e) PROVE ResultInv'
  BY <1>20 DEF Sidecar, WriteSidecar, SidecarError, IInv, ResultInv, ReportIsDurable
<1>21. ASSUME FinishRun PROVE ResultInv'
  BY <1>21 DEF FinishRun, ForgetRun, CloseStore, IInv, ResultInv, StoreInv,
               ReportIsDurable
<1>22. ASSUME NewStaging PROVE ResultInv'
  BY <1>22 DEF NewStaging, IInv, ResultInv, ReportIsDurable
<1>23. ASSUME Abort PROVE ResultInv'
  BY <1>23 DEF Abort, ForgetRun, CloseStore, IInv, ResultInv, ReportIsDurable
<1>24. CASE UNCHANGED vars
  BY <1>24 DEF vars, IInv, ResultInv, ReportIsDurable
<1>. QED
  BY <1>1, <1>2, <1>3, <1>4, <1>5, <1>6, <1>7, <1>8, <1>9, <1>10, <1>11, <1>12,
     <1>13, <1>14, <1>15, <1>16, <1>17, <1>18, <1>19, <1>20, <1>21, <1>22, <1>23, <1>24
     DEF Next, RunStep, RaiseImportError, CommitFails, OracleError, Crash

-----------------------------------------------------------------------------
\* Every table is accounted for.
LEMMA AccountStep == IInv /\ [Next]_vars => AccountInv'
<1>. SUFFICES ASSUME IInv, [Next]_vars PROVE AccountInv'
  OBVIOUS
<1>1. ASSUME NEW d \in Dest, StartRun(d) PROVE AccountInv'
  BY <1>1 DEF StartRun, IInv, AccountInv, WorkInv
<1>2. ASSUME NEW t \in Table, DeleteRows(t) PROVE AccountInv'
  BY <1>2 DEF DeleteRows, IInv, AccountInv
<1>3. ASSUME NEW t \in Table, DeferDelete(t) PROVE AccountInv'
  BY <1>3 DEF DeferDelete, IInv, AccountInv
<1>4. ASSUME NEW t \in Table, DeleteError(t) PROVE AccountInv'
  BY <1>4 DEF DeleteError, IInv, AccountInv
<1>5. ASSUME NEW t \in Table, TruncateTable(t) PROVE AccountInv'
  BY <1>5 DEF TruncateTable, IInv, AccountInv
<1>6. ASSUME PreclearDone PROVE AccountInv'
  BY <1>6 DEF PreclearDone, IInv, AccountInv
<1>7. ASSUME NextPass PROVE AccountInv'
  BY <1>7 DEF NextPass, IInv, AccountInv
<1>8. ASSUME PreclearGivesUp PROVE AccountInv'
  BY <1>8 DEF PreclearGivesUp, IInv, AccountInv
<1>9. ASSUME NEW S \in SUBSET left, SkipBatch(S) PROVE AccountInv'
  <2>1. UNCHANGED <<tx, pending, pc, batch, present>> /\ pending = {} /\ pc # "idle"
    BY <1>9 DEF SkipBatch, IInv, WorkInv
  <2>2. /\ left' = left \ S /\ converted' = converted \cup S
        /\ results' = results \cup Rehydrated(S) /\ PendingOf(S) = {}
    BY <1>9 DEF SkipBatch
  <2>3. \A c \in ChunksOf(S) : IsCompleted(tx[c]) /\ \E e \in Rehydrated(S) : e.chunk = c
    BY <2>2, RehydratedRows
  <2>4. \A e \in Rehydrated(S) : TableOf[e.chunk] \in S
    BY RehydratedRows
  <2>. QED BY <2>1, <2>2, <2>3, <2>4 DEF IInv, AccountInv, ChunksOf
<1>10. ASSUME NEW S \in SUBSET left, StartBatch(S) PROVE AccountInv'
  <2>1. /\ pc' \in {"truncate", "import"} /\ pending = {} /\ batch = {} /\ pc # "idle"
        /\ pending' = PendingOf(S) /\ left' = left \ S /\ batch' = S
        /\ results' = results \cup Rehydrated(S) /\ UNCHANGED <<converted, present>>
        /\ UpsertBlock(PendingOf(S), Running)
    BY <1>10 DEF StartBatch, IInv, WorkInv
  <2>2. \A c \in Chunk \ PendingOf(S) : tx'[c] = tx[c]
    BY <2>1 DEF UpsertBlock
  <2>3. \A c \in ChunksOf(S) \ PendingOf(S) :
            IsCompleted(tx[c]) /\ \E e \in Rehydrated(S) : e.chunk = c
    BY RehydratedRows
  <2>4. \A e \in Rehydrated(S) : TableOf[e.chunk] \in S
    BY RehydratedRows
  <2>. QED BY <2>1, <2>2, <2>3, <2>4 DEF IInv, AccountInv, ChunksOf
<1>11. ASSUME NEW G \in SUBSET toImport, ImportChunks(G) PROVE AccountInv'
  BY <1>11 DEF ImportChunks, AfterCall, OpenBlock, IInv, AccountInv
<1>12. ASSUME NEW G \in SUBSET toImport, ImportWithWarnings(G) PROVE AccountInv'
  BY <1>12 DEF ImportWithWarnings, AfterCall, OpenBlock, IInv, AccountInv
<1>13. ASSUME NEW G \in SUBSET toImport, ImportFails(G) PROVE AccountInv'
  BY <1>13 DEF ImportFails, IInv, AccountInv
<1>14. ASSUME NEW c \in pending, MarkFailed(c) PROVE AccountInv'
  BY <1>14 DEF MarkFailed, UpsertNow, Failed, IInv, AccountInv, TypeOK,
               StoreTypeOK, ChunksOf
<1>15. ASSUME NEW c \in pending, ExportChunk(c) PROVE AccountInv'
  BY <1>15 DEF ExportChunk, IInv, AccountInv
<1>16. ASSUME NEW c \in pending, ExportRaises(c) PROVE AccountInv'
  BY <1>16 DEF ExportRaises, UpsertDeferred, Failed, IInv, AccountInv, TypeOK,
               StoreTypeOK, ChunksOf
<1>17. ASSUME RecordCompleted PROVE AccountInv'
  <2>1. cur \in pending /\ TableOf[cur] \in batch /\ cur \in Chunk
    BY <1>17 DEF RecordCompleted, IInv, WorkInv, TypeOK
  <2>2. /\ tx' = [tx EXCEPT ![cur] = Completed(written)] /\ written \in Nat
        /\ results' = results \cup {[chunk |-> cur, rows |-> written]}
        /\ pending' = pending \ {cur} /\ pc' = "export" /\ pc # "idle"
        /\ UNCHANGED <<converted, batch, left, present>>
    BY <1>17 DEF RecordCompleted, UpsertDeferred, IInv, TypeOK
  <2>3. IsCompleted(tx'[cur]) /\ \A c \in Chunk \ {cur} : tx'[c] = tx[c]
    BY <2>1, <2>2, CompletedRow DEF IInv, TypeOK, StoreTypeOK
  <2>4. \E e \in results' : e.chunk = cur
    <3>1. [chunk |-> cur, rows |-> written] \in results'
      BY <2>2
    <3>. QED BY <3>1
  <2>5. \A c \in ChunksOf(converted \cup batch) \ pending' : c # cur =>
            c \in ChunksOf(converted \cup batch) \ pending /\ tx'[c] = tx[c]
    BY <2>2
  <2>6. \A c \in ChunksOf(converted' \cup batch') \ pending' :
            \/ tx'[c].status = "failed"
            \/ IsCompleted(tx'[c]) /\ \E e \in results' : e.chunk = c
    BY <2>2, <2>3, <2>4 DEF IInv, AccountInv
  <2>7. \A e \in results' : TableOf[e.chunk] \in converted \cup batch
    BY <2>1, <2>2 DEF IInv, AccountInv
  <2>. QED BY <2>2, <2>6, <2>7 DEF IInv, AccountInv
<1>18. ASSUME RecordFailed PROVE AccountInv'
  BY <1>18 DEF RecordFailed, UpsertDeferred, Failed, IInv, AccountInv, TypeOK,
               StoreTypeOK, ChunksOf
<1>19. ASSUME EndBatch PROVE AccountInv'
  BY <1>19 DEF EndBatch, CommitBlock, IInv, AccountInv
<1>20. ASSUME NEW e \in flush, Sidecar(e) PROVE AccountInv'
  BY <1>20 DEF Sidecar, WriteSidecar, SidecarError, IInv, AccountInv
<1>21. ASSUME FinishRun PROVE AccountInv'
  BY <1>21 DEF FinishRun, ForgetRun, AccountInv, ChunksOf
<1>22. ASSUME NewStaging PROVE AccountInv'
  BY <1>22 DEF NewStaging, IInv, AccountInv
<1>23. ASSUME Abort PROVE AccountInv'
  BY <1>23 DEF Abort, ForgetRun, AccountInv, ChunksOf
<1>24. CASE UNCHANGED vars
  BY <1>24 DEF vars, IInv, AccountInv
<1>. QED
  BY <1>1, <1>2, <1>3, <1>4, <1>5, <1>6, <1>7, <1>8, <1>9, <1>10, <1>11, <1>12,
     <1>13, <1>14, <1>15, <1>16, <1>17, <1>18, <1>19, <1>20, <1>21, <1>22, <1>23, <1>24
     DEF Next, RunStep, RaiseImportError, CommitFails, OracleError, Crash

-----------------------------------------------------------------------------
(***************************************************************************)
(* The theorems.                                                           *)
(***************************************************************************)

\* The parts of IInv put together: it holds at first ...
LEMMA InvInit == Init => IInv
<1>. SUFFICES ASSUME Init PROVE IInv
  OBVIOUS
<1>1. TypeOK
  BY TypeInit
<1>2. StoreInv /\ WorkInv /\ StageInv
  BY DEF Init, StoreInit, StoreInv, WorkInv, StageInv
<1>3. OutputInv /\ ResultInv /\ AccountInv
  BY DEF Init, StoreInit, OutputInv, ResultInv, ReportIsDurable, NoReport, NoRow,
         AccountInv, ChunksOf, IsCompleted
<1>. QED BY <1>1, <1>2, <1>3 DEF IInv

\* ... and one step keeps it.
LEMMA InvStep == IInv /\ [Next]_vars => IInv'
<1>1. IInv => TypeOK /\ WorkInv
  BY DEF IInv
<1>. QED
  BY TypeStep, StoreStep, WorkStep, StageStep, OutputStep, ResultStep, AccountStep
     DEF IInv

\* The inductive invariant holds in every state of every execution.
THEOREM Invariance == Spec => []IInv
  BY InvInit, InvStep, PTL DEF Spec

\* Every variable keeps its type.
THEOREM TypeCorrect == Spec => []TypeOK
<1>1. IInv => TypeOK
  BY DEF IInv
<1>. QED BY <1>1, Invariance, PTL

\* A completed chunk about which no warning was logged has, at some
\* destination, a file with exactly its rows of the dump: whatever failed,
\* was killed and was resumed before.
THEOREM CompletedChunksExact == Spec => []NoSilentCorruption
<1>1. IInv => NoSilentCorruption
  BY DEF IInv, StoreInv, OutputInv, NoSilentCorruption
<1>. QED BY <1>1, Invariance, PTL

\* A sidecar on disk always agrees with a committed row.
THEOREM SidecarsDurable == Spec => []SidecarsFollowCommit
<1>1. IInv => SidecarsFollowCommit
  BY DEF IInv, StoreInv, SidecarsFollowCommit
<1>. QED BY <1>1, Invariance, PTL

\* A report lists only chunks that are durably completed, with their rows.
THEOREM ReportsDurable == Spec => []ReportIsDurable
<1>1. IInv => ReportIsDurable
  BY DEF IInv, ResultInv
<1>. QED BY <1>1, Invariance, PTL

\* A run that reaches its report has dealt with every chunk of every
\* supported table, and reports exactly the completed ones.
THEOREM FinishAccounts == Spec => FinishAccountsForAll
<1>. DEFINE chunks == ChunksOf(present \ Unsupported)
<1>1. ASSUME IInv, FinishRun
      PROVE  /\ \A c \in chunks : db'[c].status \in {"completed", "failed"}
             /\ {e.chunk : e \in report'.successful} = {c \in chunks : IsCompleted(db'[c])}
  <2>1. pending = {} /\ converted = present \ Unsupported /\ batch = {} /\ tx = db
    BY <1>1 DEF FinishRun, LoopDone, IInv, WorkInv, StoreInv, AccountInv
  <2>2. db' = tx /\ report'.successful = results
    BY <1>1, <2>1 DEF FinishRun, CloseStore
  <2>3. \A c \in chunks : \/ tx[c].status = "failed"
                          \/ IsCompleted(tx[c]) /\ \E e \in results : e.chunk = c
    BY <1>1, <2>1 DEF IInv, AccountInv
  <2>4. \A e \in results : e.chunk \in chunks /\ IsCompleted(tx[e.chunk])
    BY <1>1, ResultRows DEF IInv, AccountInv, ChunksOf
  <2>5. \A c \in chunks : tx[c].status \in {"completed", "failed"}
    BY <2>3 DEF IsCompleted
  <2>6. {e.chunk : e \in results} = {c \in chunks : IsCompleted(tx[c])}
    BY <2>3, <2>4 DEF IsCompleted
  <2>. QED BY <2>2, <2>5, <2>6
<1>2. IInv /\ [Next]_vars => [FinishRun =>
         LET cs == ChunksOf(present \ Unsupported)
         IN  /\ \A c \in cs : db'[c].status \in {"completed", "failed"}
             /\ {e.chunk : e \in report'.successful} = {c \in cs : IsCompleted(db'[c])}]_vars
  BY <1>1
<1>. QED BY <1>2, Invariance, PTL DEF FinishAccountsForAll, Spec

-----------------------------------------------------------------------------
(***************************************************************************)
(* How far the findings reach: what two runs find violated holds as soon   *)
(* as nothing happens of what their counterexamples need.                  *)
(***************************************************************************)

\* Nothing is warned about that keeps an import from being exact: the tool
\* reports no warnings, and staging is truncated (legacy dumps), or no DELETE
\* of the pre-clear fails and no constraint that staging keeps defers one.
NothingLeftBehind ==
    /\ "import_warning" \notin Faults
    /\ Legacy \/ /\ "delete_error" \notin Faults
                 /\ \A t \in Table : Parent[t] = NoTable

QuietInv == warned = {} /\ suspect = {} /\ (Legacy \/ remaining = {})

\* One step keeps it.
LEMMA QuietStep ==
    ASSUME NothingLeftBehind
    PROVE  IInv /\ QuietInv /\ [Next]_vars => QuietInv'
<1>. SUFFICES ASSUME IInv, QuietInv, [Next]_vars PROVE QuietInv'
  OBVIOUS
<1>. DEFINE Kept == UNCHANGED <<warned, suspect, remaining>>
<1>1. Kept => QuietInv'
  BY DEF QuietInv
<1>2. pc = "preclear" => ~Legacy
  BY DEF IInv, StageInv
<1>3. ASSUME NEW t \in Table, DeferDelete(t) PROVE FALSE
  <2>1. ~Legacy /\ ChildRowFound(t)
    BY <1>2, <1>3 DEF DeferDelete
  <2>2. PICK u \in Table : Parent[u] = t
    BY <2>1 DEF ChildRowFound
  <2>. QED BY <2>1, <2>2, ConvertAssumption DEF NothingLeftBehind
<1>4. ASSUME NEW t \in Table, DeleteError(t) PROVE FALSE
  BY <1>2, <1>4 DEF DeleteError, NothingLeftBehind
<1>5. ASSUME PreclearGivesUp PROVE FALSE
  BY <1>2, <1>5 DEF PreclearGivesUp, QuietInv
<1>6. ASSUME NEW G \in SUBSET toImport, ImportWithWarnings(G) PROVE FALSE
  BY <1>6 DEF ImportWithWarnings, NothingLeftBehind
<1>7. ASSUME RecordCompleted PROVE QuietInv'
  BY <1>7 DEF RecordCompleted, QuietInv
<1>8. ASSUME NextPass PROVE QuietInv'
  BY <1>8 DEF NextPass, QuietInv
<1>9. ASSUME Abort \/ FinishRun PROVE QuietInv'
  BY <1>9 DEF Abort, FinishRun, ForgetRun, QuietInv
<1>10. ASSUME NEW t \in Table, DeleteRows(t) \/ TruncateTable(t) PROVE Kept
  BY <1>10 DEF DeleteRows, TruncateTable
<1>11. ASSUME NEW S \in SUBSET left, SkipBatch(S) \/ StartBatch(S) PROVE Kept
  BY <1>11 DEF SkipBatch, StartBatch
<1>12. ASSUME NEW G \in SUBSET toImport, ImportChunks(G) \/ ImportFails(G) PROVE Kept
  BY <1>12 DEF ImportChunks, ImportFails
<1>13. ASSUME NEW c \in pending, MarkFailed(c) \/ ExportChunk(c) \/ ExportRaises(c)
       PROVE  Kept
  BY <1>13 DEF MarkFailed, ExportChunk, ExportRaises
<1>14. ASSUME NEW e \in flush, Sidecar(e) PROVE Kept
  BY <1>14 DEF Sidecar
<1>15. ASSUME NEW d \in Dest, StartRun(d) PROVE Kept
  BY <1>15 DEF StartRun
<1>16. ASSUME PreclearDone \/ RecordFailed \/ EndBatch \/ NewStaging \/ UNCHANGED vars
       PROVE  Kept
  BY <1>16 DEF PreclearDone, RecordFailed, EndBatch, NewStaging, vars
<1>. HIDE DEF Kept
<1>. QED
  BY <1>1, <1>3, <1>4, <1>5, <1>6, <1>7, <1>8, <1>9, <1>10, <1>11, <1>12, <1>13, <1>14,
     <1>15, <1>16
     DEF Next, RunStep, RaiseImportError, CommitFails, OracleError, Crash

\* Redoing a batch is idempotent where nothing is left behind: kills, failed
\* and repeated imports, failed exports and commits do no harm by themselves.
THEOREM ReimportIdempotent ==
    ASSUME NothingLeftBehind
    PROVE  Spec => []ReimportIsIdempotent
<1>1. Init => IInv /\ QuietInv
  BY InvInit DEF Init, QuietInv
<1>2. (IInv /\ QuietInv) /\ [Next]_vars => (IInv /\ QuietInv)'
  BY InvStep, QuietStep
<1>3. IInv /\ QuietInv => ReimportIsIdempotent
  BY DEF IInv, StoreInv, OutputInv, QuietInv, ReimportIsIdempotent
<1>. QED BY <1>1, <1>2, <1>3, PTL DEF Spec

\* Without export errors every chunk a run is through with is completed, but
\* for those of the batch whose import error is about to end the run.
ExportedInv ==
    /\ pc = "check" => written = staged[cur]
    /\ pc # "mark_failed" =>
          \A c \in ChunksOf(converted \cup batch) \ pending : IsCompleted(tx[c])

\* One step keeps it.
LEMMA ExportedStep ==
    ASSUME "export_error" \notin Faults
    PROVE  IInv /\ ExportedInv /\ [Next]_vars => ExportedInv'
<1>. SUFFICES ASSUME IInv, ExportedInv, [Next]_vars PROVE ExportedInv'
  OBVIOUS
<1>1. ASSUME NEW S \in SUBSET left, SkipBatch(S) PROVE ExportedInv'
  <2>1. /\ UNCHANGED <<tx, pending, pc, batch>> /\ pc = "batch" /\ pending = {}
        /\ converted' = converted \cup S /\ PendingOf(S) = {}
    BY <1>1 DEF SkipBatch, IInv, WorkInv
  <2>2. \A c \in ChunksOf(S) : IsCompleted(tx[c])
    BY <2>1, RehydratedRows
  <2>. QED BY <2>1, <2>2 DEF ExportedInv, ChunksOf
<1>2. ASSUME NEW S \in SUBSET left, StartBatch(S) PROVE ExportedInv'
  <2>1. /\ pc' \in {"truncate", "import"} /\ pc = "batch" /\ pending = {} /\ batch = {}
        /\ pending' = PendingOf(S) /\ batch' = S /\ converted' = converted
        /\ UpsertBlock(PendingOf(S), Running)
    BY <1>2 DEF StartBatch, IInv, WorkInv
  <2>2. \A c \in Chunk \ PendingOf(S) : tx'[c] = tx[c]
    BY <2>1 DEF UpsertBlock
  <2>3. \A c \in ChunksOf(S) \ PendingOf(S) : IsCompleted(tx[c])
    BY RehydratedRows
  <2>. QED BY <2>1, <2>2, <2>3 DEF ExportedInv, ChunksOf
<1>3. ASSUME NEW G \in SUBSET toImport, ImportChunks(G) \/ ImportWithWarnings(G)
      PROVE  ExportedInv'
  BY <1>3 DEF ImportChunks, ImportWithWarnings, AfterCall, OpenBlock, ExportedInv
<1>4. ASSUME NEW c \in pending, ExportChunk(c) PROVE ExportedInv'
  BY <1>4 DEF ExportChunk, ExportedInv
<1>5. ASSUME RecordCompleted PROVE ExportedInv'
  <2>1. cur \in pending /\ cur \in Chunk
    BY <1>5 DEF RecordCompleted, IInv, WorkInv, TypeOK
  <2>2. /\ tx' = [tx EXCEPT ![cur] = Completed(written)] /\ written \in Nat
        /\ pending' = pending \ {cur} /\ pc' = "export" /\ pc = "check"
        /\ UNCHANGED <<converted, batch>>
    BY <1>5 DEF RecordCompleted, UpsertDeferred, IInv, TypeOK
  <2>3. IsCompleted(tx'[cur]) /\ \A c \in Chunk \ {cur} : tx'[c] = tx[c]
    BY <2>1, <2>2, CompletedRow DEF IInv, TypeOK, StoreTypeOK
  <2>4. \A c \in ChunksOf(converted \cup batch) \ pending : IsCompleted(tx[c])
    BY <2>2 DEF ExportedInv
  <2>. QED BY <2>2, <2>3, <2>4 DEF ExportedInv, ChunksOf
<1>6. ASSUME RecordFailed PROVE FALSE
  BY <1>6 DEF RecordFailed, ExportedInv
<1>7. ASSUME NEW c \in pending, ExportRaises(c) PROVE FALSE
  BY <1>7 DEF ExportRaises
<1>8. ASSUME EndBatch PROVE ExportedInv'
  BY <1>8 DEF EndBatch, CommitBlock, ExportedInv
<1>9. ASSUME NEW e \in flush, Sidecar(e) PROVE ExportedInv'
  BY <1>9 DEF Sidecar, WriteSidecar, SidecarError, ExportedInv
<1>10. ASSUME Abort \/ FinishRun PROVE ExportedInv'
  BY <1>10 DEF Abort, FinishRun, ForgetRun, ExportedInv, ChunksOf
<1>11. ASSUME NEW G \in SUBSET toImport, ImportFails(G) PROVE pc' = "mark_failed"
  BY <1>11 DEF ImportFails
<1>12. ASSUME NEW c \in pending, MarkFailed(c) PROVE pc' = "mark_failed"
  BY <1>12 DEF MarkFailed
<1>13. pc' = "mark_failed" => ExportedInv'
  BY DEF ExportedInv
<1>14. ASSUME NEW t \in Table,
              DeleteRows(t) \/ DeferDelete(t) \/ DeleteError(t) \/ TruncateTable(t)
       PROVE  ExportedInv'
  BY <1>14 DEF DeleteRows, DeferDelete, DeleteError, TruncateTable, ExportedInv
<1>15. ASSUME PreclearDone \/ NextPass \/ PreclearGivesUp PROVE ExportedInv'
  BY <1>15 DEF PreclearDone, NextPass, PreclearGivesUp, ExportedInv
<1>16. ASSUME NEW d \in Dest, StartRun(d) PROVE ExportedInv'
  BY <1>16 DEF StartRun, ExportedInv
<1>17. ASSUME NewStaging \/ UNCHANGED vars PROVE ExportedInv'
  BY <1>17 DEF NewStaging, vars, ExportedInv
<1>. QED
  BY <1>1, <1>2, <1>3, <1>4, <1>5, <1>6, <1>7, <1>8, <1>9, <1>10, <1>11, <1>12, <1>13,
     <1>14, <1>15, <1>16, <1>17
     DEF Next, RunStep, RaiseImportError, CommitFails, OracleError, Crash

\* A report hides no failure when exports do not fail: failed imports end
\* their run before it reports, and a later run that reports has redone them.
THEOREM ReportsReflect ==
    ASSUME "export_error" \notin Faults
    PROVE  Spec => ReportReflectsFailures
<1>1. Init => IInv /\ ExportedInv
  BY InvInit DEF Init, ExportedInv, ChunksOf
<1>2. (IInv /\ ExportedInv) /\ [Next]_vars => (IInv /\ ExportedInv)'
  BY InvStep, ExportedStep
<1>3. ASSUME IInv, ExportedInv, FinishRun
      PROVE  \A c \in ChunksOf(present \ Unsupported) : db'[c].status # "failed"
  <2>1. pending = {} /\ converted = present \ Unsupported /\ tx = db /\ pc = "batch"
    BY <1>3 DEF FinishRun, LoopDone, IInv, WorkInv, StoreInv, AccountInv
  <2>2. db' = db
    BY <1>3 DEF FinishRun, CloseStore
  <2>3. \A c \in ChunksOf(present \ Unsupported) : IsCompleted(tx[c])
    BY <2>1, <1>3 DEF ExportedInv, ChunksOf
  <2>. QED BY <2>1, <2>2, <2>3 DEF IsCompleted
<1>4. IInv /\ ExportedInv /\ [Next]_vars =>
        [FinishRun => \A c \in ChunksOf(present \ Unsupported) :
                         db'[c].status = "failed" => TableOf[c] \in report'.skipped]_vars
  BY <1>3
<1>. QED BY <1>1, <1>2, <1>4, PTL DEF Spec, ReportReflectsFailures
=============================================================================
