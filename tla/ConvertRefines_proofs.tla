------------------------ MODULE ConvertRefines_proofs ------------------------
(***************************************************************************)
(* Convert implements Resumable: the completed rows of the state database  *)
(* are the chunks done, the output files are its output.                   *)
(***************************************************************************)
EXTENDS Convert_proofs

USE DEF storeVars, envVars, clearVars, exportVars, outcomeVars, ghostVars


\* A step that leaves the completed rows and the files alone is a stutter.
LEMMA Stutter ==
    ASSUME UNCHANGED <<db, file>>
    PROVE  UNCHANGED Abstract!vars
  BY DEF Abstract!vars

\* So is one that completes no chunk and takes no completion back.
LEMMA DoneKept ==
    ASSUME UNCHANGED file, \A c \in Chunk : IsCompleted(db'[c]) <=> IsCompleted(db[c])
    PROVE  UNCHANGED Abstract!vars
  BY DEF Abstract!vars

\* No chunk is completed at first.
LEMMA MapsInit == Init => Abstract!Init
  BY DEF Init, StoreInit, Abstract!Init, IsCompleted, NoRow

\* Writing the file of a chunk that is not completed.
LEMMA MapsExport ==
    ASSUME IInv, NEW c \in pending, ExportChunk(c)
    PROVE  Abstract!Next
<1>1. c \in Chunk /\ dest \in Dest /\ ~IsCompleted(db[c])
  BY DEF IInv, TypeOK, WorkInv, StoreInv, ExportChunk
<1>2. PICK n : file' = [file EXCEPT ![c][dest] = n]
  BY DEF ExportChunk
<1>3. \A x \in Chunk, y \in Dest : <<x, y>> # <<c, dest>> => file'[x][y] = file[x][y]
  BY <1>1, <1>2 DEF IInv, TypeOK
<1>4. UNCHANGED db
  BY DEF ExportChunk
<1>5. Abstract!Write(c, dest)
  BY <1>1, <1>3, <1>4 DEF Abstract!Write
<1>. QED BY <1>1, <1>5 DEF Abstract!Next

\* The commit of the export block finishes the chunks whose completion it
\* makes durable, if there are any.
LEMMA MapsCommit ==
    ASSUME IInv, EndBatch
    PROVE  [Abstract!Next]_Abstract!vars
<1>. DEFINE new == {c \in Chunk : IsCompleted(tx[c]) /\ ~IsCompleted(db[c])}
<1>1. db' = tx /\ file' = file
  BY DEF EndBatch, CommitBlock
<1>2. \A c \in Chunk : IsCompleted(db[c]) => IsCompleted(tx[c])
  BY DEF IInv, StoreInv
<1>3. {c \in Chunk : IsCompleted(db'[c])} = {c \in Chunk : IsCompleted(db[c])} \cup new
  BY <1>1, <1>2 DEF IsCompleted
<1>4. \A c \in new : \E d \in Dest : file[c][d] # NoFile
  <2>1. \A c \in new : tx[c].rows # NoFile
    BY ConvertAssumption, CompletedRow DEF IInv, TypeOK, StoreTypeOK
  <2>. QED BY <2>1 DEF IInv, OutputInv
<1>5. CASE new = {}
  BY <1>1, <1>3, <1>5 DEF Abstract!vars
<1>6. CASE new # {}
  <2>1. Abstract!Finish(new)
    BY <1>1, <1>3, <1>4, <1>6 DEF Abstract!Finish
  <2>. QED BY <2>1 DEF Abstract!Next
<1>. QED BY <1>5, <1>6

\* Every step is a step of Resumable, or a stutter.
LEMMA MapsStep == IInv /\ [Next]_vars => [Abstract!Next]_Abstract!vars
<1>. SUFFICES ASSUME IInv, [Next]_vars PROVE [Abstract!Next]_Abstract!vars
  OBVIOUS
<1>1. ASSUME NEW S \in SUBSET left, StartBatch(S) PROVE UNCHANGED Abstract!vars
  <2>1. tx = db /\ file' = file /\ UpsertBlock(PendingOf(S), Running)
    BY <1>1 DEF StartBatch, IInv, StoreInv
  <2>2. \A c \in PendingOf(S) : ~IsCompleted(db[c]) /\ ~IsCompleted(db'[c])
    BY <2>1, PendingUntouched, CompletedRow DEF UpsertBlock
  <2>3. \A c \in Chunk \ PendingOf(S) : db'[c] = db[c]
    BY <2>1 DEF UpsertBlock
  <2>4. \A c \in Chunk : IsCompleted(db'[c]) <=> IsCompleted(db[c])
    BY <2>2, <2>3 DEF IsCompleted
  <2>. QED BY <2>1, <2>4, DoneKept
<1>2. ASSUME NEW c \in pending, MarkFailed(c) PROVE UNCHANGED Abstract!vars
  <2>1. tx = db /\ file' = file /\ c \in Chunk /\ ~IsCompleted(db[c])
    BY <1>2 DEF MarkFailed, IInv, StoreInv, WorkInv, TypeOK
  <2>2. ~IsCompleted(db'[c]) /\ \A x \in Chunk \ {c} : db'[x] = db[x]
    BY <1>2, <2>1, CompletedRow DEF MarkFailed, UpsertNow, IInv, TypeOK, StoreTypeOK
  <2>3. \A x \in Chunk : IsCompleted(db'[x]) <=> IsCompleted(db[x])
    BY <2>1, <2>2 DEF IsCompleted
  <2>. QED BY <2>1, <2>3, DoneKept
<1>3. ASSUME NEW c \in pending, ExportChunk(c) PROVE Abstract!Next
  BY <1>3, MapsExport
<1>4. ASSUME EndBatch PROVE [Abstract!Next]_Abstract!vars
  BY <1>4, MapsCommit
<1>5. ASSUME NEW t \in Table,
             DeleteRows(t) \/ DeferDelete(t) \/ DeleteError(t) \/ TruncateTable(t)
      PROVE  UNCHANGED <<db, file>>
  BY <1>5 DEF DeleteRows, DeferDelete, DeleteError, TruncateTable
<1>6. ASSUME NEW G \in SUBSET toImport,
             ImportChunks(G) \/ ImportWithWarnings(G) \/ ImportFails(G)
      PROVE  UNCHANGED <<db, file>>
  BY <1>6 DEF ImportChunks, ImportWithWarnings, ImportFails, AfterCall, OpenBlock
<1>7. ASSUME NEW c \in pending, ExportRaises(c) PROVE UNCHANGED <<db, file>>
  BY <1>7 DEF ExportRaises, UpsertDeferred
<1>8. ASSUME NEW e \in flush, Sidecar(e) PROVE UNCHANGED <<db, file>>
  BY <1>8 DEF Sidecar, WriteSidecar, SidecarError
<1>9. ASSUME NEW S \in SUBSET left, SkipBatch(S) PROVE UNCHANGED <<db, file>>
  BY <1>9 DEF SkipBatch
<1>10. ASSUME NEW d \in Dest, StartRun(d) PROVE UNCHANGED <<db, file>>
  BY <1>10 DEF StartRun
<1>11. ASSUME \/ PreclearDone \/ NextPass \/ PreclearGivesUp
              \/ RecordCompleted \/ RecordFailed \/ FinishRun \/ NewStaging
              \/ UNCHANGED vars
       PROVE  UNCHANGED <<db, file>>
  BY <1>11 DEF PreclearDone, NextPass, PreclearGivesUp, RecordCompleted,
               RecordFailed, UpsertDeferred, FinishRun, CloseStore, NewStaging, vars
<1>12. ASSUME Abort PROVE UNCHANGED <<db, file>>
  BY <1>12 DEF Abort, CloseStore
<1>13. UNCHANGED <<db, file>> => UNCHANGED Abstract!vars
  BY Stutter
<1>. QED
  BY <1>1, <1>2, <1>3, <1>4, <1>5, <1>6, <1>7, <1>8, <1>9, <1>10, <1>11, <1>12, <1>13
     DEF Next, RunStep, RaiseImportError, CommitFails, OracleError, Crash

\* Every behaviour of Convert is one of Resumable: a completed chunk stays
\* completed, and no later run rewrites any of its files.
THEOREM Implements == Spec => ImplementsResumable
<1>1. Spec => Abstract!Init /\ [][Abstract!Next]_Abstract!vars
  BY MapsInit, MapsStep, Invariance, PTL DEF Spec
<1>. QED BY <1>1 DEF ImplementsResumable, Abstract!Spec
=============================================================================
